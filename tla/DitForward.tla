----------------------------- MODULE DitForward -----------------------------
(***************************************************************************)
(* encode_forward and run_block of src/h3_dit.c: where the activations of  *)
(* a step live.  One buffer serves several purposes in turn: the rows of   *)
(* qkv past the reduced ones keep the video tokens from before they were   *)
(* pooled, the attention output keeps their baseline past its own rows and *)
(* changes places with the hidden states, qkv is also the heads and the    *)
(* input of the MLP, and one int8 buffer holds the quantised input of      *)
(* whatever comes next.  Fused kernels leave the input of the next block   *)
(* behind, to be used by that block and no other.                          *)
(*                                                                         *)
(* The content of a buffer is what it was computed as, of which block, and *)
(* from which history of the hidden states.  An operation that reads       *)
(* anything but what it should makes Junk.  A buffer has a front, the rows *)
(* of the token grid in use, and a tail, the rows past the reduced grid: a *)
(* write to the full grid spoils the tail.                                 *)
(***************************************************************************)
EXTENDS Integers, Sequences, SequencesExt

CONSTANTS
  NBlocks,  \* H3_DIT_BLOCKS
  NSteps,   \* the denoising steps
  Options   \* the configurations of a prepared DiT

\* What configure_token_reduction, configure_active_blocks and the checks of a load
\* leave: boundaries in order, the early one behind the other; an interval from 1.
ASSUME OptionsAssumption ==
  /\ NBlocks \in Nat /\ NSteps \in Nat \ {0}
  /\ \A o \in Options :
       /\ o.active \subseteq 0..(NBlocks - 1)
       /\ o.begin \in Nat /\ o.end \in Nat /\ o.begin <= o.end /\ o.end <= NBlocks
       /\ o.early \in Nat /\ o.earlyEnd \in Nat
       /\ o.early > 0 => o.end <= o.earlyEnd /\ o.earlyEnd <= NBlocks
       /\ o.interval \in Nat \ {0}

VARIABLES
  options,         \* the one in force
  now,             \* the denoising step
  pc,              \* the next operation
  here,            \* the block of the loop
  held,            \* dit->hidden, attention_output and mod_attention: which buffer
  grid_reduced,    \* dit->token_reduction_active
  ready,           \* attention_adaln_ready and attention_input_quantized
  front,           \* the contents of the buffers
  tail,
  passes,          \* dit->core_forward_count
  residual_ready,  \* dit->core_residual_ready
  outcome          \* history: what the final head has read

position == << options, now, pc, here >>
vars == << position, held, grid_reduced, ready, front, tail, passes, residual_ready, outcome >>

Buffers == {"a", "b", "c", "qkv", "q", "heads", "mod_mlp", "mlp_output", "int8",
            "token_original", "core_input", "core_residual"}

Content(is, of, history) == [is |-> is, block |-> of, history |-> history]
Junk == Content("junk", 0, << >>)
Hidden(history) == Content("hidden", 0, history)

\* The tokens of a history are pooled.
Pooled(history) ==
  /\ \E i \in DOMAIN history : history[i][1] = "pool"
  /\ \A i \in DOMAIN history : history[i][1] # "expand"

attention_heads == IF options.aliases THEN "qkv" ELSE "heads"
mod_mlp         == IF options.aliases THEN "qkv" ELSE "mod_mlp"
mlp_output      == IF options.aliases THEN held.attention_output ELSE "mlp_output"
token_original  == IF options.inQkv THEN "qkv" ELSE "token_original"

\* The kernel made of block b reads source, over the rows of the grid in use.
Made(is, b, from, source) ==
  IF source.is = from /\ source.block \in {0, b} /\ Pooled(source.history) = grid_reduced
  THEN Content(is, b, source.history) ELSE Junk

\* A residual, gated by what a branch made of it.
Gated(part, from) ==
  LET hidden == front[held.hidden]
  IN IF /\ hidden.is = "hidden"
        /\ from = Content(part, here, hidden.history)
        /\ Pooled(hidden.history) = grid_reduced
     THEN Hidden(Append(hidden.history, << part, here >>)) ELSE Junk

\* The contents of buffers, some of them new.
With(new) == [b \in Buffers |-> IF b \in DOMAIN new THEN new[b] ELSE front[b]]

\* A faulty form: the kernels run over all rows of their buffers.
Write_FullRows(new) ==
  /\ front' = With(new)
  /\ tail' = [b \in Buffers |-> IF b \in DOMAIN new THEN Junk ELSE tail[b]]

Write(new) ==
  /\ front' = With(new)
  /\ tail' = IF grid_reduced THEN tail
             ELSE [b \in Buffers |-> IF b \in DOMAIN new THEN Junk ELSE tail[b]]

One(b, content) == [n \in {b} |-> content]
Two(b, content, c, other) == [n \in {b, c} |-> IF n = b THEN content ELSE other]

Init ==
  /\ options \in Options
  /\ now = 0 /\ pc = "pack" /\ here = 0
  /\ held = [hidden |-> "a", attention_output |-> "b", mod_attention |-> "c"]
  /\ grid_reduced = FALSE
  /\ ready = [adaln |-> FALSE, quantized |-> FALSE]
  /\ front = [b \in Buffers |-> Junk] /\ tail = front
  /\ passes = 0 /\ residual_ready = FALSE
  /\ outcome = << >>

-----------------------------------------------------------------------------
(* encode_forward. *)

\* A faulty form: the last step may be extrapolated too.
evaluate_core_LastToo == options.interval = 1 \/ ~residual_ready \/ passes % options.interval = 0

evaluate_core ==
  \/ options.interval = 1
  \/ ~residual_ready
  \/ passes % options.interval = 0
  \/ now = NSteps - 1

token_reduction == options.begin < options.end
token_reduction_end == IF now < options.early THEN options.earlyEnd ELSE options.end

\* The rows of every segment are projected or copied into hidden.
Pack ==
  /\ pc = "pack"
  /\ LET hidden == Hidden(<< << "pack", now >> >>)
     IN Write(IF evaluate_core /\ options.interval > 1
              THEN Two(held.hidden, hidden, "core_input", hidden) ELSE One(held.hidden, hidden))
  /\ pc' = IF evaluate_core THEN "block" ELSE "reuse"
  /\ here' = 0
  /\ ready' = [adaln |-> FALSE, quantized |-> FALSE]
  /\ UNCHANGED << options, now, held, grid_reduced, passes, residual_ready, outcome >>

\* After its boundary, an active block runs and another is passed over.
Proceed(adaln, quantized) ==
  IF here \in options.active
  THEN /\ pc' = "adaln"
       /\ ready' = [adaln |-> adaln, quantized |-> quantized]
       /\ UNCHANGED << options, now, here >>
  ELSE /\ here' = here + 1
       /\ ready' = [adaln |-> FALSE, quantized |-> FALSE]
       /\ UNCHANGED << options, now, pc >>

AtBoundary(boundary) == token_reduction /\ here = boundary

NextBlock ==
  /\ pc = "block" /\ here < NBlocks
  /\ ~AtBoundary(options.begin) /\ ~AtBoundary(token_reduction_end)
  /\ Proceed(ready.adaln, ready.quantized)
  /\ UNCHANGED << held, grid_reduced, front, tail, passes, residual_ready, outcome >>

\* enter_token_reduction and enter_token_reduction_adaln: the pooled rows and,
\* behind them, the baseline go where the attention output was; the full rows
\* are kept.  The fused form also makes the input of the block's attention.
EnterReduction ==
  LET hidden == front[held.hidden]
      pooled == IF hidden.is = "hidden" /\ ~Pooled(hidden.history)
                THEN Hidden(Append(hidden.history, << "pool", here >>)) ELSE Junk
      fused  == options.poolFused /\ here \in options.active
      input  == Content("norm1", here, pooled.history)
  IN /\ pc = "block" /\ here < NBlocks /\ AtBoundary(options.begin)
     /\ front' = With(IF fused THEN Two(held.attention_output, pooled, held.mod_attention, input)
                      ELSE One(held.attention_output, pooled))
     /\ tail' = [tail EXCEPT ![token_original] = Content("original", 0, hidden.history),
                             ![held.attention_output] = Content("baseline", 0, hidden.history)]
     /\ held' = [held EXCEPT !.hidden = held.attention_output, !.attention_output = held.hidden]
     /\ grid_reduced' = TRUE
     /\ Proceed(fused, FALSE)
     /\ UNCHANGED << passes, residual_ready, outcome >>

\* leave_token_reduction and leave_token_reduction_adaln: each full row is its
\* original and what the blocks made of the row it was pooled into.
Restored ==
  LET hidden == front[held.hidden]
      kept   == tail[token_original].history
  IN IF /\ Pooled(hidden.history) /\ hidden.is = "hidden"
        /\ tail[token_original] = Content("original", 0, kept)
        /\ tail[held.hidden] = Content("baseline", 0, kept)
        /\ SubSeq(hidden.history, 1, Len(kept) + 1) = Append(kept, << "pool", options.begin >>)
     THEN Hidden(Append(hidden.history, << "expand", here >>)) ELSE Junk

Leaves(fused) ==
  LET input == Content("norm1", here, Restored.history)
      new   == IF fused THEN Two(held.attention_output, Restored, held.mod_attention, input)
               ELSE One(held.mod_attention, Restored)
  IN /\ front' = With(new)
     /\ tail' = [b \in Buffers |-> IF b \in DOMAIN new THEN Junk ELSE tail[b]]
     /\ held' = IF fused THEN [held EXCEPT !.hidden = held.attention_output, !.attention_output = held.hidden]
              ELSE [held EXCEPT !.hidden = held.mod_attention, !.mod_attention = held.hidden]
     /\ grid_reduced' = FALSE

LeaveReduction ==
  LET fused == options.expandFused /\ here \in options.active
  IN /\ pc = "block" /\ here < NBlocks /\ AtBoundary(token_reduction_end)
     /\ Leaves(fused)
     /\ Proceed(fused, FALSE)
     /\ UNCHANGED << passes, residual_ready, outcome >>

\* After the last block: tokens not restored yet are, and the sum of what the
\* blocks added is kept.
EndOfBlocks ==
  /\ pc = "block" /\ here = NBlocks
  /\ IF AtBoundary(NBlocks) /\ token_reduction_end = NBlocks
     THEN Leaves(FALSE)
     ELSE UNCHANGED << held, grid_reduced, front, tail >>
  /\ pc' = IF options.interval > 1 THEN "residual" ELSE "head"
  /\ UNCHANGED << options, now, here, ready, passes, residual_ready, outcome >>

CacheResidual ==
  /\ pc = "residual"
  /\ Write(One("core_residual",
       IF /\ front[held.hidden].is = "hidden" /\ ~Pooled(front[held.hidden].history)
          /\ front["core_input"] = Hidden(<< << "pack", now >> >>)
       THEN Content("residual", now, front[held.hidden].history) ELSE Junk))
  /\ residual_ready' = TRUE
  /\ pc' = "head"
  /\ UNCHANGED << options, now, here, held, grid_reduced, ready, passes, outcome >>

ReuseResidual ==
  /\ pc = "reuse"
  /\ Write(One(held.hidden,
       IF front["core_residual"].is = "residual"
       THEN Hidden(Append(front[held.hidden].history, << "reuse", front["core_residual"].block >>))
       ELSE Junk))
  /\ pc' = "head"
  /\ UNCHANGED << options, now, here, held, grid_reduced, ready, passes, residual_ready, outcome >>

\* The audio and video targets are read from the full rows; the next step
\* follows.
FinalHead ==
  /\ pc = "head"
  /\ outcome' = front[held.hidden].history
  /\ passes' = passes + 1
  /\ IF now + 1 < NSteps THEN now' = now + 1 /\ pc' = "pack" ELSE now' = now /\ pc' = "done"
  /\ UNCHANGED << options, here, held, grid_reduced, ready, front, tail, residual_ready >>

-----------------------------------------------------------------------------
(* run_block, over the rows of the grid in use. *)

Step(from, to) == pc = from /\ pc' = to /\ UNCHANGED << options, now, here, held, grid_reduced, passes, residual_ready, outcome >>

AttentionAdaln ==
  /\ Step("adaln", "qkv")
  /\ IF ready.adaln THEN UNCHANGED << front, tail >>
     ELSE Write(One(held.mod_attention, Made("norm1", here, "hidden", front[held.hidden])))
  /\ UNCHANGED ready

\* The quantised projection takes what is in the int8 buffer or fills it; the
\* other has qkv as its scratch.
qkv_input == IF "qkv" \in options.int8 /\ ready.quantized THEN front["int8"] ELSE front[held.mod_attention]

QkvProjection ==
  /\ Step("qkv", "attention")
  /\ LET q == Made("q", here, "norm1", qkv_input)
     IN Write(IF "qkv" \in options.int8
              THEN IF ready.quantized THEN One("q", q) ELSE Two("q", q, "int8", Junk)
              ELSE Two("q", q, "qkv", Junk))
  /\ UNCHANGED ready

RunAttention ==
  /\ Step("attention", "output")
  /\ Write(One(attention_heads, Made("heads", here, "q", front["q"])))
  /\ UNCHANGED ready

AttentionOutput ==
  /\ Step("output", "mlp_input")
  /\ LET made == Made("attention", here, "heads", front[attention_heads])
     IN Write(IF "out" \in options.int8 THEN Two(held.attention_output, made, "int8", Junk)
              ELSE One(held.attention_output, made))
  /\ UNCHANGED ready

\* The attention's gate and the AdaLN of the MLP, quantised at once or not.
fused_int8_mlp_input == "mlp" \in options.int8 /\ options.inputFused
mlp_input == IF fused_int8_mlp_input THEN "int8" ELSE mod_mlp

MlpInput ==
  /\ Step("mlp_input", "mlp")
  /\ LET gated == Gated("attention", front[held.attention_output])
         norm2 == IF gated = Junk THEN Junk ELSE Content("norm2", here, gated.history)
     IN Write(Two(held.hidden, gated, mlp_input, norm2))
  /\ UNCHANGED ready

RunMlp ==
  /\ Step("mlp", "gate")
  /\ LET made == Made("mlp", here, "norm2", front[mlp_input])
     IN Write(IF "mlp" \in options.int8 THEN Two(mlp_output, made, "int8", Junk) ELSE One(mlp_output, made))
  /\ UNCHANGED ready

\* A block whose successor runs on the same grid leaves it its input.
fuse_next_attention ==
  /\ options.crossFused
  /\ here + 1 < NBlocks /\ here + 1 \in options.active
  /\ ~(token_reduction /\ here + 1 \in {options.begin, token_reduction_end})

MlpGate ==
  /\ pc = "gate"
  /\ LET gated     == Gated("mlp", front[mlp_output])
         quantized == "qkv" \in options.int8 /\ options.inputFused
         input     == IF gated = Junk THEN Junk ELSE Content("norm1", here + 1, gated.history)
     IN /\ IF fuse_next_attention
           THEN Write(Two(held.hidden, gated, IF quantized THEN "int8" ELSE held.mod_attention, input))
           ELSE Write(One(held.hidden, gated))
        /\ ready' = [adaln |-> fuse_next_attention, quantized |-> fuse_next_attention /\ quantized]
  /\ pc' = "block"
  /\ here' = here + 1
  /\ UNCHANGED << options, now, held, grid_reduced, passes, residual_ready, outcome >>

Next ==
  \/ Pack \/ NextBlock \/ EnterReduction \/ LeaveReduction \/ EndOfBlocks
  \/ CacheResidual \/ ReuseResidual \/ FinalHead
  \/ AttentionAdaln \/ QkvProjection \/ RunAttention \/ AttentionOutput
  \/ MlpInput \/ RunMlp \/ MlpGate

Spec == Init /\ [][Next]_vars

-----------------------------------------------------------------------------
(* What the buffers must guarantee. *)

\* The layers see the hidden states, the step of the residual and what the
\* head read.
Layers == INSTANCE DitLayers WITH
  step      <- now,
  stream    <- front[held.hidden].history,
  evaluated <- IF front["core_residual"].is = "residual" THEN front["core_residual"].block ELSE -1

\* Each step computes the layers of the model in their order, whichever
\* buffers share memory, kernels are fused and inputs are quantised ahead:
\* tokens are pooled and restored once, at the boundaries of the step, every
\* active block runs whole and on the grid it is meant for, what a skipped step
\* adds is from a step evaluated fewer than interval before it, and the head
\* reads the full rows of the step (encode_forward, run_block).
ImplementsLayers == Layers!Spec

\* While tokens are pooled, the rows they were pooled from and their baseline
\* survive behind the rows in use, and both are of the states that were pooled
\* (enter_token_reduction to leave_token_reduction).
SnapshotSurvives ==
  grid_reduced =>
    /\ tail[token_original].is = "original" /\ tail[held.hidden].is = "baseline"
    /\ tail[token_original].history = tail[held.hidden].history
    /\ IsPrefix(tail[held.hidden].history, front[held.hidden].history)

\* What an earlier block or boundary left behind as the input of this block's
\* attention was made for this block and from the hidden states as they are
\* now, and so is what the MLP reads (attention_adaln_ready,
\* attention_input_quantized and fused_int8_mlp_input in run_block).
InputsCurrent ==
  LET hidden == front[held.hidden].history
  IN /\ pc = "qkv" => qkv_input = Content("norm1", here, hidden)
     /\ pc = "mlp" => front[mlp_input] = Content("norm2", here, hidden)

\* Whatever buffers are shared and kernels fused, a block works on what was made
\* for it, and the pooled tokens can be expanded again.
BuffersHold == SnapshotSurvives /\ InputsCurrent

-----------------------------------------------------------------------------
(* The inductive invariant of BuffersHold. *)

Kinds == {"junk", "hidden", "norm1", "q", "heads", "attention", "norm2", "mlp",
          "original", "baseline", "residual"}
Marks == {"pack", "pool", "expand", "attention", "mlp", "reuse"}
Histories == Seq(Marks \X Nat)
Contents == [is : Kinds, block : Nat, history : Histories]

InBlock == {"adaln", "qkv", "attention", "output", "mlp_input", "mlp", "gate"}
States  == {"block"} \cup InBlock \cup {"residual", "head"}
Rotated == {"a", "b", "c"}

TypeOK ==
  /\ options \in Options /\ now \in Nat /\ here \in 0..NBlocks
  /\ pc \in States \cup {"pack", "reuse", "done"}
  /\ held \in [hidden : Rotated, attention_output : Rotated, mod_attention : Rotated]
  /\ held.hidden # held.attention_output /\ held.hidden # held.mod_attention
  /\ held.attention_output # held.mod_attention
  /\ grid_reduced \in BOOLEAN /\ residual_ready \in BOOLEAN
  /\ ready \in [adaln : BOOLEAN, quantized : BOOLEAN]
  /\ front \in [Buffers -> Contents] /\ tail \in [Buffers -> Contents]
  /\ passes \in Nat

\* The reduced grid is in use between the boundaries of the step and nowhere else.
PositionInv ==
  /\ pc \in InBlock => here \in options.active
  /\ grid_reduced <=>
       /\ token_reduction
       /\ \/ pc = "block" /\ options.begin < here /\ here <= token_reduction_end
          \/ pc \in InBlock /\ options.begin <= here /\ here < token_reduction_end

Fresh(history) == \A i \in DOMAIN history : history[i][1] \notin {"pool", "expand"}

\* The hidden states are never Junk, and pooled as long as the grid is reduced.
HiddenInv ==
  LET hidden == front[held.hidden]
  IN /\ pc \in States \cup {"reuse"} =>
          hidden = Hidden(hidden.history) /\ (Pooled(hidden.history) <=> grid_reduced)
     /\ \/ pc = "block" /\ (token_reduction => here <= options.begin)
        \/ pc \in InBlock /\ (token_reduction => here < options.begin)
        \/ pc = "reuse"
        => Fresh(hidden.history)

\* The states that were kept, pooled, and what the blocks have done since.
PooledFrom(kept, begin, history) ==
  /\ Len(kept) + 1 <= Len(history)
  /\ \A i \in 1..Len(kept) : history[i] = kept[i]
  /\ history[Len(kept) + 1] = << "pool", begin >>

\* What was kept is of the states that were pooled, wherever the buffers have gone.
KeptInv ==
  LET kept == tail[held.hidden].history
      history == front[held.hidden].history
  IN grid_reduced =>
       /\ tail[token_original] = Content("original", 0, kept)
       /\ tail[held.hidden] = Content("baseline", 0, kept)
       /\ PooledFrom(kept, options.begin, history)

\* The input of the attention that an earlier kernel made is where it is looked for,
\* and so is what each operation of a block made for the next one.
carried_input == IF ready.quantized THEN front["int8"] ELSE front[held.mod_attention]

WorkInv ==
  LET history == front[held.hidden].history
      Is(buffer, part) == front[buffer] = Content(part, here, history)
  IN /\ ready.quantized => ready.adaln /\ "qkv" \in options.int8
     /\ pc \in {"block", "adaln"} /\ ready.adaln => carried_input = Content("norm1", here, history)
     /\ pc = "qkv" => carried_input = Content("norm1", here, history)
     /\ pc = "attention" => Is("q", "q")
     /\ pc = "output" => Is(attention_heads, "heads")
     /\ pc = "mlp_input" => Is(held.attention_output, "attention")
     /\ pc = "mlp" => Is(mlp_input, "norm2")
     /\ pc = "gate" => Is(mlp_output, "mlp")

\* A residual is the difference between the rows that were packed and the full rows
\* after the blocks.
ResidualInv ==
  /\ pc \in {"block", "residual"} \cup InBlock /\ options.interval > 1 =>
       front["core_input"] = Hidden(<< << "pack", now >> >>)
  /\ pc = "residual" => options.interval > 1
  /\ pc = "reuse" => residual_ready
  /\ residual_ready => front["core_residual"].is = "residual"

ForwardInv == TypeOK /\ PositionInv /\ HiddenInv /\ KeptInv /\ WorkInv /\ ResidualInv

\* The history of the hidden states is what the layers prescribe up to where the loop
\* is (the inductive invariant of ImplementsLayers).
TraceInv ==
  LET history == front[held.hidden].history
      through == Layers!Through(options, now)
      crossed == Layers!Crossed(options, now, here, through[here])
      packed  == << "pack", now >>
  IN /\ pc = "block" => history = through[here]
     /\ pc \in {"adaln", "qkv", "attention", "output", "mlp_input"} => history = crossed
     /\ pc \in {"mlp", "gate"} => history = Append(crossed, << "attention", here >>)
     /\ pc = "residual" => history = Layers!Reference(options, now)
     /\ pc = "reuse" => history = << packed >>
     /\ pc = "head" => \/ history = Layers!Reference(options, now)
                       \/ history = << packed, << "reuse", front["core_residual"].block >> >>
     /\ pc = "pack" => history = << >> \/ history[1] # packed

\* The residual that is kept is of the last step that the interval made evaluate, or
\* of a later one.
AgeInv ==
  LET kept   == front["core_residual"].block
      recent == kept <= now /\ now - (now % options.interval) <= kept
  IN /\ now < NSteps
     /\ pc # "done" => passes = now
     /\ pc = "pack" /\ residual_ready => kept <= now /\ (now % options.interval # 0 => recent)
     /\ pc = "reuse" => now % options.interval # 0 /\ recent /\ now # NSteps - 1
     /\ pc = "head" /\ options.interval > 1 => residual_ready /\ recent
     /\ residual_ready => options.interval > 1
     /\ front["core_residual"].is = "residual" => residual_ready

LayersInv == TraceInv /\ AgeInv

\* The final head reads the full rows of what the step has computed, never a buffer
\* that an operation has left half made (encode_forward).
HeadReadsRows ==
  pc = "head" => front[held.hidden].is = "hidden" /\ ~Pooled(front[held.hidden].history)
=============================================================================
