----------------------------- MODULE DitLayers -----------------------------
(***************************************************************************)
(* What a run of the DiT computes, whatever the buffers, the fused kernels *)
(* and the number formats: each step packs its rows and sends them through *)
(* the active blocks, attention then MLP, pooling the video tokens at one  *)
(* boundary and restoring them at another; or it adds to the packed rows   *)
(* what the blocks of a recent step added to theirs.  stream is the        *)
(* history of the hidden states.                                           *)
(***************************************************************************)
EXTENDS Integers, Sequences, SequencesExt

CONSTANTS
  NBlocks,  \* H3_DIT_BLOCKS
  NSteps    \* the denoising steps

\* options: active, the blocks kept; begin and end, the boundaries where tokens
\* are pooled and restored, equal when they never are; early, the steps whose
\* second boundary is earlyEnd; interval, one step in which goes through the
\* blocks.  evaluated is the last step that was kept, and outcome the history
\* of what the final head has read last.
VARIABLES options, step, stream, evaluated, outcome

vars == << options, step, stream, evaluated, outcome >>

Reduces(o) == o.begin < o.end
EndOf(o, s) == IF s < o.early THEN o.earlyEnd ELSE o.end

\* Pooled at one boundary, restored at the other.
Crossed(o, s, block, history) ==
  IF ~Reduces(o) THEN history
  ELSE IF block = o.begin THEN Append(history, << "pool", block >>)
  ELSE IF block = EndOf(o, s) THEN Append(history, << "expand", block >>) ELSE history

Ran(o, block, history) ==
  IF block \in o.active
  THEN Append(Append(history, << "attention", block >>), << "mlp", block >>) ELSE history

\* The history of the rows of step s that went through the first n blocks, and
\* through every block.
Through(o, s) ==
  LET rows[n \in 0..NBlocks] ==
        IF n = 0 THEN << << "pack", s >> >> ELSE Ran(o, n - 1, Crossed(o, s, n - 1, rows[n - 1]))
  IN rows

Reference(o, s) == Crossed(o, s, NBlocks, Through(o, s)[NBlocks])

Init == step = 0 /\ stream = << >> /\ evaluated = -1 /\ outcome = << >>

Evaluated == stream = Reference(options, step)

Pack ==
  /\ stream = << >> \/ stream[1] # << "pack", step >>
  /\ stream' = << << "pack", step >> >>
  /\ UNCHANGED << options, step, evaluated, outcome >>

\* Each operation in its turn, and nothing else.
Apply ==
  /\ stream # << >> /\ stream[1] = << "pack", step >>
  /\ \E next \in {"attention", "mlp", "pool", "expand"}, block \in 0..NBlocks :
       stream' = Append(stream, << next, block >>)
  /\ IsPrefix(stream', Reference(options, step))
  /\ UNCHANGED << options, step, evaluated, outcome >>

Keep == Evaluated /\ evaluated' = step /\ UNCHANGED << options, step, stream, outcome >>

\* Never at the last step, and never from a step too far back.
Reuse ==
  /\ stream = << << "pack", step >> >>
  /\ evaluated >= 0 /\ step - evaluated < options.interval /\ step # NSteps - 1
  /\ stream' = Append(stream, << "reuse", evaluated >>)
  /\ UNCHANGED << options, step, evaluated, outcome >>

\* The head reads rows that are whole, and the next step follows.
Read ==
  /\ stream # << >>
  /\ Evaluated \/ stream[Len(stream)][1] = "reuse"
  /\ outcome' = stream
  /\ step' = IF step + 1 < NSteps THEN step + 1 ELSE step
  /\ UNCHANGED << options, stream, evaluated >>

Next == Pack \/ Apply \/ Keep \/ Reuse \/ Read

Spec == Init /\ [][Next]_vars
=============================================================================
