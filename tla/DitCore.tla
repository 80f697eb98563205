------------------------------ MODULE DitCore ------------------------------
(***************************************************************************)
(* What a prepared DiT promises, wherever its weights live: a run visits   *)
(* its steps in order; a selected step either applies the active blocks,   *)
(* each once, in increasing order and with its own weights, or reuses the  *)
(* residual of a recent pass of the same run; a failure loses the DiT.     *)
(***************************************************************************)
EXTENDS DitBlocks, Sequences

VARIABLES
  stage,    \* "none", "idle", "prepared", "between" (two steps), "blocks"
  step,     \* the denoising step
  count,    \* core_forward_count: passes made in this run
  ready,    \* core_residual_ready
  trace     \* per block of the pass: the layers whose weights were applied

vars == <<stage, step, count, ready, trace>>

Init ==
  /\ stage = "none" /\ step = 0 /\ count = 0 /\ ready = FALSE /\ trace = <<>>

Prepare ==
  /\ stage \in {"none", "idle"} /\ stage' = "prepared"
  /\ count' = 0 /\ ready' = FALSE
  /\ UNCHANGED <<step, trace>>

\* The request is cancelled before it denoises and the DiT is kept.
Keep ==
  /\ stage = "prepared" /\ stage' = "idle"
  /\ UNCHANGED <<step, count, ready, trace>>

Begin ==
  /\ stage = "prepared" /\ stage' = "between" /\ step' = 0
  /\ UNCHANGED <<count, ready, trace>>

Evaluates == EvaluateCore(step, count, ready)

Skip ==
  /\ stage = "between" /\ step < Steps /\ step \notin Selected
  /\ step' = step + 1
  /\ UNCHANGED <<stage, count, ready, trace>>

Reuse ==
  /\ stage = "between" /\ step \in Selected /\ ~Evaluates
  /\ step' = step + 1 /\ count' = count + 1
  /\ UNCHANGED <<stage, ready, trace>>

Evaluate ==
  /\ stage = "between" /\ step \in Selected /\ Evaluates
  /\ stage' = "blocks" /\ trace' = <<>>
  /\ UNCHANGED <<step, count, ready>>

\* The blocks that may come after those applied.
Following(t) ==
  IF t = <<>> THEN FirstActive
  ELSE UNION {NextActive(a) : a \in t[Len(t)]}

Block ==
  /\ stage = "blocks"
  /\ \E b \in Following(trace) \cap Active : trace' = Append(trace, {b})
  /\ UNCHANGED <<stage, step, count, ready>>

EndPass ==
  /\ stage = "blocks" /\ NBlocks \in Following(trace)
  /\ stage' = "between" /\ step' = step + 1 /\ count' = count + 1
  /\ ready' = (ready \/ Interval > 1)
  /\ UNCHANGED trace

EndRun ==
  /\ stage = "between" /\ step = Steps /\ stage' = "idle"
  /\ UNCHANGED <<step, count, ready, trace>>

\* Something fails, or the session wants another model.
Lose ==
  /\ stage # "none" /\ stage' = "none"
  /\ UNCHANGED <<step, count, ready, trace>>

Next ==
  \/ Prepare \/ Keep \/ Begin \/ Skip \/ Reuse \/ Evaluate \/ Block
  \/ EndPass \/ EndRun \/ Lose

Spec == Init /\ [][Next]_vars
=============================================================================
