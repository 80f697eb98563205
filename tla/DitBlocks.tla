----------------------------- MODULE DitBlocks -----------------------------
(***************************************************************************)
(* What the transformer of h3_dit.c is asked to compute: which blocks are  *)
(* active, in which order a forward pass visits them, and at which         *)
(* denoising steps it evaluates them instead of reusing the residual of an *)
(* earlier pass.                                                           *)
(***************************************************************************)
EXTENDS Integers, FiniteSets

CONSTANTS
  NBlocks,  \* H3_DIT_BLOCKS
  Active,   \* the blocks with block_active set (gates or depth dropped the rest)
  Steps,    \* denoising steps of a run
  Selected, \* the steps that call h3_dit_forward; the others extrapolate
  Interval  \* core_reuse_interval

ASSUME DitBlocksAssumption ==
  /\ NBlocks \in Nat \ {0}
  /\ Active \subseteq 0 .. NBlocks - 1
  /\ Active # {}
  /\ Steps \in Nat \ {0}
  /\ Selected \subseteq 0 .. Steps - 1
  /\ {0, Steps - 1} \subseteq Selected
  /\ Interval \in Nat \ {0}

LastStep == Steps - 1

\* first_active_block, next_active_block: a set of one element, {NBlocks} when no
\* block is left.
Least(S) == {b \in S : \A c \in S : b <= c}

FirstActive == Least(Active)

NextActive(current) ==
  LET later == {b \in Active : b > current}
  IN  IF later = {} THEN {NBlocks} ELSE Least(later)

\* encode_forward: whether the pass at this step runs the blocks, when count passes
\* were made in the run and a residual is or is not ready.
EvaluateCore(step, count, ready) ==
  \/ Interval = 1
  \/ ~ready
  \/ count % Interval = 0
  \/ step = LastStep
=============================================================================
