----------------------------- MODULE DitStream -----------------------------
(***************************************************************************)
(* The DiT with its weights streamed from disk (h3_dit.c with              *)
(* ssd_streaming): two slots for the four matrices of a block.  While the  *)
(* GPU runs a block from one slot, a thread reads the next active block    *)
(* into the other; after the last block it reads the first again, for the  *)
(* pass to come, which may be in another run of a session that kept the    *)
(* prepared DiT (h3.c).                                                    *)
(*                                                                         *)
(* The GPU may execute what is encoded at any moment until h3_gpu_submit   *)
(* has waited for it: CUDA starts at once, Metal when it is committed.     *)
(* Norms and modulation are resident, so the fused AdaLN of the next block *)
(* does not touch the slots.  A definition named X_Fault is X with a       *)
(* plausible mistake; nothing uses it.                                     *)
(***************************************************************************)
EXTENDS DitBlocks, Sequences

CONSTANTS
  Matrices, \* qkv, out, fc1, fc2
  NoMatrix, \* no matrix is being read
  MaxRuns,  \* bound: runs of the session
  Faults    \* TRUE: reads, threads, commands and previews may fail

ASSUME DitStreamAssumption ==
  /\ Matrices # {} /\ NoMatrix \notin Matrices
  /\ MaxRuns \in Nat
  /\ Faults \in BOOLEAN

Torn  == NBlocks  \* a matrix that was never read, or is being overwritten
Slots == {0, 1}

VARIABLES
  pc,            \* what the host thread does
  run,           \* bound: runs begun
  step,          \* the denoising step
  count,         \* core_forward_count
  ready,         \* core_residual_ready
  residual,      \* history: the run and the pass whose residual is kept
  trace,         \* history: per block of the pass, the layers whose weights were used
  block,         \* the block of the loop, NBlocks after the last
  slot,          \* the layer each matrix of each slot belongs to
  readyLayer,    \* stream_ready_layer
  readySlot,     \* stream_ready_slot
  thread,        \* TRUE from pthread_create to pthread_join
  job,           \* stream_job: layer, slot and ok
  unread,        \* the matrices the thread has still to read
  reading,       \* the matrix it reads
  gpuSlot,       \* the slot of the block that is encoded
  pending,       \* the matrices of it that the GPU has still to use
  used           \* the layers it has used for the block

passVars   == <<run, step, count, ready, residual>>
readyVars  == <<readyLayer, readySlot>>
threadVars == <<thread, job, unread, reading>>
gpuVars    == <<gpuSlot, pending, used>>
vars == <<pc, passVars, trace, block, slot, readyVars, threadVars, gpuVars>>

Goto(to) == pc' = to
NoJob == [layer |-> Torn, slot |-> 0, ok |-> TRUE]

Init ==
  /\ pc = "none" /\ run = 0
  /\ step = 0 /\ count = 0 /\ ready = FALSE /\ residual = <<0, 0>>
  /\ trace = <<>> /\ block = NBlocks
  /\ slot = [s \in Slots |-> [m \in Matrices |-> Torn]]
  /\ readyLayer = Torn /\ readySlot = 0
  /\ thread = FALSE /\ job = NoJob /\ unread = {} /\ reading = NoMatrix
  /\ gpuSlot = 0 /\ pending = {} /\ used = {}

(***************************************************************************)
(* The session: load, keep, reset, lose.                                   *)
(***************************************************************************)
\* load_core: slot 0 is primed with the first active block before anything runs.
Load ==
  /\ pc = "none" /\ run < MaxRuns /\ Goto("prepared")
  /\ run' = run + 1 /\ count' = 0 /\ ready' = FALSE
  /\ \E first \in FirstActive :
       /\ readyLayer' = first
       /\ slot' = [s \in Slots |-> [m \in Matrices |-> IF s = 0 THEN first ELSE Torn]]
  /\ readySlot' = 0
  /\ UNCHANGED <<step, residual, trace, block, threadVars, gpuVars>>

\* h3_dit_reset_run leaves the pass counter and the residual of the run before.
ResetRun_KeepsCore ==
  /\ pc = "idle" /\ run < MaxRuns /\ Goto("prepared")
  /\ run' = run + 1
  /\ UNCHANGED <<step, count, ready, residual, trace, block, slot, readyVars, threadVars,
                 gpuVars>>

\* h3_dit_reset_run: what the slots hold stays.
ResetRun ==
  /\ pc = "idle" /\ run < MaxRuns /\ Goto("prepared")
  /\ run' = run + 1 /\ count' = 0 /\ ready' = FALSE
  /\ UNCHANGED <<step, residual, trace, block, slot, readyVars, threadVars, gpuVars>>

\* The request was cancelled meanwhile: the DiT stays prepared.
Keep ==
  /\ pc = "prepared" /\ Goto("idle")
  /\ UNCHANGED <<passVars, trace, block, slot, readyVars, threadVars, gpuVars>>

\* h3_dit_free, after a failure or for another model.  Uncommitted commands are
\* dropped with their buffer, and cudaFree waits for those that run.
Free ==
  /\ pc \in {"failed", "idle"} /\ Goto("none")
  /\ pending' = {} /\ used' = {}
  /\ slot' = [s \in Slots |-> [m \in Matrices |-> Torn]]
  /\ readyLayer' = Torn
  /\ UNCHANGED <<passVars, trace, block, readySlot, threadVars, gpuSlot>>

(***************************************************************************)
(* The denoising loop.                                                     *)
(***************************************************************************)
BeginDenoise ==
  /\ pc = "prepared" /\ Goto("between") /\ step' = 0
  /\ UNCHANGED <<run, count, ready, residual, trace, block, slot, readyVars,
                 threadVars, gpuVars>>

\* The velocity is extrapolated; no pass is made.
SkipStep ==
  /\ pc = "between" /\ step < Steps /\ step \notin Selected
  /\ step' = step + 1
  /\ UNCHANGED <<pc, run, count, ready, residual, trace, block, slot, readyVars,
                 threadVars, gpuVars>>

ReuseStep ==
  /\ pc = "between" /\ step \in Selected /\ ~EvaluateCore(step, count, ready)
  /\ step' = step + 1 /\ count' = count + 1
  /\ UNCHANGED <<pc, run, ready, residual, trace, block, slot, readyVars, threadVars,
                 gpuVars>>

BeginPass ==
  /\ pc = "between" /\ step \in Selected /\ EvaluateCore(step, count, ready)
  /\ Goto("block") /\ block' \in FirstActive /\ trace' = <<>>
  /\ UNCHANGED <<passVars, slot, readyVars, threadVars, gpuVars>>

EndDenoise ==
  /\ pc = "between" /\ step = Steps /\ Goto("idle")
  /\ UNCHANGED <<passVars, trace, block, slot, readyVars, threadVars, gpuVars>>

(***************************************************************************)
(* The block loop of encode_forward.                                       *)
(***************************************************************************)
\* The block to prefetch: the next active one, or the first for the next pass.
Future == IF NBlocks \in NextActive(block) THEN FirstActive ELSE NextActive(block)

OtherSlot_Same == readySlot

OtherSlot == 1 - readySlot

StartPrefetch ==
  /\ pc = "block" /\ readyLayer = block /\ Goto("run")
  /\ \E future \in Future : job' = [layer |-> future, slot |-> OtherSlot, ok |-> TRUE]
  /\ thread' = TRUE /\ unread' = Matrices
  /\ gpuSlot' = readySlot
  /\ UNCHANGED <<passVars, trace, block, slot, readyVars, reading, pending, used>>

\* run_block encodes the block from the slot that is ready.
RunBlock ==
  /\ pc = "run" /\ Goto("submit")
  /\ pending' = Matrices /\ used' = {}
  /\ UNCHANGED <<passVars, trace, block, slot, readyVars, threadVars, gpuSlot>>

RunBlockFails ==
  /\ pc = "run" /\ Faults /\ Goto("failJoin")
  /\ pending' \in SUBSET Matrices /\ used' = {}
  /\ UNCHANGED <<passVars, trace, block, slot, readyVars, threadVars, gpuSlot>>

\* h3_gpu_submit returns once the GPU has executed everything.
Executed_NotAwaited == TRUE

Executed == pending = {}

Submit ==
  /\ pc = "submit" /\ Executed /\ Goto("join")
  /\ trace' = Append(trace, used)
  /\ UNCHANGED <<passVars, block, slot, readyVars, threadVars, gpuVars>>

SubmitFails ==
  /\ pc = "submit" /\ Faults /\ Goto("failJoin")
  /\ pending' = {}
  /\ UNCHANGED <<passVars, trace, block, slot, readyVars, threadVars, gpuSlot, used>>

ThreadEnded == unread = {} /\ reading = NoMatrix

\* Joined: the slot the thread filled is the one of the next block.
Join ==
  /\ pc = "join" /\ ThreadEnded /\ thread' = FALSE
  /\ \/ /\ job.ok
        /\ readyLayer' = job.layer /\ readySlot' = job.slot
        /\ block' \in NextActive(block)
        /\ Goto(IF block' = NBlocks THEN "tail" ELSE "block")
     \/ ~job.ok /\ Goto("failed") /\ UNCHANGED <<readyVars, block>>
  /\ UNCHANGED <<passVars, trace, slot, job, unread, reading, gpuVars>>

FailJoin ==
  /\ pc = "failJoin" /\ ThreadEnded /\ Goto("failed")
  /\ thread' = FALSE
  /\ UNCHANGED <<passVars, trace, block, slot, readyVars, job, unread, reading, gpuVars>>

\* The residual is kept, the final heads run, the sampler takes its step.
EndPass ==
  /\ pc = "tail" /\ Goto("between")
  /\ ready' = (ready \/ Interval > 1)
  /\ residual' = IF Interval > 1 THEN <<run, count>> ELSE residual
  /\ count' = count + 1 /\ step' = step + 1
  /\ UNCHANGED <<run, trace, block, slot, readyVars, threadVars, gpuVars>>

\* "DiT SSD stream expected block %u, has block %u".
Unexpected == pc = "block" /\ readyLayer # block

\* A command, the creation of the thread, a read back or a preview fails.
Fails ==
  /\ pc \in {"between", "block", "tail"} /\ Goto("failed")
  /\ Faults \/ Unexpected
  /\ UNCHANGED <<passVars, trace, block, slot, readyVars, threadVars, gpuVars>>

Host ==
  \/ BeginDenoise \/ SkipStep \/ ReuseStep \/ BeginPass \/ EndDenoise
  \/ StartPrefetch \/ RunBlock \/ RunBlockFails
  \/ Submit \/ SubmitFails \/ Join \/ FailJoin \/ EndPass \/ Fails
  \/ (pc = "failed" /\ Free)

Session == Load \/ ResetRun \/ Keep \/ (pc = "idle" /\ Free)

(***************************************************************************)
(* read_stream_layer, in its thread.                                       *)
(***************************************************************************)
ReadBegins(m) ==
  /\ thread /\ reading = NoMatrix /\ m \in unread
  /\ reading' = m
  /\ slot' = [slot EXCEPT ![job.slot][m] = Torn]
  /\ UNCHANGED <<pc, passVars, trace, block, readyVars, thread, job, unread, gpuVars>>

ReadEnds(m) ==
  /\ thread /\ reading = m /\ m \in unread
  /\ reading' = NoMatrix /\ unread' = unread \ {m}
  /\ slot' = [slot EXCEPT ![job.slot][m] = job.layer]
  /\ UNCHANGED <<pc, passVars, trace, block, readyVars, thread, job, gpuVars>>

\* The first failure ends the thread.
ReadFails_Retries ==
  /\ thread /\ reading # NoMatrix /\ Faults
  /\ reading' = NoMatrix /\ job' = [job EXCEPT !.ok = FALSE]
  /\ UNCHANGED <<pc, passVars, trace, block, slot, readyVars, thread, unread, gpuVars>>

ReadFails ==
  /\ thread /\ reading # NoMatrix /\ Faults
  /\ reading' = NoMatrix /\ unread' = {} /\ job' = [job EXCEPT !.ok = FALSE]
  /\ UNCHANGED <<pc, passVars, trace, block, slot, readyVars, thread, gpuVars>>

Reader == ReadFails \/ \E m \in Matrices : ReadBegins(m) \/ ReadEnds(m)

(***************************************************************************)
(* The GPU.                                                                *)
(***************************************************************************)
GpuUses(m) ==
  /\ m \in pending
  /\ pending' = pending \ {m}
  /\ used' = used \cup {slot[gpuSlot][m]}
  /\ UNCHANGED <<pc, passVars, trace, block, slot, readyVars, threadVars, gpuSlot>>

Gpu == \E m \in Matrices : GpuUses(m)

Next == Host \/ Session \/ Reader \/ Gpu

Spec == Init /\ [][Next]_vars

\* Every thread and the GPU keep going; nobody has to make another request.
FairSpec == Spec /\ WF_vars(Host) /\ WF_vars(Reader) /\ WF_vars(Gpu)

(***************************************************************************)
(* Properties.                                                             *)
(***************************************************************************)
Layers == 0 .. NBlocks

TypeOK ==
  /\ pc \in {"none", "idle", "prepared", "between", "block", "run", "submit",
             "join", "failJoin", "tail", "failed"}
  /\ run \in 0 .. MaxRuns /\ step \in Nat /\ count \in Nat
  /\ ready \in BOOLEAN /\ residual \in Nat \X Nat
  /\ trace \in Seq(SUBSET Layers)
  /\ block \in Layers
  /\ slot \in [Slots -> [Matrices -> Layers]]
  /\ readyLayer \in Layers /\ readySlot \in Slots
  /\ thread \in BOOLEAN
  /\ job \in [layer : Layers, slot : Slots, ok : BOOLEAN]
  /\ unread \in SUBSET Matrices /\ reading \in Matrices \cup {NoMatrix}
  /\ gpuSlot \in Slots /\ pending \in SUBSET Matrices /\ used \in SUBSET Layers

Whole(s, b) == \A m \in Matrices : slot[s][m] = b

\* Whatever the GPU has still to execute finds the weights of its own block, whole,
\* however the thread that reads and the GPU interleave and whatever failed before.
OwnWeights == \A m \in pending : slot[gpuSlot][m] = block

\* The thread never writes the slot that the GPU reads.
NoDataRace == reading # NoMatrix /\ pending # {} => job.slot # gpuSlot

\* "DiT SSD stream expected block" cannot happen: the block that the loop reaches
\* is the one that was read, also in the first block of a pass, after passes that
\* reused the residual, and in a run that found the prepared DiT in the session.
ExpectedBlock == pc = "block" => readyLayer = block /\ Whole(readySlot, block)

\* stream_job and the thread's handle are locals of the loop body: the thread is
\* joined on every way out of it, so nothing is freed under a thread that reads.
ReaderScoped == thread => pc \in {"run", "submit", "join", "failJoin"}

\* The two slots are never confused: what the GPU executes finds its own block, whole,
\* the thread writes the other slot only, never outlives the locals it writes through,
\* and leaves the block that the loop reaches next (encode_forward).
SlotsIntact == OwnWeights /\ NoDataRace /\ ExpectedBlock /\ ReaderScoped

\* A residual that is reused was computed in this run, at most Interval - 1 passes
\* ago; never one that an earlier run of the session left in core_residual.
FreshResidual ==
  pc = "between" /\ step \in Selected /\ ~EvaluateCore(step, count, ready) =>
    residual[1] = run /\ count - residual[2] \in 1 .. Interval - 1

(***************************************************************************)
(* The invariant that carries them: while a block runs, its slot is whole  *)
(* and the thread fills the other with a block of Future; between blocks   *)
(* the slot that is ready holds the block to come.                         *)
(***************************************************************************)
Streaming == {"run", "submit", "join", "failJoin"}

ReadyInv ==
  /\ pc \in {"idle", "prepared", "between", "tail"} =>
       readyLayer \in FirstActive /\ Whole(readySlot, readyLayer)
  /\ pc \in Streaming \cup {"block"} =>
       block \in Active /\ readyLayer = block /\ Whole(readySlot, block)

ThreadInv ==
  /\ thread <=> pc \in Streaming
  /\ thread =>
       /\ job.slot = OtherSlot /\ gpuSlot = readySlot
       /\ job.layer \in Future
       /\ job.ok => \A m \in Matrices \ unread : slot[job.slot][m] = job.layer
  /\ ~thread => unread = {}
  /\ reading # NoMatrix => reading \in unread

GpuInv ==
  /\ pending # {} => pc \in {"submit", "failJoin", "failed"}
  /\ OwnWeights
  /\ pc = "submit" => used \subseteq {block} /\ (pending # Matrices => used = {block})

\* The blocks that may come after those of the trace.
Following ==
  IF trace = <<>> THEN FirstActive
  ELSE UNION {NextActive(a) : a \in trace[Len(trace)]}

TraceInv ==
  /\ pc \in {"block", "run", "submit"} => block \in Following
  /\ pc = "join" => trace # <<>> /\ trace[Len(trace)] = {block}
  /\ pc = "tail" => NBlocks \in Following

\* A residual is as old as the passes since the last multiple of Interval at most.
ResidualInv ==
  ready =>
    /\ Interval > 1 /\ residual[1] = run /\ residual[2] < count
    /\ count - residual[2] <= ((count - 1) % Interval) + 1

Inv == ReadyInv /\ ThreadInv /\ GpuInv /\ TraceInv /\ ResidualInv

\* Streaming computes what resident weights compute.
Stage ==
  CASE pc \in {"none", "failed"} -> "none"
    [] pc \in {"idle", "prepared", "between"} -> pc
    [] OTHER -> "blocks"

Core == INSTANCE DitCore WITH stage <- Stage

ImplementsCore == Core!Spec

\* A run that was begun ends, in success or in failure: host, thread and GPU never
\* wait for each other in a circle.
RunEnds == pc = "between" ~> pc \in {"idle", "none"}
=============================================================================
