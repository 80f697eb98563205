# A verification development of h3.c

h3.c generates video with sound on one machine: a C program (`h3`) that runs a
text encoder, a diffusion transformer (DiT), two VAEs and FFmpeg on one GPU, and
a web service (`webui/backend`) that queues such generations, runs one `h3`
after another as a child process and reports their progress to browsers.

The modules here model the parts of it whose correctness rests on the order of
events: a job queue that survives crashes, the event stream that follows a job,
a database that is migrated statement by statement, what a session retains
between requests, threads that prefetch weights while the GPU runs, two pipes
into one FFmpeg. Below a generation they model what each network asks of the
GPU, which buffer holds what in a step of the DiT, which cells a kernel touches,
and how a request becomes the sizes all of them work with. TLC checks small
instances; the proofs in the `*_proofs` modules, checked by TLAPS, hold for every
value of the constants.

Contents: [inventory](#inventory), [plan](#plan), [modules](#modules-and-code),
[runs](#runs), [fairness](#fairness), [proofs](#proofs),
[findings](#where-code-and-documents-disagree), [what is not modelled](#not-modelled).

## Inventory

| part | state it keeps | operations | hard behaviour | what makes it correct |
|---|---|---|---|---|
| job runner, `webui/backend/app/runner.py` | the jobs table (durable), job directories, `_process`, `_pgid`, `_current`, `_cancelled`, `_stop`, `_wake`, timers | submit, cancel, delete; worker: claim, spawn, wait, verdict; start (sweep), shutdown | request handlers race the worker; `h3` outlives a crash; SIGTERM may be ignored; the join may time out | every live `h3` is known; one at a time; a job is generated once; a verdict stands; a cancel in time is honoured; a stop ends |
| job events, `events.py` and `runner._emit` | listener list, a queue per stream | emit, snapshot, register, yield, close | threads emit rows they read earlier; streams come and go | a registered stream is told the end; progress never goes back |
| database, `db.py`, and the first account, `auth.py` | schema version, tables, their rows | open, migrate, stamp, create the administrator, adopt old rows | a crash between any two statements; a start after it | no row is lost; the whole schema or no service; old rows find an owner |
| post-processing, `postprocess.py` | the video, replaced in place | run plugins in order | a later plugin fails, a timeout, a crash | the raw video survives a failure |
| accounts, `auth.py`, `main.py` | users, sessions, invites, login attempts | register, login, logout, delete | check and use in separate statements | an invite makes one account |
| assets, `assets.py` | files named by hash, rows per owner | import, list, delete | a file shared by owners, read while it is copied over | a row's file exists and is whole |
| posters and previews, `media.py`, `main.c` | images in the job directory | stage and rename, convert | a reader meets a writer | what is served is whole |
| session, `h3.c` | retained DiT, decoder and conditioning with their keys; the request's own | `h3_generate`, `h3_cache_clear`, `h3_cache_set_enabled` | any phase fails or is cancelled; files change; requests differ | caching cannot be seen; one owner; one model in memory |
| request, `h3.c`, `h3_host.c` | none | validation, frames and latents, packing of conditions, layout | boundaries; the same size computed in several places | what was accepted fits; items keep their own time |
| DiT weights, `h3_dit.c` | two stream slots, blocks, residual, schedule | load, reset, denoise, free | the thread that reads, the GPU and the host overlap; passes reuse a residual | the GPU finds each block's own weights; streaming equals residence |
| DiT steps, `h3_dit.c`, `h3_dit_schedule.c` | activations in shared buffers, row maps, latents | encode_forward, run_block, sampler, preview | a buffer serves several purposes; fused kernels leave the next block's input behind; tokens are pooled and restored; any call fails | every operation finds the content it means; a step equals its definition |
| text encoder, `h3_text_encoder.c` | ring of slots, lanes, registry of deferred weights; tensors | fill, take, start, retire; the layers | lanes end in any order and fail | layers run in order with their own whole weights; nothing leaks |
| vision, video and audio encoders and decoders | tensors, tiles, chunks | calls of the GPU; tiling, blending, overlap in time | a failure at any call; a remainder in the spread of tiles; the last chunk | calls are accepted, results whole, nothing leaks; tiles cover, frames come once and in order |
| GPU backends, `h3_gpu_cuda.cu`, `h3_gpu.m` | command buffer, tensors | begin, operations, continue, submit, read, write | kernels index unchecked; the stream is asynchronous | no access beside a tensor, none without an order; `submit` returns when the commands were executed |
| A/V mux, `h3_ffmpeg.c` | two pipes, two threads, a child, SIGPIPE | spawn, write, join, wait | FFmpeg reads in its own order and may end early | success is whole; the call returns; `h3` is not killed |
| weight files, `h3_safetensors.c`, `h3_weights.c` | mapped files | parse, validate, look up | 64-bit arithmetic | accepted headers stay inside the file |
| command line, terminal, frontend | options | clients of the above | | |

How they interact. A browser calls routes of `main.py`, which call the runner
from a thread pool. The runner's worker thread spawns `./h3` in a session of its
own and reads its stderr in another thread, which writes progress to the jobs
table and calls the listeners; a listener hands the row to the event loop of a
stream. `h3` (or the interactive command line, which keeps one context over many
requests) calls `h3_generate`: key, text encoder, encoders of media, DiT, VAEs,
FFmpeg. Between requests the context keeps what its keys allow it to use again.
Each network is a thread of C that fills a command with operations of the backend
and submits it.

`PROJECT.json` lists every component and, under `hazards`, each place where this
code could go wrong in a way a test would hardly reach, with the properties that
would show it.

## Plan

Written, in this order: `JobQueue` and `JobRunner` with proofs; `JobEvents`;
`DitBlocks`, `DitCore`, `DitStream` with proofs; `Session` with proofs;
`TextPrefetch` with proofs; `AvMux` with proofs; then the engine below a
generation: the backend (`GpuOps`, `GpuKernels`, `GpuLaunch`, `GpuCommands`,
`GpuProgram`), the networks that call it (`VideoEncoder`, `VisionEncoder`,
`AudioVae`, `TextEncoder`, `VideoVae`, `DitRows`, `DitModel`), the buffers of the
DiT and what they implement (`DitForward`, `DitLayers`), requests and clips
(`RequestPlan`, `VideoTiles`); and the opening of the database (`DbMigrate`).

What is left would come in this order:

1. The header validation of safetensors, whose 64-bit sums are beyond TLC's
   integers unless scaled down.
2. Files that several processes write and read (`assets.py`, `media.py`,
   `postprocess.py`), and accounts.

A proof module extends its component and TLAPS; recursion stays out of modules
that are proved about. Components of one kind share a run, a behaviour being of one
part and chosen at first, so that a question costs a property and not a run.

## Modules and code

`PROJECT.json` maps each definition to its lines. A definition named `X_Fault` is
`X` with a plausible mistake; nothing uses it, it documents which mistake a
property would catch.

### The service

**JobQueue, JobRunner** (`runner.py`, the lifespan of `main.py`).
`JobQueue` is what the queue promises: rows, a GPU that one job at a time holds,
and the jobs that were given it. It says too what is not promised: a cancelled
row may be revived, and any row may be overwritten by 'cancelled'.
`JobRunner` has one program counter for the worker, one per request handler and
one for the main thread. A step is one SQLite statement (serialised and committed
by `Database`), one section under `_lock`, one system call. `row`, `pid`, `dir`
are durable; `child` is the `h3` of a job, which a crash of the backend does not
end; everything else is lost in a crash. Actions follow the code:
`WorkerSelect`, `WorkerMkdir`, `WorkerBegin`, `WorkerSpawn`, `WorkerRecord`,
`WorkerRegister`, `WorkerStopChild`, `WorkerReap`, `WorkerClear`, `WorkerCheck`,
`WorkerPost`, `WorkerFinish` are `_loop` and `_run`; `CancelRead`, `CancelMark`,
`CancelLook`, `CancelSignal`, `CancelFinish` are `cancel` and `cancel_current`;
`SweepRow` is one row of `start`; `ShutdownMark` to `ShutdownClose` are `shutdown`
and the end of the lifespan. `KillerFires` is the timer of `kill_grace`. History
variables: `due` (cancellations recorded in time), `lost` (children a backend left
live in no row that the sweep looks at, whatever the reason) and `gap` (those that
were between `Popen` and `UPDATE pid`). `NoStrayChild` does not speak of `lost`: it
says that a child nobody finds is in `gap`, or that of a job whose cancellation in
time had settled the row, by a late cancel (`runner.py:190-193`) or by a stop under a
long kill grace (101), when the backend ended. Timing assumption: `join(timeout=30)`
(94) gives up wherever the worker is; the model lets it give up where the worker can be
that long (`Outlasts`: in a plugin, or, with `SlowKill`, in the wait for a child). A
mistake that keeps the worker elsewhere shows in the model as a stop that hangs
(`ShutdownEnds`); the code would return after 30 s and leave the child. Abstracted: argv, logs, text of errors, progress; a process group is its
`h3`; a pid names one child for ever, while `runner.py:69-71` accepts that one may
be reused.

**JobEvents** (`events.py`, `_emit`, `_consume`).
One job, the threads that emit (`submit`, the worker, the reader of stderr,
`cancel`) and streams. An emission is: read the row, copy the listener list, call
each listener (which posts the row it was given to a queue). A stream reads a
snapshot, registers, yields. Progress is a number that is raised by `max()`. Not
modelled: the emissions of the sweep and of shutdown, and a listener that raises.

**DbMigrate** (`db.py`, `auth.bootstrap_admin`).
The scripts of the migrations as lists of statements, each committed when it ends:
`Open`, `Execute`, `StampVersion`, `BootstrapAdmin`, `Backfill`, and `Dies` between
any two. A table is the columns and unique constraints a statement may trip on, and
what became of the rows an earlier release left. `Execute` fails as SQLite does: a
column that is there, a table that is missing, a copy that breaks a constraint.
`MCBackend` puts it beside `JobEvents`, whose service starts when a database is open.

### A generation

**Session** (`h3.c`).
`h3_generate` phase by phase, each phase may fail or find a cancellation, with the
cleanup at the end. `dits` and `vaes` are heaps: entry i is what request i loaded,
with what it was computed from and whether it is live, freed or corrupt (freed
twice). `cache` is what the context retains, `run` what the request holds. An
encoding carries the request's prompt and the version of the file it was read
from; `noise` the seed of the augmentation. Files are edited at any moment, also
between the key (`Keys`), the probe of a reference (`Probe`) and the read
(`Encode`). Assumptions: size and time of change differ after every edit and never
return; the first frame, the last frame and references are one file; the second
reading of an audio reference is part of the reading of its pixels; requests are
those `h3_valid_params` accepts.

**DitBlocks, DitCore, DitStream** (`h3_dit.c`).
`DitBlocks` says which blocks are visited, in which order, and when a pass
evaluates them. `DitCore` is the resident DiT: passes apply blocks in order, each
with its own weights. `DitStream` is the DiT whose blocks are read from disk by a
thread into one of two slots while the GPU executes the other: `StartPrefetch`,
`RunBlock`, `Submit`, `Join` and their failures are the loop of `encode_forward`;
`ReadBegins`, `ReadEnds`, `ReadFails` the thread; `GpuUses` the GPU, which may use a
matrix at any time between encoding and the return of `h3_gpu_submit`. `Load`,
`ResetRun`, `Keep`, `Free` are what `h3_generate` does with it. The matrices of a
block are read one after another, and a slot being read is torn. Norms and
modulation stay resident in the code and are not in the slots. Core reuse and
denoise reuse exclude each other (`h3.c:580`); the model allows both, which only
adds behaviours. Metal and CUDA are one GPU: on both, `h3_gpu_submit` waits
(`h3_gpu.m:913-946`, `h3_gpu_cuda.cu:628-644`).

**TextPrefetch** (`h3_text_encoder.c`).
A ring of `depth` slots, each read by several lanes. `Fill` starts the ring,
`Encode` runs a layer (encoding and submission are one step, since submission
waits), `Take` joins the slot of the next layer, hands its weights over and starts a
later layer in it, `Retire` is the way out of each error path. `mem` follows the
tensors of a layer: none, live, freed, corrupt. `depth` 0 is the path without
prefetch.

**AvMux** (`h3_ffmpeg.c`).
`Spawn`, `Create`, `Join`, `Wait` are the caller; `Write`, `GivesUp`, `WriteErrs`,
`AllWritten` the two `stream_thread`s. FFmpeg (external) wants one pipe at a time,
in any order, and ends with success only when it has read both to the end. Data are
counted in blocks.

### Below a generation

**GpuOps, GpuCommands, GpuProgram** (`h3_gpu_cuda.cu` and its callers).
`GpuOps` is the interface of the backend as its launchers define it: for an
operation, what it demands of the shape, the type and least length of each tensor,
which output may be which input, what a kernel reaches through an index nobody
checks, and its grid. `GpuProgram` runs a network: with its loops unrolled for given
dimensions, a network is a sequence of instructions (allocate, begin, call, submit,
read, free); any that can fail may fail, and then what its error path frees is
freed. A tensor is its type, its length and the spans written.

**VisionEncoder, VideoEncoder, AudioVae, VideoVae, TextEncoder, DitRows, DitModel**
are such programs, one operator a function of the C source, with the same
dimensions, the order of its calls, and the cleanup of each error path. `DitRows` holds
the row maps and the schedule of steps, `DitModel` loading, refiner, forward
passes under each configuration, heads, samplers on the GPU and on the host,
previews and a second run on a retained DiT. Quantities of the released model
(widths, heads, layers of the towers) are those of the source; the lengths of inputs
are small.

**GpuKernels, GpuLaunch** (the kernels of `h3_gpu_cuda.cu`).
For each kernel whose index arithmetic does more than pass an element through, the
cells each thread reads and writes, and, where an operation is defined by which
cells go together (attention, convolutions, rotary pairs, pooling), that definition
beside it. `GpuLaunch` runs the threads of one launch.

**DitForward, DitLayers** (`encode_forward`, `run_block`).
`DitForward` has a program counter over the operations of a step and the content of
every buffer, front and tail: what it was computed as, of which block, from which
history. `DitLayers` is a run without buffers, formats and fusion: what the rows of a
step go through, block by block, with pooling and restoring at their boundaries
(`Through`, `Reference`), which operation may come next, and how old a reused residual
may be. The first implements the second.

**RequestPlan, VideoTiles** (`h3.c`, `h3_host.c`, `h3_video_vae.c`, `h3_video_encoder.c`).
`RequestPlan` is `h3_valid_params`, the refusals of `h3_generate`, the frames,
latents and rows of each medium and the layout with its time axis; a behaviour is one
request, accepted or not, and its plan. `VideoTiles` spreads tiles, blends them, decodes
a clip chunk by chunk and picks the preview; a behaviour is one clip. The requests and
clips a behaviour starts with are all there can be; `MCRequests` starts with some.

## Runs

Twelve runs; each ends in under five minutes with two workers. The eight that
pass check 40 properties, and for each `PROJECT.json` names a mistake in a mapped
definition that makes TLC find it violated. Deadlock checking is off where the
system may really stop: a backend that is down for good, a request counter that is
used up, a call that returned.

| run | bounds | question |
|---|---|---|
| `runner` | 2 jobs, 2 interchangeable handlers, 2 boots, crashes, stops, worker faults, long grace | is every `h3` found over a restart but for the two causes `NoStrayChild` names, is a cancel honoured against every interleaving, does `JobRunner` implement `JobQueue` |
| `runner_stop` | 2 jobs, 1 handler, stops, fairness | does a stop end, is a child stopped, is a wake-up lost |
| `events` | a database of each earlier release, any number of crashes; on an open one 1 stream, 2 progress lines or a cancel, delete, fairness | is a row lost or left ownerless by a migration; is a stream told of the end, does a late emission mislead it |
| `stream` | 6 blocks of which 3 are active, 6 steps of which 1 is skipped, interval 2, 2 matrices, 3 runs, faults | are slots confused, is streaming the resident DiT, does a run end |
| `session` | 3 requests out of 7, 2 edits, faults | can caching be seen, who owns what |
| `text` | 5 layers, rings of 0 to 3, 2 lanes, faults, fairness | order, ownership, end |
| `mux` | streams of 5 and 3 blocks, pipes of 2, faults, fairness | whole success, no deadlock, nothing left |
| `engine` | below | is every call, kernel, buffer, layout and tile right |
| `runner_onejob`, `runner_stoprunning`, `events_ends`, `launch_limit` | smallest that show it | the four disagreements below |

Why the bounds are enough. Two jobs and two boots: an invariant about one GPU
relates two jobs, and what a crash leaves meets one sweep; a second crash adds
nothing to a state that the sweep has settled. Two handlers: the races are between
two requests about a job, or one and the worker. In
`runner` requests overlap only in the first life of a backend whose worker lives and
that nobody asked to stop (`OverlapBound`): later lives differ by what the sweep
left, which one handler at a time explores; `runner_stop` has one handler because liveness admits neither
symmetry nor constraint. In the stream, three active blocks with the first and last
dropped exercise the wrap and both slots in either parity; three runs show what
survives a run. Three requests: one fills the cache, one changes it, one meets the
result. Three slots and five layers: the ring wraps and ends. A stream longer than
its pipe beside one shorter than two pipes: either can block. The theorems below drop
these bounds.

`engine`, where a behaviour is of one part:

* launches: every kernel of `GpuKernels` at dimensions with an odd count, a
  remainder and an edge where its arithmetic has one (`MCGpuKernels`); index
  arithmetic is periodic in the dimensions, and a wrong stride, divisor or guard
  shows at the first wrap.
* networks: each on the smallest input that reaches its edges: an odd number of
  patches, more than one chunk of latents, more rows than a group of the attention
  (`MCGpuProgram`); four DiTs of four blocks that between them use references, pooled
  tokens, each quantisation, reuse of blocks and steps, both samplers, previews and a
  second run. Every instruction fails once.
* DiT buffers: five blocks and steps under every sharing and fusion alone, by twos
  and all at once, boundaries at, beside and after dropped blocks (`MCDitForward`).
  Five blocks give a first, a last, and two neighbours of a boundary in between.
* requests: canvases up to and past the limits, each length from 1 to 380 frames,
  every choice of anchors, references of each kind two at a time, with clips and sounds
  just long enough and just not (`MCRequests`).
* clips: each height up to 1344 with narrow and one-tile widths, both ways
  split, and each number of chunks to the longest clip.

## Fairness

* `JobRunner`: threads run, timers fire, the service is booted again. Nothing makes
  a user send a request, a child end, a backend crash, or the worker's one-second
  timeout pass: `QueuedIsServed` holds without that timeout, under the assumption
  `ChildrenEnd` which it states itself.
* `JobEvents`: threads and the event loop run and `h3` ends; nobody has to cancel,
  delete, follow or leave. In `MCBackend` this holds while the backend serves; nothing
  makes one start, or die.
* `DitStream`, `TextPrefetch`: the host, the reading threads and the GPU run, and a
  read ends well or not. Failures are never forced, except that the fair step of a
  lane may be a failure.
* `AvMux`: the caller and the threads run; FFmpeg goes on while it has something to
  read and ends when there is nothing left. Its early end and write errors other
  than EPIPE are not fair.
* `Session` and the modules below a generation have no liveness property: they are
  sequences of calls, and the waiting is in the components above.

## Proofs

Each proof module shows `Init => Inv`, `Inv /\ [Next]_vars => Inv'`, one step per
action, and draws the properties from it. `Inv` is an ordinary definition of the
component's module; TLC has checked each as an invariant of the instances above. Only
`PlanInv` stands in `Clips_proofs`: a request has one step, and what carries its proof is the
invariant of the folds within it.
The assumptions are those the modules name beside their constants.

| module | theorems | why the invariant is stronger than the property |
|---|---|---|
| `JobRunner_proofs` | `TypeCorrect`, `OneAtATime` (`OneLiveChild`), `CompletedRanWell`, `SpawnsOnce` (`SpawnedOnce`), `VerdictsStand` (`VerdictStands`) | that one child is live needs to know that the worker has none before it spawns (`ChildStage`), what requests can have made of its row (`RowStage`), and that nothing runs before the sweep is over (`NothingBeforeStart`) |
| `JobRunner_proofs`, requests | `ChildrenAccounted` (`NoStrayChild`), `RunningHasWorker` (`RunningIsWorked`), `CancelsAreHonoured` (`CancelHonoured`), `WritersKeepDirectories` (`WriterHasDirectory`), `ResurrectedAreDoomed` (`ResurrectedIsDoomed`), `StopsCleanly` (`CleanStop`), `RunnerIsQueue` (`ImplementsQueue`) | a request acts on a row that it read some time ago; by then a job that it or the row takes for ended is over, or its cancellation was recorded in time, or its backend died in the gap before `UPDATE pid` (`Known`, `EndedStage`); a child registered under a 'running' row has its pid there, so outside that gap only a cancellation in time hides one (`HiddenStage`); a recorded cancellation stays until the worker looks (`CancelStage`), a directory until its child is known (`DirStage`); a stop that has waited finds the worker past its child, or names that child (`StopStage`, `CloseStage`) |
| `JobEvents_proofs` | `BarIsMonotone` (`BarNeverRegresses`), `QueueIsLeftOnce` (`NeverBackToQueued`) | rows travel in emissions and queues: what a thread is about to tell is no older than any unfinished row that anybody holds (`AtMost`), each queue is ordered as far as it will be read (`BarStage`), and only `submit` tells of a queued row, to those who came before (`QueuedStage`) |
| `DitForward_proofs` | `BuffersStayIntact` (`BuffersHold`), `HeadReadsFullRows` (`HeadReadsRows`) | where the loop is decides whether tokens are pooled (`PositionInv`, `HiddenInv`), what is kept of them follows the buffers as they change places (`KeptInv`), and each operation of a block finds what the one before made, of this block and this history (`WorkInv`) |
| `DitForward_proofs`, refinement | `ForwardIsLayers` (`ImplementsLayers`) | the history in the buffer of the hidden states is the prefix of the reference that belongs to the place of the loop (`TraceInv`), and a residual that may be reused is of a step since the last that the interval made evaluate (`AgeInv`) |
| `DitStream_proofs` | `GpuFindsOwnWeights`, `RaceFree`, `AlwaysExpected`, `ThreadScoped`, `SlotsStayIntact` (`SlotsIntact`), `ResidualFresh` (`FreshResidual`), `Refinement` (`ImplementsCore`) | the ready slot holds the block to come whenever no thread reads (`ReadyInv`), the thread fills the other with what `Future` names (`ThreadInv`); the age of a residual is bounded by the count modulo the interval (`ResidualInv`); the refinement needs to know that the loop is where the trace says (`TraceInv`) |
| `Session_proofs` | `ResultExact` (`ResultIsExact`), `OneOwner`, `OneInMemory`, `ModelsAreAccounted` (`ModelsAccounted`), `FailedIsDropped` (`FailedDitGone`), `OneShot` (`OneShotLifetime`) | a retained encoding belongs to its key: it was read for some request with that key no earlier than the key was made (`CacheStage`, `Belongs`); a live entry of a heap is the context's or the run's (`HeapStage`) |
| `TextPrefetch_proofs` | `LayersRunOwnWeights`, `RingIsExact`, `LayerIsRight` (`RightLayer`), `ThreadsScoped`, `NothingLeaks`, `MemoryBounded`, `WeightsAreAccounted` (`WeightsAccounted`) | while layer k runs, the slots hold k + 1 up to the next to be started, each once (`RingStage`); every live tensor can be reached from a slot or the loop (`MemStage`) |
| `AvMux_proofs` | `WholeOnSuccess` (`SuccessIsWhole`), `SurvivesFfmpeg`, `ClosedOnce`, `CallerStaysIntact` (`CallerIntact`) | blocks are conserved between writer, pipe and reader (`TypeOK`), a descriptor is closed by whoever ended its stream (`CallStage`) |
| `Clips_proofs`, requests | `LayoutsFit`, `TimelinesHold`; `PlansHold` (`PlanHolds`) | the segments laid so far begin with the text, hold the rows packed so far, and follow in turn up to the cursor (`Held`): so at the start, after each keyframe and after each reference |
| `Clips_proofs`, clips | `ClipsAreInOrder`, `TilesCoverPictures`; `ClipsHold` (`ClipHolds`) | what is assembled and carried are the frames of the chunks decoded, by number (`FramesInv`); the excess of the tiles' overlaps is shared out whole (`spread_overlap`) |

`Refinement` maps each step of the streamed DiT to a step of the resident one or a
stutter, by the instance `Core` of `DitStream`; `RunnerIsQueue` does so for the runner
and `JobQueue`, by the instance `Queue`: the GPU's job is the one whose child is live
and not lost. `DitForward_proofs` assumes of the options what a load leaves of them
(`OptionsAssumption`: boundaries in order and within the blocks). `ForwardIsLayers` maps
each operation of the loop to an operation of `DitLayers` or a stutter, by the instance
`Layers`; `TraceInv` is what makes the step an allowed one there.

`Clips_proofs` assumes nothing: a request is any record of the types of `RequestPlan`,
with any number of references, and a clip any that the decoder accepts. What it is about
are recursive functions and folds over sequences, for which the induction theorems of the
library cannot be used; each such step is an induction spelled out, by the least number
at which the claim would fail (`LeastNatural`, `Ascends`). A fold is first shown to take
its values one after another (`FoldTakes`), then what it has laid after n references is
shown to keep `Held` after the next (`HeldFollows`); the layouts' rows, counted by
filters and sums in `DitRows`, follow from that.

The proof of `StopsCleanly` failed at first for a reason: under a kill grace longer
than the join, a child that ends right after it leaves the worker between its two lock
sections (`runner.py:315-321`), where a stop neither finds a current job nor a verdict.
`CleanStop` now names that case (`AfterClear`); TLC finds it with `SlowKill` TRUE.

Only model-checked:

* all liveness properties (`ShutdownEnds`, `QueuedIsServed`, `CancelStopsChild`,
  `RegisteredIsTold`, `RunEnds`, both `Returns`): liveness under fairness and ENABLED
  are beyond the prover;
* `KernelsSafe`, `CallsSafe`, `DataWhole`, `CommandsClosed`: each kernel and each network is a
  program of its own, unrolled over its dimensions, and not one system with an invariant;
  a proof would be one proof a kernel and a network;
* `TilesBlend`: a share is a quotient of products in 4096ths, and how much two
  neighbouring quotients differ is nonlinear arithmetic that the provers do not decide.
  That the tiles cover the picture is proved;
* `MigrationIsSafe` and `OldRowsAdopted`: the scripts of `DbMigrate` are one fixed list
  and crashes are not counted, so that the model has no parameter and TLC goes through
  all its states: a proof would say nothing more.

## Where code and documents disagree

Shown by a run:

* `runner_onejob`: a crash between `Popen` (`runner.py:268`) and the statement that
  records the pid (282) leaves an `h3` that the sweep cannot find; the next start
  runs another beside it. `runner.py:3` says "One GPU, one job at a time".
* `runner_stoprunning`: a stop during post-processing finds `_current` already
  cleared (315-318), so the database closes on a row that says 'running';
  `runner.py:95-96` says a job must never stay so.
* `events_ends`: a job that ends between the snapshot and the registration
  (`events.py:26`, 31) leaves a stream that never ends; `events.py:4-5` says it ends
  when the job does.
* `launch_limit`: a clip of 768x1344 and 210 frames or more, which the README lists
  as released (380, 425) and `h3_valid_params` accepts, has more than 65,535 rows;
  QKV and RoPE launch a row of blocks a token in the y or z dimension of the grid
  (`h3_gpu_cuda.cu:3261`), which CUDA refuses.

Met while modelling, without a run:

* `cancel_current` reads the process and the group under two lock sections
  (`runner.py:198`, 202): the group may be that of the next job by then.
* a cancel that read 'queued' before the claim settles the row after it, as 'cancelled'
  and with no pid (`runner.py:190-193`); the sweep looks only at 'running' rows (64-66).
  If the backend dies before that `h3` has been stopped, the next start leaves it alive,
  even when its pid was recorded meanwhile, though 61-63 say that the start stops
  whatever is still alive, and 184-185 that the request is recorded first so that no
  orphan is left. A stop that settles the row of a child which outlasts the join (101)
  leaves one the same way. `NoStrayChild` names both, and without that disjunct TLC
  shows the trace; it is a second way to what `runner_onejob` shows.
* a late cancel makes a terminal state of a row whose `h3` is about to start, and
  `delete` then removes the directory under it (`runner.py:193`, 144);
  `WriterHasDirectory` says how far this can go.
* `submit` reads its row back after the worker may have claimed it, and emits the
  older row last (`runner.py:111-112`); `BarNeverRegresses` and
  `NeverBackToQueued` exclude streams that registered before.
* `db.py:151` says "in one commit"; each statement of a migration commits by itself
  (168), so a backend that died after an `ALTER TABLE` refuses every later start:
  `MigrationIsSafe` names that as the only cause of a refusal.
* the first account is committed before old rows are given to it (`auth.py:108`): a
  crash between leaves them without an owner for good, since the next start finds an
  account; `OldRowsAdopted` excludes that start by name.
* a decode that fails after `h3_gpu_begin` leaves the command open in a decoder that
  stays retained (`h3.c:1626`, `h3_video_vae.c:547`); later requests with it fail
  until it is evicted.
* where a ramp between tiles is cut short by the next tile, and on entering a corner
  where three tiles meet, neighbouring pixels differ by more than a ramp's step: the
  left tile is blended as decoded, not as stitched. `Seam` names both.
* `jobspec.py` sums the sound of references of kind audio alone, `h3.c:1166-1170`
  also that of clips; and a clip of two seconds in a request of fewer than 56 frames
  is cut to 39 frames and refused after it was accepted (`h3.c:1145-1155`).

## Not modelled

* Arithmetic: what a kernel, a network or a sampler computes is compared with
  references by the repository's own tests; here a tensor is what was written
  in it. So too the normalisation of latents, conversion of colours, progress weights.
* The Metal kernels (`h3_shaders.metal`, most of `h3_gpu.m`): the same operations in
  another language behind the same interface; what they wait for is in `DitStream`.
* Tokenizer and prompt assembly, weight files, resizing of images, decoding of input
  media: one thread, no order of events; what the rest asks of them is an input of
  `TextEncoder`, `VisionEncoder` and `RequestPlan`.
* Login, registration, sessions and invites: single statements whose windows are a
  matter of access to the service; assets, posters and plugins: the code has
  no step that would hold their files together against a reader in another process,
  and no document promises it, so a property would have nothing to hold. The
  hazards say where.
* Job specification, argv, capabilities: a form checked once more by what
  `RequestPlan` models. Command line, terminal, frontend, installation, containers:
  clients, and no state of the running program. Line editing is vendored.
* The guards of `h3_dit.c:1515-1516` and 1525-1526 that keep the offsets of pooled rows
  below `UINT32_MAX`, a number beyond TLC's integers that no layout comes near.
* In the modelled parts, `strdup` of a key and a slot's tensors may fail to be
  allocated; other failures of allocation are those of the call they belong to.
