------------------------------ MODULE MCEngine ------------------------------
(***************************************************************************)
(* The parts of the engine below a generation, for TLC: a launch of one    *)
(* kernel, one network driving the backend, the buffers of a DiT, the plan *)
(* of a request, or a clip put together from chunks and tiles.  A behaviour *)
(* is of one part, chosen at first; the others stay as they are.           *)
(***************************************************************************)
EXTENDS MCDitForward, MCGpuKernels, MCGpuProgram, MCRequests, GpuLaunch, GpuProgram, VideoTiles

VARIABLE scope   \* "launch", "network", "dit", "request" or "clip"

requestedVars == << planVars, tileVars >>

NoLaunch  == launched = 1 /\ thread = 0 /\ written = {}
NoNetwork == program = 1 /\ contract = << >> /\ instruction = 1 /\ doing = << >> /\ live = << >> /\ command = FALSE /\ ended = "idle"
NoDit     == options = (CHOOSE o \in Options : TRUE) /\ Init

NoRequest == request = Asked /\ planned = << >> /\ encoded = << >>
NoClip    == clip = Clip(32, 32, 1) /\ decoded = 0 /\ assembled = << >> /\ carried = << >> /\ decode = "failed"

EngineInit ==
  \/ scope = "launch"  /\ NoNetwork /\ NoDit /\ NoRequest /\ NoClip /\ LaunchInit
  \/ scope = "network" /\ NoLaunch /\ NoDit /\ NoRequest /\ NoClip /\ ProgramInit
  \/ scope = "dit"     /\ NoLaunch /\ NoNetwork /\ NoRequest /\ NoClip /\ Init
  \/ scope = "request" /\ NoLaunch /\ NoNetwork /\ NoDit /\ NoClip /\ MCPlanInit
  \/ scope = "clip"    /\ NoLaunch /\ NoNetwork /\ NoDit /\ NoRequest
                       /\ clip \in MCClips /\ DecodeInit

EngineNext ==
  \/ scope = "launch"  /\ RunThread   /\ UNCHANGED << scope, programVars, vars, requestedVars >>
  \/ scope = "network" /\ ProgramNext /\ UNCHANGED << scope, launchVars, vars, requestedVars >>
  \/ scope = "dit"     /\ Next        /\ UNCHANGED << scope, launchVars, programVars, requestedVars >>
  \/ scope = "request" /\ BuildLayout /\ UNCHANGED << scope, launchVars, programVars, vars, tileVars >>
  \/ scope = "clip"    /\ DecodeNext  /\ UNCHANGED << scope, launchVars, programVars, vars, planVars >>

EngineSpec == EngineInit /\ [][EngineNext]_<< scope, launchVars, programVars, vars, requestedVars >>

SafelyLaunched(kernel) ==
  InsideTheTensors(kernel) /\ EachCellOnce(kernel) /\ SafeInPlace(kernel) /\ TakesItsOwn(kernel)

\* A launch of a kernel reads and writes what its launcher has checked and no
\* more, each cell of its outputs is written by one thread and all are written,
\* where it works in place no thread reads what another writes, and a thread takes
\* the very cells the operation is defined on: the layouts one kernel leaves are
\* the layouts the next one reads (the kernels and launchers of h3_gpu_cuda.cu).
KernelsSafe == scope = "launch" => SafelyLaunched(Launched)

\* Every call of a network is one that its launcher accepts, with tensors that
\* are alive and long enough and that it may use for both input and output.
CallsSafe == CallsAccepted /\ SafeAliases

\* What a network reads, on the GPU or to the host, by its own dimensions or
\* through a map of rows, was written before, and what it hands back is whole and
\* of the size that the rest of the program counts on.
DataWhole == ReadsWritten /\ ReachesWritten /\ ResultsWhole

\* Commands are opened, filled and submitted in turn, the host touches tensors
\* only between them, and however far a network got it leaves no tensor behind.
CommandsClosed == CommandDiscipline /\ NothingLeaks
=============================================================================
