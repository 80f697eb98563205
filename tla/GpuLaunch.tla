----------------------------- MODULE GpuLaunch -----------------------------
(***************************************************************************)
(* One launch of a kernel of GpuKernels: its threads, one after the other, *)
(* in the order of their numbers; nothing that is checked depends on it.   *)
(***************************************************************************)
EXTENDS GpuKernels

CONSTANT Catalogue   \* kernels, each with the dimensions it is launched for

VARIABLES launched,  \* the one launched
          thread,    \* the next thread to run
          written    \* the cells the earlier ones wrote

launchVars == << launched, thread, written >>

Launched == Catalogue[launched]

LaunchInit == launched \in DOMAIN Catalogue /\ thread = 0 /\ written = {}

RunThread ==
  /\ thread < Launched.threads
  /\ thread' = thread + 1
  /\ written' = written \cup Launched.writes[thread]
  /\ UNCHANGED launched

-----------------------------------------------------------------------------
Running(kernel) == thread < kernel.threads

Inside(cells, needs) ==
  \A c \in cells : c[1] \in DOMAIN needs /\ c[2] >= 0 /\ c[2] < needs[c[1]].elements

\* What the launcher checked is enough: a thread touches no cell past the sizes
\* validated, nor, through a map, past what the caller answers for.
InsideTheTensors(kernel) ==
  LET op == kernel.op
      reached(i) == {r.elements : r \in {r \in op.reach : r.at = i}} \cup {op.in[i].elements}
      inputs == [i \in DOMAIN op.in |-> [elements |-> Max(reached(i))]]
  IN Running(kernel) => /\ Inside(kernel.writes[thread], op.out)
                /\ Inside(kernel.reads[thread], inputs)

\* No two threads write one cell, and the threads together fill the outputs: an
\* output is what its launch computed whatever the order of the threads, with
\* no cell of an uninitialised allocation left in it.
EachCellOnce(kernel) ==
  IF Running(kernel) THEN kernel.writes[thread] \cap written = {}
  ELSE kernel.whole => written = UNION {Cells(o, 0..kernel.op.out[o].elements - 1) :
                                            o \in DOMAIN kernel.op.out}

\* Where the output may be an input, no other thread reads what this one writes.
SafeInPlace(kernel) ==
  Running(kernel) =>
    \A pair \in kernel.op.inPlace : \A c \in kernel.writes[thread] :
      c[1] = pair[1] => \A u \in 0..kernel.threads - 1 :
        << pair[2], c[2] >> \in kernel.reads[u] => u = thread

\* A thread takes, of the first input, the cells the operation is defined on:
\* the layouts one kernel leaves are the layouts the next one reads.
TakesItsOwn(kernel) ==
  (Running(kernel) /\ kernel.expected # Unstated)
    => {c[2] : c \in {c \in kernel.reads[thread] : c[1] = 1}} = kernel.expected[thread]
=============================================================================
