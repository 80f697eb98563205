---------------------------- MODULE GpuCommands ----------------------------
(***************************************************************************)
(* The instructions of which GpuProgram's programs are made, as sequences  *)
(* of one, to be joined with \o: what a network of this code asks of the   *)
(* backend and of the host, and which tensors it frees when that fails.    *)
(***************************************************************************)
EXTENDS GpuOps, SequencesExt

Instruction(kind) == << [do |-> kind, cleanup |-> {}] >>

Making(kind, name, type, elements) ==
  << [do |-> kind, name |-> name, need |-> Need(type, elements), cleanup |-> {}] >>

\* h3_gpu_tensor_new_*: memory with no defined content.
New(name, type, elements) == Making("new", name, type, elements)

\* h3_gpu_tensor_from_* and h3_weight_load_*: a tensor filled at once.
From(name, type, elements) == Making("from", name, type, elements)

\* h3_gpu_tensor_free of each, the pointer cleared.
Free(names) == << [do |-> "free", names |-> names, cleanup |-> {}] >>

\* A pointer handed over: to = from; from = NULL.
Move(to, from) == << [do |-> "move", to |-> to, from |-> from, cleanup |-> {}] >>

Begin    == Instruction("begin")
Continue == Instruction("continue")
Submit   == Instruction("submit")

\* An operation on tensors, by name, in the order of the C parameters.
Call(op, outs, ins) ==
  << [do |-> "call", op |-> op, outs |-> outs, ins |-> ins, cleanup |-> {}] >>

\* h3_gpu_tensor_write_* and h3_gpu_tensor_read_*, from the tensor's start.
WriteTo(name, type, elements)  == Making("write", name, type, elements)
ReadFrom(name, type, elements) == Making("read", name, type, elements)

\* The ranges of h3_gpu_tensor_write_f32_range and h3_gpu_tensor_read_f32_range.
Ranging(kind, name, type, offset, elements) ==
  << [do |-> kind, name |-> name, need |-> NeedAt(type, offset, elements), cleanup |-> {}] >>

WriteAt(name, type, offset, elements) == Ranging("write", name, type, offset, elements)
ReadAt(name, type, offset, elements)  == Ranging("read", name, type, offset, elements)

\* A read whose failure is not one of the program's.
Look(name, type, elements) == Making("look", name, type, elements)

\* A step of the host that may fail and touches no tensor (a malloc, a file).
Host == Instruction("host")

\* The code between a label and the goto's to it: on failure, these are freed.
Within(names, code) ==
  [i \in DOMAIN code |-> [code[i] EXCEPT !.cleanup = @ \cup names]]

\* A call of a network.  Given: the tensors the caller owns; kept: the tensors it is left with; read:
\* how many elements the geometry of the request makes of each result read.
Program(given, code, kept, read) ==
  [given |-> given, code |-> code, kept |-> kept, read |-> read]

\* Body(1) \o ... \o Body(n).
Times(n, Body(_)) == FlattenSeq([i \in 1..n |-> Body(i)])
=============================================================================
