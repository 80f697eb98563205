----------------------------- MODULE GpuProgram -----------------------------
(***************************************************************************)
(* How the networks drive the backend.  A network is one thread of C that  *)
(* allocates tensors, opens a command, calls operations of GpuOps, submits *)
(* the command (which waits for the stream), reads results back, and frees *)
(* what it holds.  With the loops unrolled for given dimensions that is a  *)
(* sequence of instructions, a program.  This module runs one: any         *)
(* instruction that can fail may fail, and the code then frees the tensors *)
(* its error path names (the instruction's cleanup) and returns.           *)
(*                                                                         *)
(* A kernel reads and writes what its dimensions say, whatever the tensor  *)
(* holds: so what matters is that every call is one the launcher accepts,  *)
(* that every element read has been written, that a tensor named twice in  *)
(* a call is one the kernel can use in place, that the host touches        *)
(* memory only when no command is running, and that nothing is leaked.     *)
(***************************************************************************)
EXTENDS GpuCommands, FiniteSets

CONSTANT Programs   \* a sequence of Program records

-----------------------------------------------------------------------------
VARIABLES program,   \* the one that runs, an index of Programs
          contract,  \* what its caller gives and counts on, and what it takes of that itself
          instruction, \* the number of its next instruction
          doing,     \* that instruction
          live,      \* the tensors allocated: type, elements, the spans written
          command,   \* gpu->recording: a command is open
          ended      \* "running", "done" or "failed"

programVars == << program, contract, instruction, doing, live, command, ended >>

Tensor(need, written) ==
  [type |-> need.type, elements |-> need.elements, written |-> written]

Whole(need) == {<< 0, need.elements >>}

\* Spans that are apart, and one that joins those it touches.
Joined(spans, new) ==
  LET touched == {s \in spans : s[1] <= new[2] /\ s[2] >= new[1]}
      from == Min({s[1] : s \in touched} \cup {new[1]})
      to   == Max({s[2] : s \in touched} \cup {new[2]})
  IN IF new[1] = new[2] THEN spans ELSE (spans \ touched) \cup {<< from, to >>}

Covered(span, spans) ==
  span[1] = span[2] \/ \E s \in spans : s[1] <= span[1] /\ span[2] <= s[2]

\* The tensors code frees or moves away by itself.
Spent(code) ==
  LET taken(i) == CASE i.do = "free" -> i.names
                    [] i.do = "move" -> {i.from}
                    [] OTHER         -> {}
  IN UNION {taken(code[i]) : i \in DOMAIN code}

Called(called) ==
  /\ contract = [length |-> Len(called.code), given |-> called.given, kept |-> called.kept, read |-> called.read,
                 spends |-> Spent(called.code) \cap DOMAIN called.given]
  /\ doing = called.code[1]
  /\ live = [n \in DOMAIN called.given |-> Tensor(called.given[n], Whole(called.given[n]))]

ProgramInit ==
  /\ program \in DOMAIN Programs /\ instruction = 1 /\ Called(Programs[program])
  /\ command = FALSE
  /\ ended = "running"

At(kind) == ended = "running" /\ doing.do = kind

\* The instruction returned 1: go on, or return 1.
Advance ==
  /\ instruction' = instruction + 1
  /\ IF instruction = contract.length THEN ended' = "done" /\ UNCHANGED doing
     ELSE doing' = Programs[program].code[instruction + 1] /\ UNCHANGED ended
  /\ UNCHANGED << program, contract >>

Holds(name, need) ==
  /\ name \in DOMAIN live
  /\ live[name].type = need.type
  /\ live[name].elements >= need.elements

\* What the launcher looks at before it launches.
Accepted(call) ==
  /\ call.op.shape
  /\ Len(call.outs) = Len(call.op.out) /\ Len(call.ins) = Len(call.op.in)
  /\ \A i \in DOMAIN call.outs : Holds(call.outs[i], call.op.out[i])
  /\ \A i \in DOMAIN call.ins : Holds(call.ins[i], call.op.in[i])

Allocate ==
  /\ \/ At("new") /\ live' = (doing.name :> Tensor(doing.need, {})) @@ live
     \/ At("from") /\ live' = (doing.name :> Tensor(doing.need, Whole(doing.need))) @@ live
  /\ UNCHANGED command

Without(names) == [n \in DOMAIN live \ names |-> live[n]]

Release ==
  /\ \/ At("free") /\ live' = Without(doing.names)
     \/ At("move") /\ live' = (doing.to :> live[doing.from]) @@ Without({doing.from})
  /\ UNCHANGED command

\* h3_gpu_begin refuses while a command is open.
OpenCommand ==
  /\ At("begin") /\ ~command
  /\ command' = TRUE
  /\ UNCHANGED live

ContinueCommand ==
  /\ At("continue") /\ command
  /\ UNCHANGED << live, command >>

\* h3_gpu_submit waits for the stream.
SubmitCommand ==
  /\ At("submit") /\ command
  /\ command' = FALSE
  /\ UNCHANGED live

\* What name holds when the spans of need are written.
Written(tensor, need) == [tensor EXCEPT !.written = FoldSet(LAMBDA span, w : Joined(w, span), @, need.spans)]

\* Each output is written where its kernel fills it.
RunOperation ==
  /\ At("call") /\ Accepted(doing)
  /\ live' = [n \in DOMAIN live |->
                FoldLeft(LAMBDA tensor, i : IF doing.outs[i] = n THEN Written(tensor, doing.op.out[i]) ELSE tensor,
                         live[n], [i \in DOMAIN doing.outs |-> i])]
  /\ UNCHANGED command

HostStep ==
  /\ \/ At("host") /\ UNCHANGED live
     \/ At("read") /\ Holds(doing.name, doing.need) /\ UNCHANGED live
     \/ At("look") /\ UNCHANGED live
     \/ /\ At("write") /\ Holds(doing.name, doing.need)
        /\ live' = [live EXCEPT ![doing.name] = Written(@, doing.need)]
  /\ UNCHANGED command

\* Anything but a free, a move or a look may return 0: no memory, a short file, a call refused, a
\* driver error.  h3_gpu_submit closes the command even so.
Fail ==
  /\ ended = "running" /\ doing.do \notin {"free", "move", "look"}
  /\ live' = Without(doing.cleanup)
  /\ command' = (command /\ doing.do /= "submit")
  /\ ended' = "failed"
  /\ UNCHANGED << program, contract, instruction, doing >>

Obey ==
  \/ Allocate \/ Release
  \/ OpenCommand \/ ContinueCommand \/ SubmitCommand
  \/ RunOperation \/ HostStep

ProgramNext ==
  \/ (Obey /\ Advance)
  \/ Fail

-----------------------------------------------------------------------------
Calling == At("call")

\* Every call, at every step of a network, is one its launcher accepts: the
\* shape is valid and each tensor is alive, of the right type and long enough.
\* A call that is refused ends the generation with an error nobody can act on.
CallsAccepted == Calling => Accepted(doing)

\* No element is read before it was written: not by a kernel, not by the host.
\* Device memory is not cleared, so what it holds would reach the picture.
ReadsWritten ==
  /\ Calling => \A i \in DOMAIN doing.ins :
       doing.ins[i] \in DOMAIN live =>
         \A span \in doing.op.in[i].spans : Covered(span, live[doing.ins[i]].written)
  /\ At("read") \/ At("look") => \A span \in doing.need.spans : Covered(span, live[doing.name].written)

\* Rows that a kernel reaches through a map the launcher does not look at lie
\* within the tensor, in what has been written of it.
ReachesWritten ==
  Calling => \A r \in doing.op.reach :
    Covered(<< 0, r.elements >>, live[doing.ins[r.at]].written)

Overlap(need, other) == \E s \in need.spans, t \in other.spans : s[1] < t[2] /\ t[1] < s[2]

\* Where a call writes what it also reads, the kernel works in place: elsewhere
\* another thread may read what this one has just overwritten.  Nothing is
\* written twice.  Tensors that several buffers of a network share, in turn or
\* in part, are named once for each.
SafeAliases ==
  Calling =>
    /\ \A o \in DOMAIN doing.outs, i \in DOMAIN doing.ins :
         doing.outs[o] = doing.ins[i] /\ Overlap(doing.op.out[o], doing.op.in[i]) => << o, i >> \in doing.op.inPlace
    /\ \A o, p \in DOMAIN doing.outs :
         o # p /\ doing.outs[o] = doing.outs[p] => ~Overlap(doing.op.out[o], doing.op.out[p])

\* Operations are recorded within a command, and the host touches a tensor only
\* when the stream is idle: the copies of h3_gpu_tensor_read and _write do not
\* wait for a non-blocking stream.
CommandDiscipline ==
  ended = "running" =>
    CASE doing.do \in {"call", "continue", "submit"} -> command
      [] doing.do \in {"begin", "read", "look", "write"} -> ~command
      [] OTHER                                      -> TRUE

\* A program that returns leaves its caller's tensors and its results, no other;
\* one that fails, at whatever step, leaves none of its own and takes none of its
\* caller's but those it replaces.
NothingLeaks ==
  /\ ended = "done" =>
       /\ DOMAIN live = DOMAIN contract.given \cup DOMAIN contract.kept
       /\ ~command
  /\ ended = "failed" =>
       /\ DOMAIN live \subseteq DOMAIN contract.given
       /\ \A n \in DOMAIN contract.given \ DOMAIN live : n \in contract.spends

\* What a network leaves or hands back has the size that the rest of the
\* program computes from the request, with formulas of its own, and is filled.
ResultsWhole ==
  /\ ended = "done" =>
       \A n \in DOMAIN contract.kept :
         /\ Holds(n, contract.kept[n])
         /\ Covered(<< 0, contract.kept[n].elements >>, live[n].written)
  /\ At("read") /\ doing.name \in DOMAIN contract.read =>
       doing.need.elements = contract.read[doing.name]
=============================================================================
