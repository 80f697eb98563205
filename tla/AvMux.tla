------------------------------- MODULE AvMux -------------------------------
(***************************************************************************)
(* h3_ffmpeg_write_av_rgb24_f32 (h3_ffmpeg.c): raw video and PCM go to one *)
(* FFmpeg through two pipes, each written by a thread of its own, and the  *)
(* verdict is put together from both threads and the exit status.  FFmpeg  *)
(* (external) reads the pipe it wants next and may end at any moment.      *)
(* Bytes are counted in blocks; a write takes any part of what is left.    *)
(***************************************************************************)
EXTENDS Integers

CONSTANTS
  Total,   \* the blocks of each stream
  Cap,     \* the blocks a pipe holds
  Faults   \* TRUE: calls may fail, and FFmpeg may end early or with an error

Streams == DOMAIN Total

ASSUME AvMuxAssumption ==
  /\ Total \in [Streams -> Nat \ {0}]
  /\ Cap \in Nat \ {0} /\ Faults \in BOOLEAN

VARIABLES
  pc,       \* of the caller's thread
  thread,   \* of each stream: "none", "running", "ended", "failed" (no thread)
  left,     \* what is left to write to each pipe
  pipe,     \* what each pipe holds
  writers,  \* who holds the write end of each pipe
  closes,   \* how often the caller's process closed it
  ignored,  \* SIGPIPE is ignored
  wrong,    \* writer.error of each stream
  ffmpeg,   \* "none", "running", exited "ok" or "bad"
  want,     \* the pipe FFmpeg reads next
  got,      \* what FFmpeg has read of each stream
  result    \* "none", then what is returned: "ok" or "failed"

vars == <<pc, thread, left, pipe, writers, closes, ignored, wrong, ffmpeg, want, got, result>>
child == <<ffmpeg, want, got>>
data == <<left, pipe, wrong>>

Init ==
  /\ pc = "spawn" /\ thread = [p \in Streams |-> "none"]
  /\ left = Total /\ pipe = [p \in Streams |-> 0]
  /\ writers = [p \in Streams |-> {"h3"}] /\ closes = [p \in Streams |-> 0]
  /\ ignored = FALSE /\ wrong = [p \in Streams |-> FALSE]
  /\ ffmpeg = "none" /\ want \in Streams /\ got = [p \in Streams |-> 0]
  /\ result = "none"

Closed(P) ==
  /\ writers' = [p \in Streams |-> IF p \in P THEN writers[p] \ {"h3"} ELSE writers[p]]
  /\ closes' = [p \in Streams |-> IF p \in P THEN closes[p] + 1 ELSE closes[p]]

Returned(value) == pc' = "returned" /\ result' = value

(***************************************************************************)
(* The caller's thread.                                                    *)
(***************************************************************************)
\* close_action: FFmpeg keeps the read ends it is given, and nothing else.
Inherited == {}

Spawn ==
  /\ pc = "spawn" /\ pc' = "create"
  /\ ffmpeg' = "running" /\ ignored' = TRUE
  /\ writers' = [p \in Streams |-> writers[p] \cup Inherited]
  /\ UNCHANGED <<thread, data, closes, want, got, result>>

SpawnFails ==
  /\ Faults /\ pc = "spawn"
  /\ Closed(Streams) /\ Returned("failed")
  /\ UNCHANGED <<thread, data, ignored, wrong, child>>

\* close(): FFmpeg finds the end of a stream that has no thread.
Abandoned(P) == Closed(P)

Create ==
  /\ pc = "create" /\ pc' = "join"
  /\ \E failed \in IF Faults THEN SUBSET Streams ELSE {{}} :
       /\ thread' = [p \in Streams |-> IF p \in failed THEN "failed" ELSE "running"]
       /\ Abandoned(failed)
  /\ UNCHANGED <<data, ignored, child, result>>

\* SIGPIPE is restored when one thread has ended.
Joined_One == \E p \in Streams : thread[p] # "running"

Joined == \A p \in Streams : thread[p] # "running"

Join ==
  /\ pc = "join" /\ Joined
  /\ pc' = "wait" /\ ignored' = FALSE
  /\ UNCHANGED <<thread, data, writers, closes, child, result>>

\* the status of FFmpeg alone is the verdict.
Whole_StatusOnly == ffmpeg = "ok"

Whole ==
  /\ \A p \in Streams : thread[p] # "failed" /\ ~wrong[p]
  /\ ffmpeg = "ok"

\* waitpid; it fails only for a process that is not a child.
Wait ==
  /\ pc = "wait" /\ ffmpeg \in {"ok", "bad"}
  /\ Returned(IF Whole THEN "ok" ELSE "failed")
  /\ UNCHANGED <<thread, data, writers, closes, ignored, child>>

(***************************************************************************)
(* stream_thread.                                                          *)
(***************************************************************************)
\* the audio is written when the video has been.
Turn_VideoFirst(p) == p = "video" \/ thread["video"] # "running"

Turn(p) == TRUE

\* write(): it blocks while the pipe is full, and fails once FFmpeg has ended.
Write(p) ==
  /\ thread[p] = "running" /\ left[p] > 0 /\ Turn(p)
  /\ ffmpeg = "running"
  /\ \E n \in 1 .. Cap - pipe[p] :
       /\ n <= left[p]
       /\ left' = [left EXCEPT ![p] = @ - n] /\ pipe' = [pipe EXCEPT ![p] = @ + n]
  /\ UNCHANGED <<pc, thread, writers, closes, ignored, wrong, child, result>>

GivesUp(p) ==
  /\ thread[p] = "running" /\ left[p] > 0 /\ Turn(p)
  /\ wrong' = [wrong EXCEPT ![p] = TRUE]
  /\ thread' = [thread EXCEPT ![p] = "ended"] /\ Closed({p})
  /\ UNCHANGED <<pc, left, pipe, ignored, child, result>>

\* EPIPE, and any other error.
WriteFails(p) == ffmpeg # "running" /\ GivesUp(p)
WriteErrs(p) == Faults /\ GivesUp(p)

AllWritten(p) ==
  /\ thread[p] = "running" /\ left[p] = 0
  /\ thread' = [thread EXCEPT ![p] = "ended"] /\ Closed({p})
  /\ UNCHANGED <<pc, data, ignored, child, result>>

Thread(p) == Write(p) \/ WriteFails(p) \/ AllWritten(p)

(***************************************************************************)
(* FFmpeg.                                                                 *)
(***************************************************************************)
Eof(p) == pipe[p] = 0 /\ writers[p] = {}

\* A blocking read of the stream it wants, and the choice of the next.
Reads ==
  /\ ffmpeg = "running" /\ pipe[want] > 0
  /\ \E n \in 1 .. pipe[want] :
       /\ pipe' = [pipe EXCEPT ![want] = @ - n]
       /\ got' = [got EXCEPT ![want] = @ + n]
  /\ want' \in Streams
  /\ UNCHANGED <<pc, thread, left, writers, closes, ignored, wrong, ffmpeg, result>>

\* At the end of the stream it wants it turns to one that has not ended.
Turns ==
  /\ ffmpeg = "running" /\ Eof(want)
  /\ want' \in {p \in Streams : ~Eof(p)}
  /\ UNCHANGED <<pc, thread, data, writers, closes, ignored, ffmpeg, got, result>>

\* It succeeds only when it has read both streams to the end.
Exits(status) ==
  /\ ffmpeg = "running"
  /\ IF status = "ok" THEN \A p \in Streams : Eof(p) ELSE Faults
  /\ ffmpeg' = status
  /\ UNCHANGED <<pc, thread, data, writers, closes, ignored, want, got, result>>

Ffmpeg == Reads \/ Turns \/ Exits("ok")

Caller == Spawn \/ SpawnFails \/ Create \/ Join \/ Wait

Next == Caller \/ (\E p \in Streams : Thread(p) \/ WriteErrs(p)) \/ Ffmpeg \/ Exits("bad")

Spec == Init /\ [][Next]_vars

\* The threads run; FFmpeg goes on as long as there is something to read and ends
\* when there is nothing left.
FairSpec ==
  Spec /\ WF_vars(Caller) /\ WF_vars(Ffmpeg) /\ \A p \in Streams : WF_vars(Thread(p))

(***************************************************************************)
(* Properties.                                                             *)
(***************************************************************************)
TypeOK ==
  /\ pc \in {"spawn", "create", "join", "wait", "returned"}
  /\ thread \in [Streams -> {"none", "running", "ended", "failed"}]
  /\ left \in [Streams -> Nat] /\ got \in [Streams -> Nat]
  /\ pipe \in [Streams -> 0 .. Cap]
  /\ \A p \in Streams : writers[p] \in SUBSET {"h3", "ffmpeg"}
  /\ \A p \in Streams : closes[p] \in 0 .. 1 /\ (closes[p] = 1 <=> "h3" \notin writers[p])
  /\ ignored \in BOOLEAN /\ wrong \in [Streams -> BOOLEAN]
  /\ ffmpeg \in {"none", "running", "ok", "bad"} /\ want \in Streams
  /\ \A p \in Streams : got[p] + pipe[p] + left[p] = Total[p]
  /\ result \in {"none", "ok", "failed"}

\* A call that returns success has handed every frame and every sample to an FFmpeg
\* that ended well: a stream that was cut short is never a finished file.
SuccessIsWhole == result = "ok" => ffmpeg = "ok" /\ got = Total

\* h3 is never killed by the end of FFmpeg: no write to a pipe without a reader
\* happens with SIGPIPE at its default.
NeverKilled ==
  \A p \in Streams : thread[p] = "running" /\ left[p] > 0 => ignored

\* No descriptor is left open or closed twice, and no FFmpeg is left running, on any
\* of the ways out.
NothingLeft ==
  pc = "returned" => ffmpeg # "running" /\ \A p \in Streams : closes[p] = 1

\* Whatever FFmpeg does, the caller survives it and is left as it was
\* (h3_ffmpeg_write_av_rgb24_f32, from its first pipe to waitpid).
CallerIntact == NeverKilled /\ NothingLeft

\* Nobody waits on everybody: in whatever order FFmpeg wants the two streams, however
\* small the pipes, and whichever thread could not be created, the call returns.
Returns == <>(pc = "returned")

(***************************************************************************)
(* The inductive invariant behind the first three, in parts.               *)
(***************************************************************************)
\* What the caller has done, and who closes the write end of each pipe.
CallStage ==
  /\ pc = "spawn" => ffmpeg = "none"
  /\ pc \in {"create", "join", "wait"} => ffmpeg # "none"
  /\ pc \in {"create", "join"} => ignored
  /\ pc = "returned" <=> result # "none"
  /\ pc = "returned" => ffmpeg # "running" /\ \A p \in Streams : closes[p] = 1
  /\ \A p \in Streams :
       /\ pc \in {"spawn", "create"} => thread[p] = "none" /\ closes[p] = 0
       /\ pc \in {"join", "wait"} => thread[p] # "none"
       /\ thread[p] = "running" => pc = "join" /\ closes[p] = 0
       /\ thread[p] \in {"ended", "failed"} => closes[p] = 1

\* A stream that ended without an error was written whole; FFmpeg succeeds after the
\* end of both.
StreamStage ==
  /\ \A p \in Streams : thread[p] = "ended" => wrong[p] \/ left[p] = 0
  /\ ffmpeg = "ok" => \A p \in Streams : Eof(p)
  /\ result = "ok" => ffmpeg = "ok" /\ \A p \in Streams : thread[p] = "ended" /\ ~wrong[p]

Inv == TypeOK /\ CallStage /\ StreamStage
=============================================================================
