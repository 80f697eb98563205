----------------------------- MODULE JobEvents -----------------------------
(***************************************************************************)
(* The server-sent events of one job (webui/backend/app/events.py) and the *)
(* emission that feeds them (JobRunner._emit): four threads write the row, *)
(* read it back and call a copy of the listener list; each browser that    *)
(* follows the job reads a snapshot, registers a listener and then yields  *)
(* what the listener queued until it has yielded a terminal state.         *)
(*                                                                         *)
(* One job is enough: a listener drops every other id.  What the runner    *)
(* does between two writes of the row is left out (module JobRunner), and  *)
(* so are the sweep and the shutdown: no stream is open when they emit.    *)
(* A definition named X_Fault is X with a plausible mistake; nothing uses  *)
(* it.                                                                     *)
(***************************************************************************)
EXTENDS Integers, Sequences, FiniteSets

CONSTANTS
  Clients,  \* browsers that follow the job
  Full,     \* progress is 0 .. Full; Full stands for 1.0
  Scenarios \* bounds: what may happen to the job besides being generated: lines, how
            \* many progress lines h3 prints; cancels, whether somebody may cancel it
            \* while it is queued; deletes, whether somebody may delete it at the end

ASSUME JobEventsAssumption ==
  /\ Full \in Nat \ {0}
  /\ Scenarios \subseteq [lines : Nat, cancels : BOOLEAN, deletes : BOOLEAN]

Threads  == {"submit", "worker", "pump", "cancel", "delete"}
Terminal == {"completed", "failed", "cancelled"}
States   == Terminal \cup {"absent", "queued", "running", "deleted"}
Rows     == [state : States, progress : 0 .. Full]

VARIABLES
  scenario,  \* the one of Scenarios that happens
  row,       \* the row of the job
  lines,     \* bound: how many progress lines were read
  step,      \* what each thread has done of the code around its writes
  emit,      \* where each thread is in _emit(self.get(id)): "out", "get", "copy", "call"
  event,     \* the row each thread read back
  todo,      \* the listeners each thread has still to call
  listeners, \* _listeners
  client,    \* "new", "read", "listed", "stream", "done"
  snapshot,  \* what get() returned to each client
  queue,     \* the asyncio queue of each client
  seen,      \* the last row each client yielded
  early      \* history: clients that read before submit() had emitted

rowVars    == <<scenario, row, lines, step>>
emitVars   == <<emit, event, todo>>
clientVars == <<listeners, client, snapshot, queue, seen, early>>
vars == <<rowVars, emitVars, clientVars>>

NoRow == [state |-> "absent", progress |-> 0]

Init ==
  /\ scenario \in Scenarios
  /\ row = NoRow
  /\ lines = 0
  /\ step = [e \in Threads |-> "before"]
  /\ emit = [e \in Threads |-> "out"]
  /\ event = [e \in Threads |-> NoRow]
  /\ todo = [e \in Threads |-> {}]
  /\ listeners = {}
  /\ client = [c \in Clients |-> "new"]
  /\ snapshot = [c \in Clients |-> NoRow]
  /\ queue = [c \in Clients |-> <<>>]
  /\ seen = [c \in Clients |-> NoRow]
  /\ early = {}

(***************************************************************************)
(* The writes.  Each is one UPDATE, followed by _emit(self.get(id)).       *)
(***************************************************************************)
Present == row.state \notin {"absent", "deleted"}

\* An UPDATE of a row that was deleted changes nothing.
Write(r) == row' = IF Present THEN r ELSE row

ThenEmits(e, before, after) ==
  /\ emit[e] = "out" /\ step[e] = before
  /\ emit' = [emit EXCEPT ![e] = "get"]
  /\ step' = [step EXCEPT ![e] = after]
  /\ UNCHANGED <<event, todo, clientVars>>

Steps(e, before, after) ==
  /\ emit[e] = "out" /\ step[e] = before
  /\ step' = [step EXCEPT ![e] = after]
  /\ UNCHANGED <<scenario, row, lines, emitVars, clientVars>>

\* submit: the INSERT; progress is 0.0 by default.
Submit ==
  /\ row' = [state |-> "queued", progress |-> 0]
  /\ ThenEmits("submit", "before", "after")
  /\ UNCHANGED <<scenario, lines>>

\* _loop selects the row; _run claims it with whatever state it has by then.
WorkerSelects == row.state = "queued" /\ Steps("worker", "before", "selected")

WorkerBegins ==
  /\ Write([state |-> "running", progress |-> 0])
  /\ ThenEmits("worker", "selected", "running")
  /\ UNCHANGED <<scenario, lines>>

\* the progress of the line as it is.
Weighed_Raw(f) == f

\* max(): a line of an unknown phase reports 0, and the bar must never regress.
Weighed(f) == IF f > row.progress THEN f ELSE row.progress

\* _consume: a progress line of h3, in the thread that reads its stderr.  The join
\* of that thread may time out, so it may still read when the job is finished.
PumpProgress ==
  /\ step["worker"] \in {"running", "after"}
  /\ step["worker"] = "running" => emit["worker"] = "out"
  /\ lines < scenario.lines /\ lines' = lines + 1 /\ UNCHANGED scenario
  /\ \E f \in 0 .. Full : Write([row EXCEPT !.progress = Weighed(f)])
  /\ ThenEmits("pump", "before", "before")

\* the end of a job is written and nobody is told.
WorkerFinishes_Silent ==
  /\ Write([state |-> "completed", progress |-> Full])
  /\ emit["worker"] = "out" /\ step["worker"] = "running"
  /\ step' = [step EXCEPT !["worker"] = "after"]
  /\ UNCHANGED <<scenario, lines, emitVars, clientVars>>

\* _finish: a completed job gets progress 1.0, any other keeps what it reached.
WorkerFinishes ==
  /\ \E s \in Terminal :
       Write([state |-> s, progress |-> IF s = "completed" THEN Full ELSE row.progress])
  /\ ThenEmits("worker", "running", "after")
  /\ UNCHANGED <<scenario, lines>>

\* cancel: read while queued, written whatever the state is by then; once the
\* child is registered cancel signals it and writes nothing.
CancelReads ==
  scenario.cancels /\ row.state = "queued" /\ Steps("cancel", "before", "read")

CancelSignals ==
  /\ step["worker"] = "running" /\ emit["worker"] = "out"
  /\ Steps("cancel", "read", "after")

\* cancel emits the row it read at first instead of reading it again.
CancelWrites_EmitsOld ==
  /\ emit["cancel"] = "out" /\ step["cancel"] = "read"
  /\ Write([row EXCEPT !.state = "cancelled"])
  /\ event' = [event EXCEPT !["cancel"] = [state |-> "queued", progress |-> 0]]
  /\ emit' = [emit EXCEPT !["cancel"] = "copy"]
  /\ step' = [step EXCEPT !["cancel"] = "after"]
  /\ UNCHANGED <<scenario, lines, todo, clientVars>>

CancelWrites ==
  /\ Write([row EXCEPT !.state = "cancelled"])
  /\ ThenEmits("cancel", "read", "after")
  /\ UNCHANGED <<scenario, lines>>

\* delete: read when terminal, deleted whatever the state is by then; nothing is
\* emitted.
DeleteReads ==
  scenario.deletes /\ row.state \in Terminal /\ Steps("delete", "before", "read")

DeleteRow ==
  /\ step["delete"] = "read"
  /\ row' = [row EXCEPT !.state = "deleted"]
  /\ step' = [step EXCEPT !["delete"] = "after"]
  /\ UNCHANGED <<scenario, lines, emitVars, clientVars>>

(***************************************************************************)
(* _emit(self.get(id)).                                                    *)
(***************************************************************************)
\* get: the row by now; a row that is gone emits nothing.
EmitGet(e) ==
  /\ emit[e] = "get"
  /\ event' = [event EXCEPT ![e] = IF Present THEN row ELSE NoRow]
  /\ emit' = [emit EXCEPT ![e] = IF Present THEN "copy" ELSE "out"]
  /\ UNCHANGED <<rowVars, todo, clientVars>>

\* The listeners that are still to be called.
CallsNext(e, rest) ==
  /\ todo' = [todo EXCEPT ![e] = rest]
  /\ emit' = [emit EXCEPT ![e] = IF rest = {} THEN "out" ELSE "call"]
  /\ event' = [event EXCEPT ![e] = IF rest = {} THEN NoRow ELSE @]
  /\ UNCHANGED <<rowVars, listeners, client, snapshot, seen, early>>

\* _emit: list(self._listeners).
EmitCopy(e) == emit[e] = "copy" /\ CallsNext(e, listeners) /\ UNCHANGED queue

\* _emit calls a listener: call_soon_threadsafe(queue.put_nowait, job).  A queue
\* whose stream has ended is filled in vain.
EmitCall(e, c) ==
  /\ emit[e] = "call" /\ c \in todo[e]
  /\ queue' = IF client[c] = "done" THEN queue
              ELSE [queue EXCEPT ![c] = Append(@, event[e])]
  /\ CallsNext(e, todo[e] \ {c})

Emission(e) == EmitGet(e) \/ EmitCopy(e) \/ \E c \in Clients : EmitCall(e, c)

(***************************************************************************)
(* job_events, in the event loop.                                          *)
(***************************************************************************)
\* runner.get(job_id): an unknown job gets an error event and no stream.
ClientReads(c) ==
  /\ client[c] = "new"
  /\ row.state # "absent"
  /\ client' = [client EXCEPT ![c] = IF Present THEN "read" ELSE "done"]
  /\ snapshot' = [snapshot EXCEPT ![c] = row]
  /\ early' = IF emit["submit"] = "out" THEN early ELSE early \cup {c}
  /\ UNCHANGED <<rowVars, emitVars, listeners, queue, seen>>

ClientRegisters(c) ==
  /\ client[c] = "read"
  /\ client' = [client EXCEPT ![c] = "listed"]
  /\ listeners' = listeners \cup {c}
  /\ UNCHANGED <<rowVars, emitVars, snapshot, queue, seen, early>>

\* What the coroutine held goes with it.
Forget(c) ==
  /\ client' = [client EXCEPT ![c] = "done"]
  /\ queue' = [queue EXCEPT ![c] = <<>>]
  /\ snapshot' = [snapshot EXCEPT ![c] = NoRow]
  /\ seen' = [seen EXCEPT ![c] = NoRow]
  /\ early' = early \ {c}

\* finally: remove_listener.
Leave(c) == Forget(c) /\ listeners' = listeners \ {c}

\* A terminal row ends the stream once it is yielded.
Yields(c, job, rest) ==
  \/ /\ job.state \notin Terminal
     /\ seen' = [seen EXCEPT ![c] = job]
     /\ client' = [client EXCEPT ![c] = "stream"]
     /\ queue' = [queue EXCEPT ![c] = rest]
     /\ snapshot' = [snapshot EXCEPT ![c] = NoRow]
     /\ UNCHANGED <<listeners, early>>
  \/ job.state \in Terminal /\ Leave(c)

ClientSnapshot(c) ==
  /\ client[c] = "listed" /\ Yields(c, snapshot[c], queue[c])
  /\ UNCHANGED <<rowVars, emitVars>>

\* queue.get() and yield; a terminal event ends the stream.  The heartbeat of an
\* empty queue changes nothing.
ClientYields(c) ==
  /\ client[c] = "stream" /\ queue[c] # <<>>
  /\ Yields(c, Head(queue[c]), Tail(queue[c]))
  /\ UNCHANGED <<rowVars, emitVars>>

\* The browser goes away, at any moment.
ClientCloses(c) ==
  /\ client[c] \in {"read", "listed", "stream"}
  /\ Leave(c)
  /\ UNCHANGED <<rowVars, emitVars>>

WorkerStep == WorkerSelects \/ WorkerBegins \/ WorkerFinishes

Next ==
  \/ Submit \/ WorkerStep \/ PumpProgress
  \/ CancelReads \/ CancelSignals \/ CancelWrites \/ DeleteReads \/ DeleteRow
  \/ \E e \in Threads : Emission(e)
  \/ \E c \in Clients :
       \/ ClientReads(c) \/ ClientRegisters(c) \/ ClientSnapshot(c)
       \/ ClientYields(c) \/ ClientCloses(c)

Spec == Init /\ [][Next]_vars

(***************************************************************************)
(* Threads are never kept from running for ever, and h3 ends.  Nobody has  *)
(* to cancel, delete, follow or leave.                                     *)
(***************************************************************************)
Fairness ==
  /\ WF_vars(Submit) /\ WF_vars(WorkerStep) /\ WF_vars(CancelWrites)
  /\ \A e \in Threads : WF_vars(Emission(e))
  /\ \A c \in Clients :
       /\ WF_vars(ClientRegisters(c)) /\ WF_vars(ClientSnapshot(c))
       /\ WF_vars(ClientYields(c))

FairSpec == Spec /\ Fairness

(***************************************************************************)
(* Properties.                                                             *)
(***************************************************************************)
TypeOK ==
  /\ scenario \in Scenarios /\ row \in Rows /\ lines \in 0 .. scenario.lines
  /\ step \in [Threads -> {"before", "selected", "running", "read", "after"}]
  /\ emit \in [Threads -> {"out", "get", "copy", "call"}]
  /\ event \in [Threads -> Rows]
  /\ todo \in [Threads -> SUBSET Clients]
  /\ listeners \in SUBSET Clients
  /\ client \in [Clients -> {"new", "read", "listed", "stream", "done"}]
  /\ \A c \in Clients : c \in listeners <=> client[c] \in {"listed", "stream"}
  /\ snapshot \in [Clients -> Rows] /\ seen \in [Clients -> Rows]
  /\ queue \in [Clients -> Seq(Rows)]
  /\ early \in SUBSET Clients

\* What a stream yields next shows less progress than what it yielded last.
Streaming(c) == client[c] = "stream" /\ queue[c] # <<>>
Regresses(c) == Streaming(c) /\ Head(queue[c]).progress < seen[c].progress

\* "The bar must never regress" (runner.py:377).  It holds for a browser that begins
\* to follow once submit() has emitted, as long as nobody has begun to cancel the
\* job while it is queued: the worker and the reader of stderr alternate, and what
\* they emit stays in order.
BarNeverRegresses ==
  \A c \in Clients \ early : step["cancel"] = "before" => ~Regresses(c)

\* A browser that begins to follow once submit() has emitted never sees the job
\* go back to the queue, whoever cancels it and whenever: the row that cancel()
\* reads back is the one it or a later writer left.
NeverBackToQueued ==
  \A c \in Clients \ early :
    Streaming(c) /\ seen[c].state = "running" => Head(queue[c]).state # "queued"

\* A row that is to be generated, and what a browser may be shown.
Live  == {"queued", "running"}
Shown == Live \cup Terminal

Pending(e) == emit[e] \in {"copy", "call"}

\* The inductive invariant, part 1: a browser has a queue while it is registered,
\* and what it holds or will be called with is a row that was there.
ClientStage ==
  /\ \A e \in Threads :
       /\ emit[e] # "call" => todo[e] = {}
       /\ Pending(e) => event[e].state \in Shown
       /\ \A c \in todo[e] : client[c] \in {"listed", "stream", "done"}
  /\ \A c \in Clients :
       /\ client[c] \in {"new", "read", "done"} => queue[c] = <<>>
       /\ client[c] \in {"read", "listed"} => snapshot[c].state \in Shown
       /\ client[c] = "stream" => seen[c].state \in Live
       /\ \A i \in 1 .. Len(queue[c]) : queue[c][i].state \in Shown

\* Part 2: only submit() can emit a row that is queued, and who may still be called
\* by it began to follow early.
QueuedStage ==
  /\ row.state = "absent" =>
       /\ row.progress = 0
       /\ \A e \in {"worker", "cancel", "delete"} : step[e] = "before"
       /\ \A c \in Clients : client[c] = "new"
  /\ step["submit"] = "before" => row.state = "absent"
  /\ step["worker"] \in {"running", "after"} => row.state \notin {"absent", "queued"}
  /\ emit["delete"] = "out"
  /\ \A e \in Threads \ {"submit"} :
       /\ emit[e] = "get" => row.state \notin {"absent", "queued"}
       /\ Pending(e) => event[e].state # "queued"
  /\ emit["submit"] # "out" =>
       \A c \in Clients : client[c] \in {"read", "listed", "stream"} => c \in early
  /\ \A c \in Clients \ early :
       \A i \in 1 .. Len(queue[c]) : queue[c][i].state # "queued"

\* No unfinished row that anybody still holds shows more than p.
AtMost(p) ==
  /\ row.state \in Live => row.progress <= p
  /\ \A e \in Threads : Pending(e) /\ event[e].state \in Live => event[e].progress <= p
  /\ \A c \in Clients :
       /\ snapshot[c].state \in Live => snapshot[c].progress <= p
       /\ seen[c].state \in Live => seen[c].progress <= p
       /\ \A i \in 1 .. Len(queue[c]) :
            queue[c][i].state \in Live => queue[c][i].progress <= p

\* What a browser has yielded, or yields first, and its queue are in order as far as
\* it will read them: nothing is read after a row that is finished.
Ordered(c) ==
  \A j \in 1 .. Len(queue[c]) :
    /\ client[c] = "listed" /\ snapshot[c].state \in Live =>
         snapshot[c].progress <= queue[c][j].progress
    /\ client[c] = "stream" => seen[c].progress <= queue[c][j].progress
    /\ \A i \in 1 .. j :
         queue[c][i].state \in Live => queue[c][i].progress <= queue[c][j].progress

\* Part 3: until somebody begins to cancel, the row follows the worker, and what the
\* worker or the reader of stderr is about to tell is no less than any unfinished row.
BarStage ==
  step["cancel"] = "before" =>
    /\ emit["cancel"] = "out"
    /\ step["worker"] \in {"before", "selected"} =>
         row.state \in {"absent", "queued"} /\ row.progress = 0
    /\ step["worker"] = "running" => row.state = "running"
    /\ step["worker"] = "after" => row.state \in Terminal \cup {"deleted"}
    /\ step["delete"] # "before" => row.state \in Terminal \cup {"deleted"}
    /\ AtMost(row.progress)
    /\ \A e \in {"worker", "pump"} : Pending(e) => AtMost(event[e].progress)
    /\ \A c \in Clients \ early : Ordered(c)

EventsInv == TypeOK /\ ClientStage /\ QueuedStage /\ BarStage

\* A listener that is registered while the job is unfinished is told of its end, or
\* the job is deleted: no emission is lost on a registered listener.
RegisteredIsTold ==
  \A c \in Clients :
    (c \in listeners /\ Present /\ row.state \notin Terminal)
      ~> client[c] = "done" \/ ~Present

\* events.py: "The stream ends when the job reaches a terminal state, so the
\* browser does not need to poll or to guess when to stop."
StreamEnds ==
  \A c \in Clients :
    (client[c] = "stream" /\ row.state \in Terminal) ~> client[c] = "done"
=============================================================================
