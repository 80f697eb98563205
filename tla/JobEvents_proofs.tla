-------------------------- MODULE JobEvents_proofs --------------------------
(***************************************************************************)
(* Proofs about the event streams of a job (module JobEvents), for any     *)
(* number of browsers, any progress lines, cancellations and deletions:    *)
(* the bar of a browser that follows in time never goes back, and neither  *)
(* does the state it shows.                                                *)
(***************************************************************************)
EXTENDS JobEvents, TLAPS

(***************************************************************************)
(* Queues.                                                                 *)
(***************************************************************************)
LEMMA AppendFacts ==
  ASSUME NEW S, NEW q \in Seq(S), NEW x \in S
  PROVE  /\ Append(q, x) \in Seq(S)
         /\ Len(Append(q, x)) = Len(q) + 1
         /\ \A i \in 1 .. Len(q) : Append(q, x)[i] = q[i]
         /\ Append(q, x)[Len(q) + 1] = x
         /\ Len(q) \in Nat
  OBVIOUS

LEMMA TailFacts ==
  ASSUME NEW S, NEW q \in Seq(S), q # <<>>
  PROVE  /\ Head(q) = q[1] /\ Head(q) \in S
         /\ Tail(q) \in Seq(S)
         /\ Len(Tail(q)) = Len(q) - 1
         /\ \A i \in 1 .. Len(Tail(q)) : Tail(q)[i] = q[i + 1]
         /\ Len(q) \in Nat \ {0}
  OBVIOUS

LEMMA EmptyFacts == ASSUME NEW S PROVE <<>> \in Seq(S) /\ Len(<<>>) = 0
  OBVIOUS

LEMMA NoRowFacts ==
  /\ NoRow \in Rows
  /\ NoRow.state = "absent" /\ NoRow.progress = 0
  /\ \A r \in Rows : r.state \in States /\ r.progress \in 0 .. Full /\ r.progress \in Int
  /\ Full \in Nat \ {0} /\ 0 \in 0 .. Full /\ Full \in 0 .. Full
  BY JobEventsAssumption DEF NoRow, Rows, States

(***************************************************************************)
(* The steps, in groups of equal effect.                                   *)
(***************************************************************************)
RowStep == \/ Submit \/ WorkerStep \/ PumpProgress
           \/ CancelReads \/ CancelSignals \/ CancelWrites \/ DeleteReads \/ DeleteRow

\* A stream goes on after a row that is not finished, or ends.
GoesOn(c, job, rest) ==
  /\ job.state \notin Terminal
  /\ seen' = [seen EXCEPT ![c] = job]
  /\ client' = [client EXCEPT ![c] = "stream"]
  /\ queue' = [queue EXCEPT ![c] = rest]
  /\ snapshot' = [snapshot EXCEPT ![c] = NoRow]
  /\ UNCHANGED <<rowVars, emitVars, listeners, early>>

Begins(c) == client[c] = "listed" /\ GoesOn(c, snapshot[c], queue[c])
Follows(c) ==
  client[c] = "stream" /\ queue[c] # <<>> /\ GoesOn(c, Head(queue[c]), Tail(queue[c]))
Ends(c) ==
  client[c] \in {"read", "listed", "stream"} /\ Leave(c) /\ UNCHANGED <<rowVars, emitVars>>

LEMMA NextCases ==
  ASSUME [Next]_vars
  PROVE  \/ RowStep
         \/ \E e \in Threads : EmitGet(e)
         \/ \E e \in Threads : EmitCopy(e)
         \/ \E e \in Threads : \E c \in Clients : EmitCall(e, c)
         \/ \E c \in Clients : ClientReads(c)
         \/ \E c \in Clients : ClientRegisters(c)
         \/ \E c \in Clients : Begins(c)
         \/ \E c \in Clients : Follows(c)
         \/ \E c \in Clients : Ends(c)
         \/ UNCHANGED vars
<1>1. ASSUME NEW c \in Clients, ClientSnapshot(c) PROVE Begins(c) \/ Ends(c)
  BY <1>1 DEF ClientSnapshot, Yields, Begins, GoesOn, Ends
<1>2. ASSUME NEW c \in Clients, ClientYields(c) PROVE Follows(c) \/ Ends(c)
  BY <1>2 DEF ClientYields, Yields, Follows, GoesOn, Ends
<1>3. ASSUME NEW c \in Clients, ClientCloses(c) PROVE Ends(c)
  BY <1>3 DEF ClientCloses, Ends
<1> QED BY <1>1, <1>2, <1>3 DEF Next, RowStep, Emission

\* A write of the row leaves streams and what is being emitted as they are, and
\* starts at most one emission of the row there is by then.
RowEffect ==
  /\ UNCHANGED <<event, todo, clientVars>>
  /\ row' \in Rows
  /\ emit' \in [Threads -> {"out", "get", "copy", "call"}]
  /\ step' \in [Threads -> {"before", "selected", "running", "read", "after"}]
  /\ scenario' = scenario /\ lines' \in 0 .. scenario.lines
  /\ \A e \in Threads : emit'[e] = emit[e] \/ (emit[e] = "out" /\ emit'[e] = "get")

LEMMA RowStepEffect ==
  ASSUME TypeOK, RowStep
  PROVE  RowEffect
<1> USE NoRowFacts DEF RowEffect, TypeOK, Threads, Rows, States, Terminal
<1>1. CASE Submit
  BY <1>1 DEF Submit, ThenEmits
<1>2. CASE WorkerSelects
  BY <1>2 DEF WorkerSelects, Steps, emitVars
<1>3. CASE WorkerBegins
  BY <1>3 DEF WorkerBegins, Write, ThenEmits
<1>4. CASE WorkerFinishes
  BY <1>4 DEF WorkerFinishes, Write, ThenEmits
<1>5. CASE PumpProgress
  <2>1. PICK f \in 0 .. Full : Write([row EXCEPT !.progress = Weighed(f)])
    BY <1>5 DEF PumpProgress
  <2>2. Weighed(f) \in 0 .. Full
    BY DEF Weighed
  <2>3. row' \in Rows
    BY <2>1, <2>2 DEF Write
  <2>4. lines' \in 0 .. scenario.lines
    BY <1>5, JobEventsAssumption DEF PumpProgress
  <2> QED BY <1>5, <2>3, <2>4 DEF PumpProgress, ThenEmits
<1>6. CASE CancelReads
  BY <1>6 DEF CancelReads, Steps, emitVars
<1>7. CASE CancelSignals
  BY <1>7 DEF CancelSignals, Steps, emitVars
<1>8. CASE CancelWrites
  BY <1>8 DEF CancelWrites, Write, ThenEmits
<1>9. CASE DeleteReads
  BY <1>9 DEF DeleteReads, Steps, emitVars
<1>10. CASE DeleteRow
  BY <1>10 DEF DeleteRow, emitVars
<1> QED
  BY <1>1, <1>2, <1>3, <1>4, <1>5, <1>6, <1>7, <1>8, <1>9, <1>10 DEF RowStep, WorkerStep

(***************************************************************************)
(* Types.                                                                  *)
(***************************************************************************)
LEMMA TypeNext == TypeOK /\ [Next]_vars => TypeOK'
<1> SUFFICES ASSUME TypeOK, [Next]_vars PROVE TypeOK'
  OBVIOUS
<1> USE NoRowFacts DEF TypeOK
<1>1. CASE RowStep
  BY <1>1, RowStepEffect DEF RowEffect, clientVars
<1>2. ASSUME NEW e \in Threads, EmitGet(e) PROVE TypeOK'
  BY <1>2 DEF EmitGet, rowVars, clientVars
<1>3. ASSUME NEW e \in Threads, EmitCopy(e) PROVE TypeOK'
  BY <1>3 DEF EmitCopy, CallsNext, rowVars
<1>4. ASSUME NEW e \in Threads, NEW c \in Clients, EmitCall(e, c) PROVE TypeOK'
  <2>1. queue' \in [Clients -> Seq(Rows)]
    BY <1>4, AppendFacts DEF EmitCall
  <2> QED BY <1>4, <2>1 DEF EmitCall, CallsNext, rowVars
<1>5. ASSUME NEW c \in Clients, ClientReads(c) PROVE TypeOK'
  BY <1>5 DEF ClientReads, rowVars, emitVars
<1>6. ASSUME NEW c \in Clients, ClientRegisters(c) PROVE TypeOK'
  BY <1>6 DEF ClientRegisters, rowVars, emitVars
<1>7. ASSUME NEW c \in Clients, Begins(c) PROVE TypeOK'
  BY <1>7 DEF Begins, GoesOn, rowVars, emitVars
<1>8. ASSUME NEW c \in Clients, Follows(c) PROVE TypeOK'
  BY <1>8, TailFacts DEF Follows, GoesOn, rowVars, emitVars
<1>9. ASSUME NEW c \in Clients, Ends(c) PROVE TypeOK'
  <2>1. queue' \in [Clients -> Seq(Rows)]
    BY <1>9, EmptyFacts DEF Ends, Leave, Forget
  <2> QED BY <1>9, <2>1 DEF Ends, Leave, Forget, rowVars, emitVars
<1>10. CASE UNCHANGED vars
  BY <1>10 DEF vars, rowVars, emitVars, clientVars
<1> QED
  BY NextCases, <1>1, <1>2, <1>3, <1>4, <1>5, <1>6, <1>7, <1>8, <1>9, <1>10

(***************************************************************************)
(* Registration: queues and lists of who is to be called.                  *)
(***************************************************************************)
LEMMA ClientStageNext == TypeOK /\ ClientStage /\ [Next]_vars => ClientStage'
<1> SUFFICES ASSUME TypeOK, ClientStage, [Next]_vars PROVE ClientStage'
  OBVIOUS
<1> USE NoRowFacts DEF TypeOK, ClientStage, Pending
<1>1. CASE RowStep
  <2>1. RowEffect
    BY <1>1, RowStepEffect
  <2>2. \A e \in Threads :
          /\ emit'[e] # "call" => todo'[e] = {}
          /\ emit'[e] \in {"copy", "call"} => event'[e].state \in Shown
          /\ \A c \in todo'[e] : client'[c] \in {"listed", "stream", "done"}
    BY <2>1 DEF RowEffect, clientVars
  <2> QED BY <2>1, <2>2 DEF RowEffect, clientVars
<1>2. ASSUME NEW e \in Threads, EmitGet(e) PROVE ClientStage'
  BY <1>2 DEF EmitGet, Present, Shown, Live, States, Terminal, rowVars, clientVars
<1>3. ASSUME NEW e \in Threads, EmitCopy(e) PROVE ClientStage'
  BY <1>3 DEF EmitCopy, CallsNext, rowVars
<1>4. ASSUME NEW e \in Threads, NEW c \in Clients, EmitCall(e, c) PROVE ClientStage'
  <2>1. \A k \in Clients : client[k] \in {"new", "read", "done"} => queue'[k] = <<>>
    BY <1>4 DEF EmitCall
  <2>2. \A k \in Clients : \A i \in 1 .. Len(queue'[k]) : queue'[k][i].state \in Shown
    BY <1>4, AppendFacts DEF EmitCall
  <2> QED BY <1>4, <2>1, <2>2 DEF EmitCall, CallsNext, rowVars
<1>5. ASSUME NEW c \in Clients, ClientReads(c) PROVE ClientStage'
  BY <1>5 DEF ClientReads, Present, Shown, Live, States, Terminal, rowVars, emitVars
<1>6. ASSUME NEW c \in Clients, ClientRegisters(c) PROVE ClientStage'
  BY <1>6 DEF ClientRegisters, rowVars, emitVars
<1>7. ASSUME NEW c \in Clients, Begins(c) PROVE ClientStage'
  BY <1>7 DEF Begins, GoesOn, Shown, rowVars, emitVars
<1>8. ASSUME NEW c \in Clients, Follows(c) PROVE ClientStage'
  <2>1. \A i \in 1 .. Len(queue'[c]) : queue'[c][i].state \in Shown
    BY <1>8, TailFacts DEF Follows, GoesOn
  <2>2. Head(queue[c]).state \in Live
    BY <1>8, TailFacts DEF Follows, GoesOn, Shown
  <2> QED BY <1>8, <2>1, <2>2 DEF Follows, GoesOn, rowVars, emitVars
<1>9. ASSUME NEW c \in Clients, Ends(c) PROVE ClientStage'
  BY <1>9, EmptyFacts DEF Ends, Leave, Forget, rowVars, emitVars
<1>10. CASE UNCHANGED vars
  BY <1>10 DEF vars, rowVars, emitVars, clientVars
<1> QED
  BY NextCases, <1>1, <1>2, <1>3, <1>4, <1>5, <1>6, <1>7, <1>8, <1>9, <1>10

(***************************************************************************)
(* Nobody but submit() tells that the job is queued.                       *)
(***************************************************************************)
\* What a write of the row says of states: only the INSERT makes a queued row,
\* a row is absent only before it, and an emission starts after a row was claimed.
LEMMA RowStepQueued ==
  ASSUME TypeOK, QueuedStage, RowStep
  PROVE  /\ row'.state # "absent"
         /\ row'.state = "queued" => row.state \in {"absent", "queued"}
         /\ step'["submit"] # "before"
         /\ step'["worker"] \in {"running", "after"} => row'.state # "queued"
         /\ emit'["delete"] = "out"
         /\ emit'["submit"] # "out" => emit["submit"] # "out" \/ row.state = "absent"
         /\ \A e \in Threads \ {"submit"} :
              emit'[e] = "get" => emit[e] = "get" \/ row'.state # "queued"
<1> USE NoRowFacts DEF TypeOK, QueuedStage, Threads, Rows, States, Terminal
<1>1. CASE Submit
  BY <1>1 DEF Submit, ThenEmits
<1>2. CASE WorkerSelects
  BY <1>2 DEF WorkerSelects, Steps, emitVars
<1>3. CASE WorkerBegins
  BY <1>3 DEF WorkerBegins, Write, Present, ThenEmits
<1>4. CASE WorkerFinishes
  BY <1>4 DEF WorkerFinishes, Write, Present, ThenEmits
<1>5. CASE PumpProgress
  <2>1. row'.state = row.state
    BY <1>5 DEF PumpProgress, Write
  <2> QED BY <1>5, <2>1 DEF PumpProgress, ThenEmits
<1>6. CASE CancelReads
  BY <1>6 DEF CancelReads, Steps, emitVars
<1>7. CASE CancelSignals
  BY <1>7 DEF CancelSignals, Steps, emitVars
<1>8. CASE CancelWrites
  BY <1>8 DEF CancelWrites, Write, Present, ThenEmits
<1>9. CASE DeleteReads
  BY <1>9 DEF DeleteReads, Steps, emitVars
<1>10. CASE DeleteRow
  BY <1>10 DEF DeleteRow, emitVars
<1> QED
  BY <1>1, <1>2, <1>3, <1>4, <1>5, <1>6, <1>7, <1>8, <1>9, <1>10 DEF RowStep, WorkerStep

LEMMA QueuedStageNext ==
  TypeOK /\ ClientStage /\ QueuedStage /\ [Next]_vars => QueuedStage'
<1> SUFFICES ASSUME TypeOK, ClientStage, QueuedStage, [Next]_vars PROVE QueuedStage'
  OBVIOUS
<1> USE NoRowFacts DEF TypeOK, QueuedStage, Pending
<1>1. CASE RowStep
  <2>1. RowEffect
    BY <1>1, RowStepEffect
  <2>2. \A e \in Threads \ {"submit"} :
          /\ emit'[e] = "get" => row'.state \notin {"absent", "queued"}
          /\ emit'[e] \in {"copy", "call"} => event'[e].state # "queued"
    BY <1>1, <2>1, RowStepQueued DEF RowEffect
  <2>3. emit'["submit"] # "out" =>
          \A c \in Clients : client[c] \in {"read", "listed", "stream"} => c \in early
    BY <1>1, RowStepQueued
  <2> QED BY <1>1, <2>1, <2>2, <2>3, RowStepQueued DEF RowEffect, clientVars, Threads
<1>2. ASSUME NEW e \in Threads, EmitGet(e) PROVE QueuedStage'
  BY <1>2 DEF EmitGet, Threads, rowVars, clientVars
<1>3. ASSUME NEW e \in Threads, EmitCopy(e) PROVE QueuedStage'
  BY <1>3 DEF EmitCopy, CallsNext, Threads, rowVars
<1>4. ASSUME NEW e \in Threads, NEW c \in Clients, EmitCall(e, c) PROVE QueuedStage'
  <2>1. e = "submit" => c \in early \/ client[c] = "done"
    BY <1>4 DEF EmitCall, ClientStage
  <2>2. \A k \in Clients \ early :
          \A i \in 1 .. Len(queue'[k]) : queue'[k][i].state # "queued"
    BY <1>4, <2>1, AppendFacts DEF EmitCall
  <2> QED BY <1>4, <2>2 DEF EmitCall, CallsNext, Threads, rowVars
<1>5. ASSUME NEW c \in Clients, ClientReads(c) PROVE QueuedStage'
  BY <1>5 DEF ClientReads, rowVars, emitVars
<1>6. ASSUME NEW c \in Clients, ClientRegisters(c) PROVE QueuedStage'
  BY <1>6 DEF ClientRegisters, rowVars, emitVars
<1>7. ASSUME NEW c \in Clients, Begins(c) PROVE QueuedStage'
  <2>1. queue' = queue /\ row.state # "absent"
    BY <1>7 DEF Begins, GoesOn
  <2>2. /\ row' = row /\ step' = step /\ emit' = emit /\ event' = event /\ early' = early
        /\ client[c] = "listed" /\ client' = [client EXCEPT ![c] = "stream"]
    BY <1>7 DEF Begins, GoesOn, rowVars, emitVars
  <2>3. emit["submit"] # "out" =>
          \A k \in Clients : client'[k] \in {"read", "listed", "stream"} => k \in early
    BY <2>2
  <2> QED BY <2>1, <2>2, <2>3
<1>8. ASSUME NEW c \in Clients, Follows(c) PROVE QueuedStage'
  <2>1. c \notin early => \A i \in 1 .. Len(queue'[c]) : queue'[c][i].state # "queued"
    BY <1>8, TailFacts DEF Follows, GoesOn
  <2> QED BY <1>8, <2>1 DEF Follows, GoesOn, rowVars, emitVars
<1>9. ASSUME NEW c \in Clients, Ends(c) PROVE QueuedStage'
  BY <1>9, EmptyFacts DEF Ends, Leave, Forget, rowVars, emitVars
<1>10. CASE UNCHANGED vars
  BY <1>10 DEF vars, rowVars, emitVars, clientVars
<1> QED
  BY NextCases, <1>1, <1>2, <1>3, <1>4, <1>5, <1>6, <1>7, <1>8, <1>9, <1>10

(***************************************************************************)
(* The order of progress.                                                  *)
(***************************************************************************)
LEMMA AtMostGrows ==
  ASSUME TypeOK, NEW p \in Nat, NEW q \in Nat, p <= q, AtMost(p)
  PROVE  AtMost(q)
<1>1. \A r \in Rows : r.progress \in Int
  BY NoRowFacts
<1>2. /\ row \in Rows /\ \A e \in Threads : event[e] \in Rows
      /\ \A c \in Clients : snapshot[c] \in Rows /\ seen[c] \in Rows
      /\ \A c \in Clients : \A i \in 1 .. Len(queue[c]) : queue[c][i] \in Rows
  BY DEF TypeOK
<1>3. \A r \in Rows : r.progress <= p => r.progress <= q
  BY <1>1
<1> QED BY <1>2, <1>3 DEF AtMost

\* What a write of the row says of progress while nobody cancels: the row follows the
\* worker, its progress does not fall, and a row that is to be generated shows more
\* than before only when nothing is being told.
LEMMA RowStepBar ==
  ASSUME TypeOK, QueuedStage, BarStage, RowStep, step'["cancel"] = "before"
  PROVE  /\ step["cancel"] = "before"
         /\ emit'["cancel"] = "out"
         /\ step'["worker"] \in {"before", "selected"} =>
              row'.state \in {"absent", "queued"} /\ row'.progress = 0
         /\ step'["worker"] = "running" => row'.state = "running"
         /\ step'["worker"] = "after" => row'.state \in Terminal \cup {"deleted"}
         /\ step'["delete"] # "before" => row'.state \in Terminal \cup {"deleted"}
         /\ row.progress <= row'.progress
         /\ row'.state \in Live =>
              \/ row'.progress = row.progress /\ row.state \in Live
              \/ row'.progress = 0
              \/ \A e \in {"worker", "pump"} : emit[e] = "out"
<1> USE NoRowFacts DEF TypeOK, QueuedStage, BarStage, Threads, Rows, States, Terminal, Live
<1>1. CASE Submit
  BY <1>1 DEF Submit, ThenEmits
<1>2. CASE WorkerSelects
  BY <1>2 DEF WorkerSelects, Steps, emitVars
<1>3. CASE WorkerBegins
  BY <1>3 DEF WorkerBegins, Write, Present, ThenEmits
<1>4. CASE WorkerFinishes
  BY <1>4 DEF WorkerFinishes, Write, Present, ThenEmits
<1>5. CASE PumpProgress
  <2>1. row'.state = row.state /\ row.progress <= row'.progress
    BY <1>5 DEF PumpProgress, Write, Weighed
  <2> QED BY <1>5, <2>1 DEF PumpProgress, ThenEmits
<1>6. CASE CancelReads
  BY <1>6 DEF CancelReads, Steps, emitVars
<1>7. CASE CancelSignals
  BY <1>7 DEF CancelSignals, Steps, emitVars
<1>8. CASE CancelWrites
  BY <1>8 DEF CancelWrites, Write, Present, ThenEmits
<1>9. CASE DeleteReads
  BY <1>9 DEF DeleteReads, Steps, emitVars
<1>10. CASE DeleteRow
  BY <1>10 DEF DeleteRow, emitVars
<1> QED
  BY <1>1, <1>2, <1>3, <1>4, <1>5, <1>6, <1>7, <1>8, <1>9, <1>10 DEF RowStep, WorkerStep

\* A step that does not write the row, tells nothing new and raises nothing.
LEMMA BarStageKept ==
  ASSUME EventsInv, step["cancel"] = "before", UNCHANGED rowVars,
         emit'["cancel"] = "out",
         \A p \in Nat : AtMost(p) => AtMost(p)',
         \A e \in {"worker", "pump"} : Pending(e)' => Pending(e) /\ event'[e] = event[e],
         \A c \in (Clients \ early)' : Ordered(c)'
  PROVE  BarStage'
<1> USE NoRowFacts DEF EventsInv, TypeOK, BarStage
<1>1. row' = row /\ step' = step /\ row.progress \in Nat
  BY DEF rowVars
<1>2. AtMost(row.progress)'
  BY <1>1
<1>3. ASSUME NEW e \in {"worker", "pump"}, Pending(e)' PROVE AtMost(event[e].progress)'
  <2>1. Pending(e) /\ event'[e] = event[e] /\ event[e].progress \in Nat
    BY <1>3 DEF Threads
  <2>2. AtMost(event[e].progress)
    BY <2>1
  <2> QED BY <2>1, <2>2
<1> QED BY <1>1, <1>2, <1>3

LEMMA BarStageNext == EventsInv /\ [Next]_vars => BarStage'
<1> SUFFICES ASSUME EventsInv, [Next]_vars, step'["cancel"] = "before"
             PROVE  BarStage'
  BY DEF BarStage
<1> USE NoRowFacts DEF EventsInv, TypeOK
<1>0. row.progress \in Nat /\ \A e \in Threads : event[e].progress \in Nat
  OBVIOUS
<1>1. CASE RowStep
  <2>1. RowEffect /\ step["cancel"] = "before"
    BY <1>1, RowStepEffect, RowStepBar
  <2>2. row'.progress \in Nat
    BY <2>1 DEF RowEffect
  <2>3. AtMost(row'.progress)
    BY <1>0, <1>1, <2>1, <2>2, RowStepBar, AtMostGrows DEF BarStage
  <2>4. AtMost(row.progress)'
    BY <2>1, <2>3 DEF RowEffect, AtMost, Pending, clientVars
  <2>5. ASSUME NEW e \in {"worker", "pump"}, Pending(e)'
        PROVE  AtMost(event[e].progress)'
    <3>1. Pending(e) /\ event' = event /\ AtMost(event[e].progress)
      BY <2>1, <2>5 DEF RowEffect, Pending, BarStage, Threads
    <3>2. row'.state \in Live => row'.progress <= event[e].progress
      BY <1>0, <1>1, <3>1, RowStepBar DEF AtMost, Pending, Threads
    <3> QED BY <2>1, <3>1, <3>2 DEF RowEffect, AtMost, Pending, clientVars
  <2>6. \A c \in Clients \ early' : Ordered(c)'
    BY <2>1 DEF RowEffect, BarStage, Ordered, clientVars
  <2> QED BY <1>1, <2>4, <2>5, <2>6, RowStepBar DEF BarStage
<1>2. ASSUME NEW e \in Threads, EmitGet(e) PROVE BarStage'
  <2>1. /\ event' = [event EXCEPT ![e] = IF Present THEN row ELSE NoRow]
        /\ emit' = [emit EXCEPT ![e] = IF Present THEN "copy" ELSE "out"]
        /\ UNCHANGED <<rowVars, todo, clientVars>>
    BY <1>2 DEF EmitGet
  <2>2. step["cancel"] = "before" /\ emit["cancel"] = "out" /\ e # "cancel"
    BY <1>2, <2>1 DEF EmitGet, BarStage, rowVars
  <2>3. ASSUME NEW p \in Nat, AtMost(p) PROVE AtMost(p)'
    <3>1. event'[e].state \in Live => row.state \in Live /\ event'[e] = row
      BY <2>1 DEF Live
    <3>2. \A k \in Threads : k # e => event'[k] = event[k] /\ emit'[k] = emit[k]
      BY <2>1
    <3> QED BY <2>1, <2>3, <3>1, <3>2 DEF AtMost, Pending, rowVars, clientVars
  <2>4. AtMost(row.progress)'
    BY <1>0, <2>1, <2>2, <2>3 DEF BarStage, rowVars
  <2>5. ASSUME NEW k \in {"worker", "pump"}, Pending(k)'
        PROVE  AtMost(event[k].progress)'
    <3>1. CASE k = e
      <4>1. Present /\ event'[k] = row
        BY <2>1, <2>5, <3>1 DEF Pending
      <4>2. AtMost(row.progress)
        BY <2>2 DEF BarStage
      <4> QED BY <1>0, <2>3, <4>1, <4>2
    <3>2. CASE k # e
      <4>1. Pending(k) /\ event'[k] = event[k] /\ k \in Threads
        BY <2>1, <2>5, <3>2 DEF Pending, Threads
      <4>2. AtMost(event[k].progress)
        BY <2>2, <4>1 DEF BarStage
      <4> QED BY <1>0, <2>3, <4>1, <4>2
    <3> QED BY <3>1, <3>2
  <2>6. \A c \in (Clients \ early)' : Ordered(c)'
    BY <2>1, <2>2 DEF BarStage, Ordered, clientVars
  <2>7. emit'["cancel"] = "out" /\ step' = step /\ row' = row
    BY <2>1, <2>2 DEF rowVars, Threads
  <2> QED BY <2>2, <2>4, <2>5, <2>6, <2>7 DEF BarStage
<1>3. ASSUME NEW e \in Threads, EmitCopy(e) PROVE BarStage'
  <2>1. UNCHANGED rowVars /\ step["cancel"] = "before" /\ emit["cancel"] = "out"
    BY <1>3 DEF EmitCopy, CallsNext, BarStage, rowVars
  <2>2. emit'["cancel"] = "out" /\ e # "cancel"
    BY <1>3, <2>1 DEF EmitCopy, CallsNext, Threads
  <2>3. \A k \in Threads : Pending(k)' => Pending(k) /\ event'[k] = event[k]
    BY <1>3 DEF EmitCopy, CallsNext, Pending
  <2>4. \A p \in Nat : AtMost(p) => AtMost(p)'
    BY <1>3, <2>1, <2>3 DEF EmitCopy, CallsNext, AtMost, rowVars
  <2>5. \A c \in (Clients \ early)' : Ordered(c)'
    BY <1>3, <2>1 DEF EmitCopy, CallsNext, BarStage, Ordered
  <2> QED BY <2>1, <2>2, <2>3, <2>4, <2>5, BarStageKept DEF Threads
<1>4. ASSUME NEW e \in Threads, NEW c \in Clients, EmitCall(e, c) PROVE BarStage'
  <2>1. /\ UNCHANGED <<rowVars, listeners, client, snapshot, seen, early>>
        /\ step["cancel"] = "before" /\ emit["cancel"] = "out"
        /\ Pending(e)
    BY <1>4 DEF EmitCall, CallsNext, BarStage, Pending, rowVars
  <2>2. emit'["cancel"] = "out"
    BY <1>4, <2>1 DEF EmitCall, CallsNext, Threads
  <2>3. \A k \in Threads : Pending(k)' => Pending(k) /\ event'[k] = event[k]
    BY <1>4 DEF EmitCall, CallsNext, Pending
  <2>4. ASSUME NEW p \in Nat, AtMost(p) PROVE AtMost(p)'
    <3>1. \A k \in Clients : \A i \in 1 .. Len(queue'[k]) :
            queue'[k][i].state \in Live => queue'[k][i].progress <= p
      BY <1>4, <2>1, <2>4, AppendFacts DEF EmitCall, AtMost
    <3> QED BY <2>1, <2>3, <2>4, <3>1 DEF AtMost, rowVars
  <2>5. c \notin early /\ client[c] # "done" => e \in {"worker", "pump"}
    BY <1>4, <2>1 DEF EmitCall, QueuedStage, ClientStage, Threads, Pending
  <2>6. c \notin early => Ordered(c)'
    <3>1. CASE client[c] = "done"
      BY <1>4, <2>1, <3>1 DEF EmitCall, BarStage, Ordered
    <3>2. CASE c \notin early /\ client[c] # "done"
      <4>1. AtMost(event[e].progress) /\ Ordered(c)
        BY <2>1, <2>5, <3>2 DEF BarStage
      <4>2. queue'[c] = Append(queue[c], event[e])
        BY <1>4, <3>2 DEF EmitCall
      <4>3. client[c] = "stream" => seen[c].state \in Live
        BY DEF ClientStage
      <4>4. \A j \in 1 .. Len(queue'[c]) :
              \A i \in 1 .. j :
                queue'[c][i].state \in Live => queue'[c][i].progress <= queue'[c][j].progress
        BY <4>1, <4>2, AppendFacts DEF AtMost, Ordered
      <4>5. \A j \in 1 .. Len(queue'[c]) :
              /\ client[c] = "listed" /\ snapshot[c].state \in Live =>
                   snapshot[c].progress <= queue'[c][j].progress
              /\ client[c] = "stream" => seen[c].progress <= queue'[c][j].progress
        BY <4>1, <4>2, <4>3, AppendFacts DEF AtMost, Ordered
      <4> QED BY <2>1, <4>4, <4>5 DEF Ordered
    <3> QED BY <3>1, <3>2
  <2>7. \A k \in (Clients \ early)' : k # c => Ordered(k)'
    BY <1>4, <2>1 DEF EmitCall, BarStage, Ordered
  <2> QED BY <2>1, <2>2, <2>3, <2>4, <2>6, <2>7, BarStageKept DEF Threads
<1>5. ASSUME NEW c \in Clients, ClientReads(c) PROVE BarStage'
  <2>1. UNCHANGED <<rowVars, emitVars, listeners, queue, seen>> /\ step["cancel"] = "before"
    BY <1>5 DEF ClientReads, rowVars
  <2>2. \A p \in Nat : AtMost(p) => AtMost(p)'
    BY <1>5, <2>1 DEF ClientReads, AtMost, Pending, rowVars, emitVars
  <2>3. \A k \in (Clients \ early)' : Ordered(k)'
    BY <1>5, <2>1, EmptyFacts DEF ClientReads, BarStage, ClientStage, Ordered
  <2> QED BY <2>1, <2>2, <2>3, BarStageKept DEF BarStage, Pending, emitVars
<1>6. ASSUME NEW c \in Clients, ClientRegisters(c) PROVE BarStage'
  <2>1. UNCHANGED <<rowVars, emitVars, snapshot, queue, seen, early>> /\ step["cancel"] = "before"
    BY <1>6 DEF ClientRegisters, rowVars
  <2>2. \A p \in Nat : AtMost(p) => AtMost(p)'
    BY <2>1 DEF AtMost, Pending, rowVars, emitVars
  <2>3. \A k \in (Clients \ early)' : Ordered(k)'
    BY <1>6, <2>1, EmptyFacts DEF ClientRegisters, BarStage, ClientStage, Ordered
  <2> QED BY <2>1, <2>2, <2>3, BarStageKept DEF BarStage, Pending, emitVars
<1>7. ASSUME NEW c \in Clients, Begins(c) PROVE BarStage'
  <2>1. UNCHANGED <<rowVars, emitVars, listeners, early>> /\ step["cancel"] = "before"
    BY <1>7 DEF Begins, GoesOn, rowVars
  <2>2. queue' = queue /\ snapshot[c].state \in Live
    BY <1>7 DEF Begins, GoesOn, ClientStage, Shown
  <2>3. \A p \in Nat : AtMost(p) => AtMost(p)'
    BY <1>7, <2>1, <2>2 DEF Begins, GoesOn, AtMost, Pending, Live, rowVars, emitVars
  <2>4. \A k \in (Clients \ early)' : Ordered(k)'
    BY <1>7, <2>1, <2>2 DEF Begins, GoesOn, BarStage, Ordered
  <2> QED BY <2>1, <2>3, <2>4, BarStageKept DEF BarStage, Pending, emitVars
<1>8. ASSUME NEW c \in Clients, Follows(c) PROVE BarStage'
  <2>1. UNCHANGED <<rowVars, emitVars, listeners, early>> /\ step["cancel"] = "before"
    BY <1>8 DEF Follows, GoesOn, rowVars
  <2>0. Head(queue[c]) = queue[c][1] /\ 1 \in 1 .. Len(queue[c])
    BY <1>8, TailFacts DEF Follows
  <2>2. /\ queue' = [queue EXCEPT ![c] = Tail(queue[c])]
        /\ seen' = [seen EXCEPT ![c] = queue[c][1]]
        /\ client' = client
        /\ queue[c][1].state \in Live
    BY <1>8, <2>0 DEF Follows, GoesOn, ClientStage, Shown
  <2>3. \A p \in Nat : AtMost(p) => AtMost(p)'
    BY <1>8, <2>0, <2>1, <2>2, TailFacts DEF Follows, GoesOn, AtMost, Pending, Live, rowVars, emitVars
  <2>4. \A k \in (Clients \ early)' : k # c => Ordered(k)'
    BY <1>8, <2>1, <2>2 DEF Follows, GoesOn, BarStage, Ordered
  <2>5. c \notin early => Ordered(c)'
    BY <1>8, <2>0, <2>1, <2>2, TailFacts DEF Follows, BarStage, Ordered
  <2> QED BY <2>1, <2>3, <2>4, <2>5, BarStageKept DEF BarStage, Pending, emitVars
<1>9. ASSUME NEW c \in Clients, Ends(c) PROVE BarStage'
  <2>1. UNCHANGED <<rowVars, emitVars>> /\ step["cancel"] = "before"
    BY <1>9 DEF Ends, rowVars
  <2>2. \A p \in Nat : AtMost(p) => AtMost(p)'
    BY <1>9, <2>1, EmptyFacts DEF Ends, Leave, Forget, AtMost, Pending, Live, rowVars, emitVars
  <2>3. \A k \in (Clients \ early)' : Ordered(k)'
    BY <1>9, <2>1, EmptyFacts DEF Ends, Leave, Forget, BarStage, Ordered
  <2> QED BY <2>1, <2>2, <2>3, BarStageKept DEF BarStage, Pending, emitVars
<1>10. CASE UNCHANGED vars
  <2>1. UNCHANGED <<rowVars, emitVars, clientVars>> /\ step["cancel"] = "before"
    BY <1>10 DEF vars, rowVars
  <2>2. \A p \in Nat : AtMost(p) => AtMost(p)'
    BY <2>1 DEF AtMost, Pending, rowVars, emitVars, clientVars
  <2>3. \A k \in (Clients \ early)' : Ordered(k)'
    BY <2>1 DEF BarStage, Ordered, clientVars
  <2> QED BY <2>1, <2>2, <2>3, BarStageKept DEF BarStage, Pending, emitVars
<1> QED
  BY NextCases, <1>1, <1>2, <1>3, <1>4, <1>5, <1>6, <1>7, <1>8, <1>9, <1>10

(***************************************************************************)
(* The theorems.                                                           *)
(***************************************************************************)
\* EventsInv is an invariant, for any browsers, lines, cancellations and deletions
\* (events.py, _emit).
THEOREM EventsInvariance == Spec => []EventsInv
<1>1. Init => EventsInv
  <2> SUFFICES ASSUME Init PROVE EventsInv
    OBVIOUS
  <2> USE NoRowFacts, EmptyFacts DEF Init
  <2>1. TypeOK
    BY JobEventsAssumption DEF TypeOK, Threads
  <2>2. ClientStage
    BY DEF ClientStage, Pending
  <2>3. QueuedStage
    BY DEF QueuedStage, Pending, Threads
  <2>4. AtMost(row.progress)
    BY DEF AtMost, Pending, Live
  <2>5. BarStage
    BY <2>4 DEF BarStage, Pending, Ordered, Threads
  <2> QED BY <2>1, <2>2, <2>3, <2>5 DEF EventsInv
<1>2. EventsInv /\ [Next]_vars => EventsInv'
  BY TypeNext, ClientStageNext, QueuedStageNext, BarStageNext DEF EventsInv
<1> QED BY <1>1, <1>2, PTL DEF Spec

\* Every variable keeps its type; listeners are exactly the streams that registered
\* and have not left (events.py: add_listener, and remove_listener in the finally).
THEOREM TypeCorrect == Spec => []TypeOK
<1>1. EventsInv => TypeOK
  BY DEF EventsInv
<1> QED BY <1>1, EventsInvariance, PTL

\* The bar of a browser that began to follow after submit() had emitted never goes
\* back while nobody cancels (runner.py: _consume and its max, _emit).
THEOREM BarIsMonotone == Spec => []BarNeverRegresses
<1>1. EventsInv => BarNeverRegresses
  <2> SUFFICES ASSUME EventsInv, NEW c \in Clients \ early, step["cancel"] = "before",
                      Streaming(c)
               PROVE  ~(Head(queue[c]).progress < seen[c].progress)
    BY DEF BarNeverRegresses, Regresses
  <2>1. Head(queue[c]) = queue[c][1] /\ 1 \in 1 .. Len(queue[c])
    BY TailFacts DEF EventsInv, TypeOK, Streaming
  <2>2. seen[c].progress <= queue[c][1].progress
    BY <2>1 DEF EventsInv, BarStage, Ordered, Streaming
  <2>3. queue[c] \in Seq(Rows) /\ queue[c] # <<>> /\ seen[c] \in Rows
    BY DEF EventsInv, TypeOK, Streaming
  <2>4. Head(queue[c]) \in Rows
    BY <2>3, TailFacts
  <2> QED BY <2>1, <2>2, <2>3, <2>4, NoRowFacts
<1> QED BY <1>1, EventsInvariance, PTL

\* Such a browser never sees a job that runs go back to the queue, whoever cancels it
\* and whenever (runner.py: cancel and submit, which read the row back).
THEOREM QueueIsLeftOnce == Spec => []NeverBackToQueued
<1>1. EventsInv => NeverBackToQueued
  <2> SUFFICES ASSUME EventsInv, NEW c \in Clients \ early, Streaming(c)
               PROVE  Head(queue[c]).state # "queued"
    BY DEF NeverBackToQueued
  <2>1. Head(queue[c]) = queue[c][1] /\ 1 \in 1 .. Len(queue[c])
    BY TailFacts DEF EventsInv, TypeOK, Streaming
  <2> QED BY <2>1 DEF EventsInv, QueuedStage
<1> QED BY <1>1, EventsInvariance, PTL
=============================================================================
