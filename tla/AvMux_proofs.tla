---------------------------- MODULE AvMux_proofs ----------------------------
(***************************************************************************)
(* The three safety properties of the mux, for any number of streams, of   *)
(* any length, through pipes of any size.                                  *)
(***************************************************************************)
EXTENDS AvMux, TLAPS

USE AvMuxAssumption

LEMMA Start == Init => Inv
<1> SUFFICES ASSUME Init PROVE Inv
  OBVIOUS
<1>1. \A p \in Streams : got[p] + pipe[p] + left[p] = Total[p]
  <2>1. \A p \in Streams : Total[p] \in Nat /\ got[p] = 0 /\ pipe[p] = 0 /\ left[p] = Total[p]
    BY DEF Init
  <2> QED
    BY <2>1
<1>2. left \in [Streams -> Nat] /\ got \in [Streams -> Nat] /\ pipe \in [Streams -> 0 .. Cap]
  BY DEF Init
<1>3. TypeOK
  <2>1. \A p \in Streams : /\ writers[p] \in SUBSET {"h3", "ffmpeg"} /\ closes[p] \in 0 .. 1
                           /\ closes[p] = 1 <=> "h3" \notin writers[p]
    BY DEF Init
  <2>2. /\ thread \in [Streams -> {"none", "running", "ended", "failed"}]
        /\ wrong \in [Streams -> BOOLEAN]
    BY DEF Init
  <2> QED
    BY <1>1, <1>2, <2>1, <2>2 DEF Init, TypeOK
<1>4. CallStage /\ StreamStage
  BY DEF Init, CallStage, StreamStage
<1> QED
  BY <1>3, <1>4 DEF Inv

\* close() of pipes that are open.
LEMMA ClosedEffect ==
  ASSUME TypeOK, NEW P \in SUBSET Streams, Closed(P), \A p \in P : closes[p] = 0
  PROVE  \A p \in Streams :
           /\ writers'[p] \in SUBSET {"h3", "ffmpeg"}
           /\ closes'[p] \in 0 .. 1 /\ (closes'[p] = 1 <=> "h3" \notin writers'[p])
           /\ p \in P => closes'[p] = 1
           /\ p \notin P => closes'[p] = closes[p] /\ writers'[p] = writers[p]
           /\ writers'[p] \subseteq writers[p]
<1> SUFFICES ASSUME NEW p \in Streams
             PROVE  /\ writers'[p] \in SUBSET {"h3", "ffmpeg"}
                    /\ closes'[p] \in 0 .. 1 /\ (closes'[p] = 1 <=> "h3" \notin writers'[p])
                    /\ p \in P => closes'[p] = 1
                    /\ p \notin P => closes'[p] = closes[p] /\ writers'[p] = writers[p]
                    /\ writers'[p] \subseteq writers[p]
  OBVIOUS
<1>1. CASE p \in P
  BY <1>1 DEF Closed, TypeOK
<1>2. CASE p \notin P
  BY <1>2 DEF Closed, TypeOK
<1> QED
  BY <1>1, <1>2

LEMMA CallerKeeps == ASSUME Inv, Caller PROVE Inv'
<1> USE DEF Inv
<1>1. CASE Spawn
  <2>1. TypeOK'
    BY <1>1 DEF Spawn, Inherited, data, TypeOK
  <2> QED
    BY <1>1, <2>1 DEF Spawn, data, CallStage, StreamStage, Eof
<1>2. CASE SpawnFails
  <2>1. \A p \in Streams :
          /\ writers'[p] \in SUBSET {"h3", "ffmpeg"}
          /\ closes'[p] \in 0 .. 1 /\ (closes'[p] = 1 <=> "h3" \notin writers'[p])
          /\ closes'[p] = 1
    BY <1>2, ClosedEffect DEF SpawnFails, CallStage
  <2>2. TypeOK'
    BY <1>2, <2>1 DEF SpawnFails, Returned, data, child, TypeOK
  <2> QED
    BY <1>2, <2>1, <2>2 DEF SpawnFails, Returned, data, child, CallStage, StreamStage
<1>3. CASE Create
  <2>1. PICK failed \in SUBSET Streams :
          /\ thread' = [p \in Streams |-> IF p \in failed THEN "failed" ELSE "running"]
          /\ Closed(failed)
    BY <1>3 DEF Create, Abandoned
  <2>2. \A p \in Streams :
          /\ writers'[p] \in SUBSET {"h3", "ffmpeg"}
          /\ closes'[p] \in 0 .. 1 /\ (closes'[p] = 1 <=> "h3" \notin writers'[p])
          /\ p \in failed => closes'[p] = 1
          /\ p \notin failed => closes'[p] = closes[p]
          /\ writers'[p] \subseteq writers[p]
    BY <1>3, <2>1, ClosedEffect DEF Create, CallStage
  <2>3. TypeOK'
    BY <1>3, <2>1, <2>2 DEF Create, data, child, TypeOK
  <2>4. CallStage'
    BY <1>3, <2>1, <2>2 DEF Create, data, child, CallStage
  <2>5. StreamStage'
    BY <1>3, <2>1, <2>2 DEF Create, data, child, StreamStage, CallStage, Eof
  <2> QED
    BY <2>3, <2>4, <2>5
<1>4. CASE Join
  <2>1. TypeOK'
    BY <1>4 DEF Join, data, child, TypeOK
  <2> QED
    BY <1>4, <2>1 DEF Join, Joined, data, child, CallStage, StreamStage, Eof
<1>5. CASE Wait
  <2>1. TypeOK'
    BY <1>5 DEF Wait, Returned, data, child, TypeOK
  <2>2. \A p \in Streams : thread[p] \in {"ended", "failed"}
    BY <1>5 DEF Wait, CallStage, TypeOK
  <2>3. CallStage'
    BY <1>5, <2>2 DEF Wait, Returned, data, child, CallStage
  <2>4. StreamStage'
    BY <1>5, <2>2 DEF Wait, Returned, Whole, data, child, CallStage, StreamStage, Eof
  <2> QED
    BY <2>1, <2>3, <2>4
<1> QED
  BY <1>1, <1>2, <1>3, <1>4, <1>5 DEF Caller

\* The end of a stream, with or without an error.
LEMMA ThreadKeeps == ASSUME Inv, NEW p \in Streams, Thread(p) \/ WriteErrs(p) PROVE Inv'
<1> USE DEF Inv
<1>1. thread[p] = "running" /\ pc = "join" /\ closes[p] = 0 /\ result = "none"
  BY DEF Thread, Write, WriteFails, WriteErrs, AllWritten, GivesUp, CallStage, TypeOK
<1>2. CASE Write(p)
  <2>1. PICK n \in 1 .. Cap - pipe[p] :
          /\ n <= left[p]
          /\ left' = [left EXCEPT ![p] = @ - n] /\ pipe' = [pipe EXCEPT ![p] = @ + n]
    BY <1>2 DEF Write
  <2>2. TypeOK'
    <3>1. left[p] - n \in Nat /\ pipe[p] + n \in 0 .. Cap
      BY <2>1 DEF TypeOK
    <3>2. left' \in [Streams -> Nat] /\ pipe' \in [Streams -> 0 .. Cap]
      BY <2>1, <3>1 DEF TypeOK
    <3>3. ASSUME NEW q \in Streams PROVE got[q] + pipe'[q] + left'[q] = Total[q]
      <4>1. CASE q = p
        BY <2>1, <4>1 DEF TypeOK
      <4>2. CASE q # p
        BY <2>1, <4>2 DEF TypeOK
      <4> QED
        BY <4>1, <4>2
    <3> QED
      BY <1>2, <3>2, <3>3 DEF Write, child, TypeOK
  <2>3. CallStage' /\ StreamStage'
    BY <1>1, <1>2, <2>1 DEF Write, child, CallStage, StreamStage, Eof
  <2> QED
    BY <2>2, <2>3
<1>3. CASE GivesUp(p) \/ AllWritten(p)
  <2>1. /\ thread' = [thread EXCEPT ![p] = "ended"] /\ Closed({p})
        /\ UNCHANGED <<pc, left, pipe, ignored, ffmpeg, want, got, result>>
        /\ \/ wrong' = [wrong EXCEPT ![p] = TRUE]
           \/ UNCHANGED wrong /\ left[p] = 0
    BY <1>3 DEF GivesUp, AllWritten, data, child
  <2>2. \A q \in Streams :
          /\ writers'[q] \in SUBSET {"h3", "ffmpeg"}
          /\ closes'[q] \in 0 .. 1 /\ (closes'[q] = 1 <=> "h3" \notin writers'[q])
          /\ q = p => closes'[q] = 1
          /\ q # p => closes'[q] = closes[q]
          /\ writers'[q] \subseteq writers[q]
    BY <1>1, <2>1, ClosedEffect
  <2>3. TypeOK'
    BY <2>1, <2>2 DEF TypeOK
  <2>4. thread'[p] = "ended" /\ \A q \in Streams \ {p} : thread'[q] = thread[q]
    BY <2>1 DEF TypeOK
  <2>5. CallStage'
    BY <1>1, <2>1, <2>2, <2>4 DEF CallStage
  <2>6. StreamStage'
    BY <1>1, <2>1, <2>2, <2>4 DEF StreamStage, Eof, TypeOK
  <2> QED
    BY <2>3, <2>5, <2>6
<1> QED
  BY <1>2, <1>3 DEF Thread, WriteFails, WriteErrs

LEMMA FfmpegKeeps == ASSUME Inv, Ffmpeg \/ Exits("bad") PROVE Inv'
<1> USE DEF Inv
<1>1. result = "none" /\ pc # "returned" /\ ffmpeg = "running"
  BY DEF Ffmpeg, Reads, Turns, Exits, CallStage
<1>2. CASE Reads
  <2>1. PICK n \in 1 .. pipe[want] :
          /\ pipe' = [pipe EXCEPT ![want] = @ - n]
          /\ got' = [got EXCEPT ![want] = @ + n]
    BY <1>2 DEF Reads
  <2>2. TypeOK'
    <3>1. pipe[want] - n \in 0 .. Cap /\ got[want] + n \in Nat /\ want \in Streams
      BY <2>1 DEF TypeOK
    <3>2. got' \in [Streams -> Nat] /\ pipe' \in [Streams -> 0 .. Cap]
      BY <2>1, <3>1 DEF TypeOK
    <3>3. ASSUME NEW q \in Streams PROVE got'[q] + pipe'[q] + left[q] = Total[q]
      <4>1. CASE q = want
        BY <2>1, <4>1 DEF TypeOK
      <4>2. CASE q # want
        BY <2>1, <4>2 DEF TypeOK
      <4> QED
        BY <4>1, <4>2
    <3> QED
      BY <1>2, <3>2, <3>3 DEF Reads, TypeOK
  <2> QED
    BY <1>1, <1>2, <2>2 DEF Reads, CallStage, StreamStage
<1>3. CASE Turns
  BY <1>1, <1>3 DEF Turns, data, TypeOK, CallStage, StreamStage
<1>4. CASE Exits("ok") \/ Exits("bad")
  <2>1. TypeOK' /\ CallStage'
    BY <1>1, <1>4 DEF Exits, data, TypeOK, CallStage
  <2>2. StreamStage'
    BY <1>1, <1>4 DEF Exits, data, StreamStage, Eof
  <2> QED
    BY <2>1, <2>2
<1> QED
  BY <1>2, <1>3, <1>4 DEF Ffmpeg

\* Who owns which end of which pipe, in every reachable state.
THEOREM Invariance == Spec => []Inv
<1>1. Init => Inv
  BY Start
<1>2. Inv /\ [Next]_vars => Inv'
  <2>1. Inv /\ UNCHANGED vars => Inv'
    BY DEF Inv, vars, TypeOK, CallStage, StreamStage, Eof
  <2> QED
    BY <2>1, CallerKeeps, ThreadKeeps, FfmpegKeeps DEF Next
<1> QED
  BY <1>1, <1>2, PTL DEF Spec

\* Every variable stays in its type, and no block is lost between the writer, the
\* pipe and the reader.
THEOREM TypeCorrect == Spec => []TypeOK
<1>1. Inv => TypeOK
  BY DEF Inv
<1> QED
  BY <1>1, Invariance, PTL

\* A call that returns success has handed over both streams whole.
THEOREM WholeOnSuccess == Spec => []SuccessIsWhole
<1>1. ASSUME Inv, result = "ok" PROVE ffmpeg = "ok" /\ got = Total
  <2>1. \A p \in Streams : left[p] = 0 /\ pipe[p] = 0
    BY <1>1 DEF Inv, StreamStage, Eof
  <2>2. \A p \in Streams : got[p] = Total[p]
    BY <1>1, <2>1 DEF Inv, TypeOK
  <2> QED
    BY <1>1, <2>2 DEF Inv, StreamStage, TypeOK
<1>2. Inv => SuccessIsWhole
  BY <1>1 DEF SuccessIsWhole
<1> QED
  BY <1>2, Invariance, PTL

\* SIGPIPE is ignored as long as a thread may write.
THEOREM SurvivesFfmpeg == Spec => []NeverKilled
<1>1. Inv => NeverKilled
  BY DEF Inv, CallStage, NeverKilled
<1> QED
  BY <1>1, Invariance, PTL

\* No descriptor and no process outlives the call.
THEOREM ClosedOnce == Spec => []NothingLeft
<1>1. Inv => NothingLeft
  BY DEF Inv, CallStage, NothingLeft
<1> QED
  BY <1>1, Invariance, PTL

\* The caller survives FFmpeg, and nothing is left behind.
THEOREM CallerStaysIntact == Spec => []CallerIntact
<1>1. NeverKilled /\ NothingLeft => CallerIntact
  BY DEF CallerIntact
<1> QED
  BY <1>1, SurvivesFfmpeg, ClosedOnce, PTL
=============================================================================
