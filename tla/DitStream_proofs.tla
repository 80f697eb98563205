-------------------------- MODULE DitStream_proofs --------------------------
(***************************************************************************)
(* The DiT streamed from disk, for any number of blocks, any active        *)
(* subset, any denoising schedule and any sequence of runs and failures.   *)
(***************************************************************************)
EXTENDS DitStream, TLAPS

USE DitBlocksAssumption, DitStreamAssumption

IInv == TypeOK /\ Inv

(***************************************************************************)
(* The order of the blocks.                                                *)
(***************************************************************************)
\* There is one first active block.
LEMMA FirstUnique ==
  \A a, b \in FirstActive : a = b /\ a \in Active /\ a \in 0 .. NBlocks - 1
  BY DEF FirstActive, Least

\* What follows a block is one block: an active one, or the end.
LEMMA NextUnique ==
  ASSUME NEW c \in Int
  PROVE  \A a, b \in NextActive(c) :
           a = b /\ a \in Layers /\ (a # NBlocks => a \in Active)
  BY DEF NextActive, Least, Layers

\* What is prefetched is the block that the loop reaches next, and the first of the
\* next pass when it reaches the end.
LEMMA FutureIsNext ==
  ASSUME block \in Active,
         NEW f \in Future, NEW n \in NextActive(block)
  PROVE  IF n = NBlocks THEN f \in FirstActive ELSE f = n
  BY NextUnique DEF Future

\* Only active blocks are prefetched.
LEMMA FutureActive == ASSUME block \in Active PROVE Future \subseteq Active
  BY NextUnique, FirstUnique DEF Future

(***************************************************************************)
(* Types.                                                                  *)
(***************************************************************************)
\* The initial values have their types.
LEMMA InitTyped == Init => TypeOK
<1> SUFFICES ASSUME Init PROVE TypeOK OBVIOUS
<1> USE DEF Init, Layers, Slots, Torn
<1>1. residual \in Nat \X Nat /\ trace \in Seq(SUBSET Layers) OBVIOUS
<1>2. job \in [layer : Layers, slot : Slots, ok : BOOLEAN] BY DEF NoJob
<1>3. run \in 0 .. MaxRuns OBVIOUS
<1>4. slot \in [Slots -> [Matrices -> Layers]] OBVIOUS
<1>5. QED BY <1>1, <1>2, <1>3, <1>4 DEF TypeOK

\* So have those the host thread and the session assign.
LEMMA HostTyped ==
  ASSUME TypeOK, Host \/ Session
  PROVE  TypeOK'
<1> USE DEF TypeOK, Layers, Slots, Torn, Goto, passVars, readyVars, threadVars, gpuVars
<1>1. CASE BeginDenoise BY <1>1 DEF BeginDenoise
<1>2. CASE SkipStep BY <1>2 DEF SkipStep
<1>3. CASE ReuseStep BY <1>3 DEF ReuseStep
<1>4. CASE BeginPass
  <2>1. block' \in Layers BY <1>4, FirstUnique DEF BeginPass
  <2>2. QED BY <1>4, <2>1, SMTT(30) DEF BeginPass
<1>5. CASE EndDenoise BY <1>5 DEF EndDenoise
<1>6. CASE StartPrefetch
  <2>1. Future \subseteq Layers BY FirstUnique, NextUnique DEF Future
  <2>2. OtherSlot \in Slots BY DEF OtherSlot
  <2>3. QED BY <1>6, <2>1, <2>2 DEF StartPrefetch
<1>7. CASE RunBlock BY <1>7 DEF RunBlock
<1>8. CASE RunBlockFails BY <1>8 DEF RunBlockFails
<1>9. CASE Submit
  <2>1. trace' \in Seq(SUBSET Layers) BY <1>9 DEF Submit
  <2>2. pc' = "join" /\ UNCHANGED <<passVars, block, slot, readyVars, threadVars, gpuVars>>
    BY <1>9 DEF Submit
  <2>3. QED BY <2>1, <2>2
<1>10. CASE SubmitFails BY <1>10 DEF SubmitFails
<1>11. CASE Join
  <2>1. block' \in Layers BY <1>11, NextUnique DEF Join
  <2>2. QED BY <1>11, <2>1 DEF Join
<1>12. CASE FailJoin BY <1>12 DEF FailJoin
<1>13. CASE EndPass BY <1>13, SMTT(30) DEF EndPass
<1>14. CASE Fails BY <1>14 DEF Fails
<1>15. CASE Free BY <1>15 DEF Free
<1>16. CASE Load
  <2>1. run' \in 0 .. MaxRuns BY <1>16 DEF Load
  <2>2. readyLayer' \in 0 .. NBlocks /\ slot' \in [Slots -> [Matrices -> 0 .. NBlocks]]
    BY <1>16, FirstUnique DEF Load
  <2>3. QED BY <1>16, <2>1, <2>2 DEF Load
<1>17. CASE ResetRun
  <2>1. run' \in 0 .. MaxRuns BY <1>17 DEF ResetRun
  <2>2. QED BY <1>17, <2>1 DEF ResetRun
<1>18. CASE Keep BY <1>18 DEF Keep
<1>19. QED
  BY <1>1, <1>2, <1>3, <1>4, <1>5, <1>6, <1>7, <1>8, <1>9, <1>10, <1>11, <1>12, <1>13,
     <1>14, <1>15, <1>16, <1>17, <1>18 DEF Host, Session

\* So have those the reading thread and the GPU assign.
LEMMA ReaderTyped ==
  ASSUME TypeOK, Reader \/ Gpu
  PROVE  TypeOK'
<1> USE DEF TypeOK, Layers, Slots, Torn, passVars, readyVars, threadVars, gpuVars
<1>1. CASE ReadFails BY <1>1 DEF ReadFails
<1>2. ASSUME NEW m \in Matrices, ReadBegins(m) PROVE TypeOK'
  BY <1>2 DEF ReadBegins
<1>3. ASSUME NEW m \in Matrices, ReadEnds(m) PROVE TypeOK'
  BY <1>3 DEF ReadEnds
<1>4. ASSUME NEW m \in Matrices, GpuUses(m) PROVE TypeOK'
  <2>1. slot[gpuSlot][m] \in 0 .. NBlocks OBVIOUS
  <2>2. pending' \in SUBSET Matrices /\ used' \in SUBSET (0 .. NBlocks)
    BY <1>4, <2>1 DEF GpuUses
  <2>3. UNCHANGED <<pc, passVars, trace, block, slot, readyVars, threadVars, gpuSlot>>
    BY <1>4 DEF GpuUses
  <2>4. QED BY <2>2, <2>3, SMTT(30)
<1>5. QED BY <1>1, <1>2, <1>3, <1>4 DEF Reader, Gpu

\* Every variable keeps its type.
THEOREM TypeCorrect == Spec => []TypeOK
<1>1. TypeOK /\ [Next]_vars => TypeOK'
  <2>1. CASE UNCHANGED vars
    BY <2>1 DEF TypeOK, vars, passVars, readyVars, threadVars, gpuVars
  <2>2. QED BY <2>1, HostTyped, ReaderTyped DEF Next
<1>2. QED BY <1>1, InitTyped, PTL DEF Spec

(***************************************************************************)
(* The invariant.                                                          *)
(***************************************************************************)
\* The slot that is ready holds the block to come, or the one that runs.
LEMMA ReadyStep ==
  ASSUME TypeOK, Inv, Next
  PROVE  ReadyInv'
<1> USE DEF TypeOK, Inv, ReadyInv, ThreadInv, Whole, Streaming, OtherSlot, Slots, Goto, passVars, readyVars, threadVars, gpuVars
<1>1. CASE BeginDenoise BY <1>1 DEF BeginDenoise
<1>2. CASE SkipStep BY <1>2 DEF SkipStep
<1>3. CASE ReuseStep BY <1>3 DEF ReuseStep
<1>4. CASE BeginPass
  BY <1>4, FirstUnique DEF BeginPass
<1>5. CASE EndDenoise BY <1>5 DEF EndDenoise
<1>6. CASE StartPrefetch BY <1>6 DEF StartPrefetch
<1>7. CASE RunBlock BY <1>7 DEF RunBlock
<1>8. CASE RunBlockFails BY <1>8 DEF RunBlockFails
<1>9. CASE Submit BY <1>9 DEF Submit
<1>10. CASE SubmitFails BY <1>10 DEF SubmitFails
<1>11. CASE Join
  <2>1. CASE ~job.ok BY <1>11, <2>1 DEF Join
  <2>2. CASE job.ok
    <3>1. /\ block \in Active /\ job.layer \in Future /\ block' \in NextActive(block)
          /\ readyLayer' = job.layer /\ readySlot' = job.slot /\ slot' = slot
          /\ pc' = IF block' = NBlocks THEN "tail" ELSE "block"
      BY <1>11, <2>2 DEF Join
    <3>2. \A m \in Matrices : slot[job.slot][m] = job.layer
      BY <1>11, <2>2 DEF Join, ThreadEnded
    
    <3>3. IF block' = NBlocks THEN job.layer \in FirstActive ELSE job.layer = block'
      BY <3>1, FutureIsNext
    <3>4. block' # NBlocks => block' \in Active BY <3>1, NextUnique
    <3>5. CASE block' = NBlocks
      BY <3>1, <3>2, <3>3, <3>5
    <3>7. CASE block' # NBlocks
      BY <3>1, <3>2, <3>3, <3>4, <3>7
    <3>8. QED BY <3>5, <3>7
  <2>3. QED BY <2>1, <2>2
<1>12. CASE FailJoin BY <1>12 DEF FailJoin
<1>13. CASE EndPass BY <1>13 DEF EndPass
<1>14. CASE Fails BY <1>14 DEF Fails
<1>15. CASE Free BY <1>15 DEF Free
<1>16. CASE Load BY <1>16 DEF Load
<1>17. CASE ResetRun BY <1>17 DEF ResetRun
<1>18. CASE Keep BY <1>18 DEF Keep
<1>19. CASE ReadFails BY <1>19 DEF ReadFails
<1>20. ASSUME NEW m \in Matrices, ReadBegins(m) PROVE ReadyInv'
  BY <1>20 DEF ReadBegins
<1>21. ASSUME NEW m \in Matrices, ReadEnds(m) PROVE ReadyInv'
  BY <1>21 DEF ReadEnds
<1>22. ASSUME NEW m \in Matrices, GpuUses(m) PROVE ReadyInv'
  BY <1>22 DEF GpuUses
<1>23. QED
  BY <1>1, <1>2, <1>3, <1>4, <1>5, <1>6, <1>7, <1>8, <1>9, <1>10, <1>11, <1>12,
     <1>13, <1>14, <1>15, <1>16, <1>17, <1>18, <1>19, <1>20, <1>21, <1>22 DEF Next,
     Host, Session, Reader, Gpu

\* The thread fills the other slot, and lives no longer than the loop body.
LEMMA ThreadStep ==
  ASSUME TypeOK, Inv, Next
  PROVE  ThreadInv'
<1> USE DEF TypeOK, Inv, ReadyInv, ThreadInv, Streaming, OtherSlot, Future, Slots, ThreadEnded, Goto, passVars, readyVars, threadVars, gpuVars
<1>1. CASE BeginDenoise BY <1>1 DEF BeginDenoise
<1>2. CASE SkipStep BY <1>2 DEF SkipStep
<1>3. CASE ReuseStep BY <1>3 DEF ReuseStep
<1>4. CASE BeginPass BY <1>4 DEF BeginPass
<1>5. CASE EndDenoise BY <1>5 DEF EndDenoise
<1>6. CASE StartPrefetch BY <1>6 DEF StartPrefetch
<1>7. CASE RunBlock BY <1>7 DEF RunBlock
<1>8. CASE RunBlockFails BY <1>8 DEF RunBlockFails
<1>9. CASE Submit BY <1>9 DEF Submit
<1>10. CASE SubmitFails BY <1>10 DEF SubmitFails
<1>11. CASE Join BY <1>11 DEF Join
<1>12. CASE FailJoin BY <1>12 DEF FailJoin
<1>13. CASE EndPass BY <1>13 DEF EndPass
<1>14. CASE Fails BY <1>14 DEF Fails
<1>15. CASE Free BY <1>15 DEF Free
<1>16. CASE Load BY <1>16 DEF Load
<1>17. CASE ResetRun BY <1>17 DEF ResetRun
<1>18. CASE Keep BY <1>18 DEF Keep
<1>19. CASE ReadFails BY <1>19 DEF ReadFails
<1>20. ASSUME NEW m \in Matrices, ReadBegins(m) PROVE ThreadInv'
  BY <1>20 DEF ReadBegins
<1>21. ASSUME NEW m \in Matrices, ReadEnds(m) PROVE ThreadInv'
  BY <1>21 DEF ReadEnds
<1>22. ASSUME NEW m \in Matrices, GpuUses(m) PROVE ThreadInv'
  BY <1>22 DEF GpuUses
<1>23. QED
  BY <1>1, <1>2, <1>3, <1>4, <1>5, <1>6, <1>7, <1>8, <1>9, <1>10, <1>11, <1>12,
     <1>13, <1>14, <1>15, <1>16, <1>17, <1>18, <1>19, <1>20, <1>21, <1>22 DEF Next,
     Host, Session, Reader, Gpu

\* What the GPU has still to execute finds its own weights.
LEMMA GpuStep ==
  ASSUME TypeOK, Inv, Next
  PROVE  GpuInv'
<1> USE DEF TypeOK, Inv, ReadyInv, ThreadInv, GpuInv, OwnWeights, Executed, Whole, Streaming, OtherSlot, Slots, Goto, passVars, readyVars, threadVars, gpuVars
<1>1. CASE BeginDenoise BY <1>1 DEF BeginDenoise
<1>2. CASE SkipStep BY <1>2 DEF SkipStep
<1>3. CASE ReuseStep BY <1>3 DEF ReuseStep
<1>4. CASE BeginPass BY <1>4 DEF BeginPass
<1>5. CASE EndDenoise BY <1>5 DEF EndDenoise
<1>6. CASE StartPrefetch BY <1>6 DEF StartPrefetch
<1>7. CASE RunBlock BY <1>7 DEF RunBlock
<1>8. CASE RunBlockFails BY <1>8 DEF RunBlockFails
<1>9. CASE Submit BY <1>9 DEF Submit
<1>10. CASE SubmitFails BY <1>10 DEF SubmitFails
<1>11. CASE Join BY <1>11 DEF Join
<1>12. CASE FailJoin BY <1>12 DEF FailJoin
<1>13. CASE EndPass BY <1>13 DEF EndPass
<1>14. CASE Fails BY <1>14 DEF Fails
<1>15. CASE Free BY <1>15 DEF Free
<1>16. CASE Load BY <1>16 DEF Load
<1>17. CASE ResetRun BY <1>17 DEF ResetRun
<1>18. CASE Keep BY <1>18 DEF Keep
<1>19. CASE ReadFails BY <1>19 DEF ReadFails
<1>20. ASSUME NEW m \in Matrices, ReadBegins(m) PROVE GpuInv'
  BY <1>20 DEF ReadBegins
<1>21. ASSUME NEW m \in Matrices, ReadEnds(m) PROVE GpuInv'
  BY <1>21 DEF ReadEnds
<1>22. ASSUME NEW m \in Matrices, GpuUses(m) PROVE GpuInv'
  BY <1>22 DEF GpuUses
<1>23. QED
  BY <1>1, <1>2, <1>3, <1>4, <1>5, <1>6, <1>7, <1>8, <1>9, <1>10, <1>11, <1>12,
     <1>13, <1>14, <1>15, <1>16, <1>17, <1>18, <1>19, <1>20, <1>21, <1>22 DEF Next,
     Host, Session, Reader, Gpu

\* The loop visits the blocks in their order.
LEMMA TraceStep ==
  ASSUME TypeOK, Inv, Next
  PROVE  TraceInv'
<1> USE DEF TypeOK, Inv, ReadyInv, GpuInv, TraceInv, Streaming, Following, Executed, Goto, passVars, readyVars, threadVars, gpuVars
<1>1. CASE BeginDenoise BY <1>1 DEF BeginDenoise
<1>2. CASE SkipStep BY <1>2 DEF SkipStep
<1>3. CASE ReuseStep BY <1>3 DEF ReuseStep
<1>4. CASE BeginPass BY <1>4 DEF BeginPass
<1>5. CASE EndDenoise BY <1>5 DEF EndDenoise
<1>6. CASE StartPrefetch BY <1>6 DEF StartPrefetch
<1>7. CASE RunBlock BY <1>7 DEF RunBlock
<1>8. CASE RunBlockFails BY <1>8 DEF RunBlockFails
<1>9. CASE Submit BY <1>9 DEF Submit
<1>10. CASE SubmitFails BY <1>10 DEF SubmitFails
<1>11. CASE Join BY <1>11 DEF Join
<1>12. CASE FailJoin BY <1>12 DEF FailJoin
<1>13. CASE EndPass BY <1>13 DEF EndPass
<1>14. CASE Fails BY <1>14 DEF Fails
<1>15. CASE Free BY <1>15 DEF Free
<1>16. CASE Load BY <1>16 DEF Load
<1>17. CASE ResetRun BY <1>17 DEF ResetRun
<1>18. CASE Keep BY <1>18 DEF Keep
<1>19. CASE ReadFails BY <1>19 DEF ReadFails
<1>20. ASSUME NEW m \in Matrices, ReadBegins(m) PROVE TraceInv'
  BY <1>20 DEF ReadBegins
<1>21. ASSUME NEW m \in Matrices, ReadEnds(m) PROVE TraceInv'
  BY <1>21 DEF ReadEnds
<1>22. ASSUME NEW m \in Matrices, GpuUses(m) PROVE TraceInv'
  BY <1>22 DEF GpuUses
<1>23. QED
  BY <1>1, <1>2, <1>3, <1>4, <1>5, <1>6, <1>7, <1>8, <1>9, <1>10, <1>11, <1>12,
     <1>13, <1>14, <1>15, <1>16, <1>17, <1>18, <1>19, <1>20, <1>21, <1>22 DEF Next,
     Host, Session, Reader, Gpu

\* The remainder of a number that is no multiple is one more than the one before.
LEMMA Remainder ==
  ASSUME NEW n \in Nat \ {0}, NEW k \in Nat \ {0}, n % k # 0
  PROVE  n % k = ((n - 1) % k) + 1
<1>1. n = k * (n \div k) + (n % k) /\ n % k \in 0 .. k - 1 /\ n \div k \in Int
  BY SMTT(30)
<1>2. n - 1 = k * (n \div k) + ((n % k) - 1) /\ (n % k) - 1 \in 0 .. k - 1
  BY <1>1
<1>3. ASSUME NEW q \in Int, NEW r \in 0 .. k - 1, NEW x \in Int, x = k * q + r
      PROVE  x % k = r
  BY <1>3, SMTT(30)
<1>4. (n - 1) % k = (n % k) - 1
  <2>1. n \div k \in Int /\ n - 1 \in Int BY <1>1
  <2>2. QED BY <1>2, <1>3, <2>1, ZenonT(60)
<1>5. QED BY <1>1, <1>4

\* A residual belongs to the run, and is recent.
LEMMA ResidualStep ==
  ASSUME TypeOK, Inv, Next
  PROVE  ResidualInv'
<1> USE DEF TypeOK, Inv, ResidualInv, Goto, passVars, readyVars, threadVars, gpuVars
<1>1. CASE BeginDenoise BY <1>1 DEF BeginDenoise
<1>2. CASE SkipStep BY <1>2 DEF SkipStep
<1>3. CASE ReuseStep
  <2>1. ready /\ count % Interval # 0 /\ count' = count + 1 /\ UNCHANGED <<ready, residual, run>>
    BY <1>3 DEF ReuseStep, EvaluateCore
  <2>2. residual[2] \in Nat /\ count \in Nat \ {0}
    BY <2>1
  <2>3. count % Interval = ((count - 1) % Interval) + 1
    BY <2>1, <2>2, Remainder
  <2>4. QED BY <2>1, <2>2, <2>3
<1>4. CASE BeginPass BY <1>4 DEF BeginPass
<1>5. CASE EndDenoise BY <1>5 DEF EndDenoise
<1>6. CASE StartPrefetch BY <1>6 DEF StartPrefetch
<1>7. CASE RunBlock BY <1>7 DEF RunBlock
<1>8. CASE RunBlockFails BY <1>8 DEF RunBlockFails
<1>9. CASE Submit BY <1>9 DEF Submit
<1>10. CASE SubmitFails BY <1>10 DEF SubmitFails
<1>11. CASE Join BY <1>11 DEF Join
<1>12. CASE FailJoin BY <1>12 DEF FailJoin
<1>13. CASE EndPass
  <2>1. count % Interval \in 0 .. Interval - 1
    BY SMTT(30)
  <2>2. CASE ready'
    <3>1. Interval > 1 BY <1>13, <2>2 DEF EndPass
    <3>2. residual' = <<run, count>> /\ count' = count + 1 /\ run' = run
      BY <1>13, <3>1 DEF EndPass
    <3>3. QED BY <2>1, <3>1, <3>2
  <2>3. QED BY <2>2
<1>14. CASE Fails BY <1>14 DEF Fails
<1>15. CASE Free BY <1>15 DEF Free
<1>16. CASE Load BY <1>16 DEF Load
<1>17. CASE ResetRun BY <1>17 DEF ResetRun
<1>18. CASE Keep BY <1>18 DEF Keep
<1>19. CASE ReadFails BY <1>19 DEF ReadFails
<1>20. ASSUME NEW m \in Matrices, ReadBegins(m) PROVE ResidualInv'
  BY <1>20 DEF ReadBegins
<1>21. ASSUME NEW m \in Matrices, ReadEnds(m) PROVE ResidualInv'
  BY <1>21 DEF ReadEnds
<1>22. ASSUME NEW m \in Matrices, GpuUses(m) PROVE ResidualInv'
  BY <1>22 DEF GpuUses
<1>23. QED
  BY <1>1, <1>2, <1>3, <1>4, <1>5, <1>6, <1>7, <1>8, <1>9, <1>10, <1>11, <1>12,
     <1>13, <1>14, <1>15, <1>16, <1>17, <1>18, <1>19, <1>20, <1>21, <1>22 DEF Next,
     Host, Session, Reader, Gpu

\* The invariant holds at first.
LEMMA InitInv == Init => Inv
  BY DEF Init, Inv, ReadyInv, ThreadInv, GpuInv, OwnWeights, TraceInv, ResidualInv, Streaming

\* Every step preserves it.
LEMMA InvStep == TypeOK /\ Inv /\ [Next]_vars => Inv'
<1>1. CASE UNCHANGED vars
  BY <1>1 DEF Inv, ReadyInv, ThreadInv, GpuInv, OwnWeights, TraceInv, ResidualInv, Whole,
     Following, Future, OtherSlot, vars, passVars, readyVars, threadVars, gpuVars
<1>2. CASE Next
  BY <1>2, ReadyStep, ThreadStep, GpuStep, TraceStep, ResidualStep DEF Inv
<1>3. QED BY <1>1, <1>2

\* The invariant of the stream holds in every reachable state.
THEOREM Invariance == Spec => []Inv
<1>1. TypeOK /\ Inv /\ [Next]_vars => Inv' BY InvStep
<1>2. QED BY <1>1, InitInv, TypeCorrect, PTL DEF Spec

\* The GPU always finds the weights of the block it was given.
THEOREM GpuFindsOwnWeights == Spec => []OwnWeights
<1>1. Inv => OwnWeights BY DEF Inv, GpuInv
<1>2. QED BY <1>1, Invariance, PTL

\* Thread and GPU are never on the same slot.
THEOREM RaceFree == Spec => []NoDataRace
<1>1. TypeOK /\ Inv => NoDataRace
  BY DEF TypeOK, Inv, ThreadInv, GpuInv, NoDataRace, OtherSlot, Slots, Streaming
<1>2. QED BY <1>1, TypeCorrect, Invariance, PTL

\* The error for an unexpected block is unreachable.
THEOREM AlwaysExpected == Spec => []ExpectedBlock
<1>1. Inv => ExpectedBlock BY DEF Inv, ReadyInv, ExpectedBlock
<1>2. QED BY <1>1, Invariance, PTL

\* The thread never outlives the loop body whose locals it uses.
THEOREM ThreadScoped == Spec => []ReaderScoped
<1>1. Inv => ReaderScoped BY DEF Inv, ThreadInv, ReaderScoped, Streaming
<1>2. QED BY <1>1, Invariance, PTL

\* A reused residual is of this run and recent.
THEOREM ResidualFresh == Spec => []FreshResidual
<1>1. TypeOK /\ Inv => FreshResidual
  <2>1. SUFFICES ASSUME TypeOK, ResidualInv, ready, count % Interval # 0
                 PROVE  residual[1] = run /\ count - residual[2] \in 1 .. Interval - 1
    BY DEF Inv, FreshResidual, EvaluateCore
  <2>2. count \in Nat \ {0} /\ residual[2] \in Nat /\ residual[2] < count
    BY <2>1 DEF TypeOK, ResidualInv
  <2>3. count % Interval = ((count - 1) % Interval) + 1
    BY <2>1, <2>2, Remainder
  <2>4. count % Interval \in 0 .. Interval - 1
    BY <2>2, SMTT(30)
  <2>5. QED BY <2>1, <2>2, <2>3, <2>4 DEF ResidualInv
<1>2. QED BY <1>1, TypeCorrect, Invariance, PTL

(***************************************************************************)
(* Streaming implements resident weights.                                  *)
(***************************************************************************)
\* The initial states agree.
LEMMA InitCore == Init => Core!Init
  BY DEF Init, Core!Init, Stage

\* Every step is a step of the resident DiT, or changes nothing it keeps.
LEMMA StepCore ==
  ASSUME TypeOK, Inv, Inv', Next
  PROVE  Core!Next \/ UNCHANGED Core!vars
<1> USE DEF Stage, Goto, passVars, readyVars, threadVars, gpuVars, Core!vars
<1>1. CASE BeginDenoise
  <2>1. Core!Begin BY <1>1 DEF BeginDenoise, Core!Begin
  <2>2. QED BY <2>1 DEF Core!Next
<1>2. CASE SkipStep
  <2>1. Core!Skip BY <1>2 DEF SkipStep, Core!Skip
  <2>2. QED BY <2>1 DEF Core!Next
<1>3. CASE ReuseStep
  <2>1. Core!Reuse
    BY <1>3 DEF ReuseStep, Core!Reuse, Core!Evaluates, EvaluateCore, Core!EvaluateCore,
       LastStep, Core!LastStep
  <2>2. QED BY <2>1 DEF Core!Next
<1>4. CASE BeginPass
  <2>1. Core!Evaluate
    BY <1>4 DEF BeginPass, Core!Evaluate, Core!Evaluates, EvaluateCore, Core!EvaluateCore,
       LastStep, Core!LastStep
  <2>2. QED BY <2>1 DEF Core!Next
<1>5. CASE EndDenoise
  <2>1. Core!EndRun BY <1>5 DEF EndDenoise, Core!EndRun
  <2>2. QED BY <2>1 DEF Core!Next
<1>6. CASE StartPrefetch BY <1>6 DEF StartPrefetch
<1>7. CASE RunBlock BY <1>7 DEF RunBlock
<1>8. CASE RunBlockFails BY <1>8 DEF RunBlockFails
<1>9. CASE Submit
  <2>1. used = {block} /\ block \in Active /\ block \in Following
    BY <1>9 DEF Submit, Executed, Inv, GpuInv, ReadyInv, TraceInv, Streaming
  <2>2. block \in Core!Following(trace) \cap Active
    BY <2>1 DEF Following, Core!Following, FirstActive, Core!FirstActive, NextActive,
       Core!NextActive, Least, Core!Least
  <2>3. trace' = Append(trace, {block}) BY <1>9, <2>1 DEF Submit
  <2>4. Core!Block BY <1>9, <2>2, <2>3 DEF Submit, Core!Block
  <2>5. QED BY <2>4 DEF Core!Next
<1>10. CASE SubmitFails BY <1>10 DEF SubmitFails
<1>11. CASE Join
  <2>1. CASE ~job.ok
    <3>1. Core!Lose BY <1>11, <2>1 DEF Join, Core!Lose
    <3>2. QED BY <3>1 DEF Core!Next
  <2>2. CASE job.ok BY <1>11, <2>2 DEF Join
  <2>3. QED BY <2>1, <2>2
<1>12. CASE FailJoin
  <2>1. Core!Lose BY <1>12 DEF FailJoin, Core!Lose
  <2>2. QED BY <2>1 DEF Core!Next
<1>13. CASE EndPass
  <2>1. NBlocks \in Core!Following(trace)
    BY <1>13 DEF EndPass, Inv, TraceInv, Following, Core!Following, FirstActive,
       Core!FirstActive, NextActive, Core!NextActive, Least, Core!Least
  <2>2. Core!EndPass BY <1>13, <2>1 DEF EndPass, Core!EndPass
  <2>3. QED BY <2>2 DEF Core!Next
<1>14. CASE Fails
  <2>1. Core!Lose BY <1>14 DEF Fails, Core!Lose
  <2>2. QED BY <2>1 DEF Core!Next
<1>15. CASE Free
  <2>1. CASE pc = "failed" BY <1>15, <2>1 DEF Free
  <2>2. CASE pc = "idle"
    <3>1. Core!Lose BY <1>15, <2>2 DEF Free, Core!Lose
    <3>2. QED BY <3>1 DEF Core!Next
  <2>3. QED BY <1>15, <2>1, <2>2 DEF Free
<1>16. CASE Load
  <2>1. Core!Prepare BY <1>16 DEF Load, Core!Prepare
  <2>2. QED BY <2>1 DEF Core!Next
<1>17. CASE ResetRun
  <2>1. Core!Prepare BY <1>17 DEF ResetRun, Core!Prepare
  <2>2. QED BY <2>1 DEF Core!Next
<1>18. CASE Keep
  <2>1. Core!Keep BY <1>18 DEF Keep, Core!Keep
  <2>2. QED BY <2>1 DEF Core!Next
<1>19. CASE Reader BY <1>19 DEF Reader, ReadFails, ReadBegins, ReadEnds
<1>20. CASE Gpu BY <1>20 DEF Gpu, GpuUses
<1>21. QED
  BY <1>1, <1>2, <1>3, <1>4, <1>5, <1>6, <1>7, <1>8, <1>9, <1>10, <1>11, <1>12, <1>13,
     <1>14, <1>15, <1>16, <1>17, <1>18, <1>19, <1>20 DEF Next, Host, Session

\* Whatever the thread, the GPU and the failures do, the streamed DiT computes what
\* the resident one computes.
THEOREM Refinement == Spec => ImplementsCore
<1>1. TypeOK /\ Inv /\ Inv' /\ [Next]_vars => [Core!Next]_(Core!vars)
  <2>1. CASE UNCHANGED vars
    BY <2>1 DEF vars, passVars, Core!vars, Stage
  <2>2. CASE Next
    <3>1. SUFFICES ASSUME TypeOK, Inv, Inv' PROVE [Core!Next]_(Core!vars) OBVIOUS
    <3>2. QED BY <2>2, <3>1, StepCore
  <2>3. QED BY <2>1, <2>2
<1>2. QED
  BY <1>1, InitCore, TypeCorrect, Invariance, PTL DEF Spec, ImplementsCore, Core!Spec

\* The two slots of the stream are never confused, for any blocks and interleaving.
THEOREM SlotsStayIntact == Spec => []SlotsIntact
<1>1. OwnWeights /\ NoDataRace /\ ExpectedBlock /\ ReaderScoped => SlotsIntact
  BY DEF SlotsIntact
<1>2. QED
  BY <1>1, GpuFindsOwnWeights, RaceFree, AlwaysExpected, ThreadScoped, PTL
=============================================================================
