-------------------------- MODULE JobRunner_proofs --------------------------
(***************************************************************************)
(* Proofs about JobRunner, for any number of jobs, handlers and boots and  *)
(* for every choice of the switches (crashes, stops, faults, slow kill).   *)
(*                                                                         *)
(* The argument for one h3 at a time: a child is either the worker's, and  *)
(* the worker spawns only when it has none, or the child of a backend that *)
(* is gone, and then a 'running' row records it until the sweep kills it,  *)
(* before any worker exists.  Inv says this, and what it rests on: how far *)
(* the worker has got says what the child of its job can be.               *)
(***************************************************************************)
EXTENDS JobRunner, TLAPS

USE JobRunnerAssumption DEF AfterJob

(***************************************************************************)
(* Types.                                                                  *)
(***************************************************************************)
LEMMA InitType == Init => TypeOK
<1> SUFFICES ASSUME Init PROVE TypeOK OBVIOUS
<1> USE DEF Init, NoJob
<1>1. DurableOK /\ ChildOK BY DEF DurableOK, ChildOK, RowStates
<1>2. WorkerOK
  BY DEF WorkerOK, WorkerPCs, Busy, BeforeCheck, AfterCheck, Unspawned, WithChild, Terminal
<1>3. SharedOK BY DEF SharedOK
<1>4. RequestsOK BY DEF RequestsOK, HandlerPCs
<1>5. LifetimeOK BY DEF LifetimeOK, MainPCs
<1>6. lost \in SUBSET Jobs /\ gap \in SUBSET Jobs /\ due \in SUBSET Jobs OBVIOUS
<1> QED BY <1>1, <1>2, <1>3, <1>4, <1>5, <1>6 DEF TypeOK

\* A handler that starts a call is at one of its steps and holds a job.
LEMMA CallType ==
  ASSUME RequestsOK, NEW h \in Handlers, NEW j \in Jobs,
         NEW pc \in HandlerPCs, pc # "idle",
         NEW seen \in {"none", "queued", "running"}, Call(h, j, pc, seen)
  PROVE  RequestsOK'
BY DEF RequestsOK, Call, Goto, NoJob, Jobs

LEMMA ReturnType ==
  ASSUME RequestsOK, NEW h \in Handlers, Return(h)
  PROVE  RequestsOK'
BY DEF RequestsOK, Return, Goto, NoJob, HandlerPCs

\* The four ways a row is written keep the table well formed.
LEMMA SettledType ==
  ASSUME DurableOK, NEW j \in Jobs, NEW s \in RowStates
  PROVE  /\ Settled(j, s) \in [Jobs -> RowStates]
         /\ [row EXCEPT ![j] = s] \in [Jobs -> RowStates]
         /\ NoPid(j) \in [Jobs -> BOOLEAN]
BY DEF DurableOK, Settled, NoPid

LEMMA EndsType == ASSUME TypeOK, Ends PROVE TypeOK'
<1> USE DEF Ends, NoJob
<1>1. DurableOK' /\ ChildOK' BY DEF TypeOK, DurableOK, ChildOK, durable
<1>2. WorkerOK'
  BY DEF WorkerOK, WorkerPCs, Busy, BeforeCheck, AfterCheck, Unspawned, WithChild, Terminal
<1>3. SharedOK' BY DEF SharedOK
<1>4. RequestsOK' BY DEF RequestsOK, HandlerPCs
<1>5. LifetimeOK' BY DEF TypeOK, LifetimeOK, MainPCs
<1>6. lost' \in SUBSET Jobs /\ gap' \in SUBSET Jobs /\ due' \in SUBSET Jobs BY DEF TypeOK
<1> QED BY <1>1, <1>2, <1>3, <1>4, <1>5, <1>6 DEF TypeOK

LEMMA HandlerType ==
  ASSUME TypeOK, NEW h \in Handlers,
         \/ HandlerStep(h)
         \/ \E j \in Jobs : Submit(h, j) \/ CancelRead(h, j) \/ DeleteRead(h, j)
  PROVE  TypeOK'
<1> USE DEF TypeOK, durable, local, shared, requests, lifetime, history
<1>1. ASSUME NEW j \in Jobs, Submit(h, j) PROVE TypeOK'
  <2>1. DurableOK'
    BY <1>1, SettledType DEF Submit, DurableOK, RowStates
  <2>2. RequestsOK' BY <1>1, CallType DEF Submit, HandlerPCs
  <2> QED
    BY <1>1, <2>1, <2>2 DEF Submit, ChildOK, WorkerOK, SharedOK, LifetimeOK
<1>2. ASSUME NEW j \in Jobs, CancelRead(h, j) PROVE TypeOK'
  <2>1. RequestsOK' BY <1>2, CallType DEF CancelRead, HandlerPCs
  <2> QED
    BY <1>2, <2>1 DEF CancelRead, DurableOK, ChildOK, WorkerOK, SharedOK, LifetimeOK
<1>3. ASSUME NEW j \in Jobs, DeleteRead(h, j) PROVE TypeOK'
  <2>1. RequestsOK' BY <1>3, CallType DEF DeleteRead, HandlerPCs
  <2> QED
    BY <1>3, <2>1 DEF DeleteRead, DurableOK, ChildOK, WorkerOK, SharedOK, LifetimeOK
<1> USE DEF DurableOK, ChildOK, WorkerOK, SharedOK, LifetimeOK, HandlerPCs, NoJob
<1>4. CASE SetWake(h)
  BY <1>4, ReturnType DEF SetWake
<1>5. CASE CancelMark(h)
  BY <1>5 DEF CancelMark, RequestsOK, Goto, Return, Recorded
<1>6. CASE CancelLook(h)
  BY <1>6 DEF CancelLook, RequestsOK, Goto, Return
<1>7. CASE CancelSignal(h)
  BY <1>7, ReturnType DEF CancelSignal, Terminate
<1>8. CASE CancelFinish(h)
  <2>1. hjob[h] \in Jobs /\ "cancelled" \in RowStates
    BY <1>8 DEF CancelFinish, RequestsOK, RowStates, Terminal
  <2> QED BY <1>8, <2>1, ReturnType, SettledType DEF CancelFinish
<1>9. CASE DeleteRmtree(h)
  BY <1>9 DEF DeleteRmtree, RequestsOK, Goto, Return
<1>10. CASE DeleteRow(h)
  <2>1. hjob[h] \in Jobs /\ "deleted" \in RowStates
    BY <1>10 DEF DeleteRow, RequestsOK, RowStates
  <2> QED BY <1>10, <2>1, ReturnType, SettledType DEF DeleteRow
<1> QED
  BY <1>1, <1>2, <1>3, <1>4, <1>5, <1>6, <1>7, <1>8, <1>9, <1>10 DEF HandlerStep

LEMMA WorkerType ==
  ASSUME TypeOK, WorkerStep \/ WorkerTimesOut
  PROVE  TypeOK'
<1> USE DEF TypeOK, DurableOK, ChildOK, WorkerOK, SharedOK, RequestsOK, LifetimeOK,
            durable, local, shared, requests, lifetime, history,
            WorkerPCs, Busy, BeforeCheck, AfterCheck, Unspawned, WithChild,
            Terminal, RowStates, NoJob, AfterJob
<1>1. CASE WorkerWakes \/ WorkerTimesOut BY <1>1 DEF WorkerWakes, WorkerTimesOut
<1>2. CASE WorkerSelect
  <2>1. Oldest \subseteq Jobs BY DEF Oldest, Claimable
  <2>2. NoJob \notin Jobs BY DEF Jobs
  <2>3. WorkerOK'
    <3>1. CASE worker' = "claim" /\ cur' \in Oldest
      BY <1>2, <2>1, <2>2, <3>1 DEF WorkerSelect
    <3>2. CASE worker' \in {"dead", "idle"} /\ cur' = cur
      BY <1>2, <3>2 DEF WorkerSelect
    <3> QED BY <1>2, <3>1, <3>2 DEF WorkerSelect
  <2> QED BY <1>2, <2>3 DEF WorkerSelect
<1>3. CASE WorkerMkdir BY <1>3 DEF WorkerMkdir
<1>4. CASE WorkerBegin BY <1>4, SettledType DEF WorkerBegin
<1>5. CASE WorkerSpawn
  <2>1. cur \in Jobs BY <1>5 DEF WorkerSpawn
  <2>2. Settled(cur, "failed") \in [Jobs -> RowStates] /\ NoPid(cur) \in [Jobs -> BOOLEAN]
    BY <2>1, SettledType
  <2> QED BY <1>5, <2>1, <2>2 DEF WorkerSpawn
<1>6. CASE WorkerRecord BY <1>6 DEF WorkerRecord
<1>7. CASE WorkerRegister BY <1>7 DEF WorkerRegister, StopCancels
<1>8. CASE WorkerStopChild BY <1>8 DEF WorkerStopChild, Terminate
<1>9. CASE WorkerReap \/ WorkerClear BY <1>9 DEF WorkerReap, WorkerClear
<1>10. CASE WorkerCheck BY <1>10 DEF WorkerCheck
<1>11. CASE WorkerPost BY <1>11 DEF WorkerPost
<1>12. CASE WorkerFinish BY <1>12, SettledType DEF WorkerFinish
<1> QED
  BY <1>1, <1>2, <1>3, <1>4, <1>5, <1>6, <1>7, <1>8, <1>9, <1>10, <1>11, <1>12
  DEF WorkerStep

LEMMA LifetimeType ==
  ASSUME TypeOK, NothingBeforeStart,
         \/ \E j \in Jobs : ChildExits(j) \/ KillerFires(j) \/ SweepRow(j)
         \/ Boot \/ Start \/ ShutdownBegin \/ ShutdownStep \/ Crash
  PROVE  TypeOK'
<1> USE DEF TypeOK, DurableOK, ChildOK, WorkerOK, SharedOK, RequestsOK, LifetimeOK,
            durable, local, shared, requests, lifetime, history,
            MainPCs, ShutdownPCs, NoJob
<1>1. ASSUME NEW j \in Jobs, ChildExits(j) \/ KillerFires(j) PROVE TypeOK'
  BY <1>1 DEF ChildExits, KillerFires, Killed, Finished
<1>2. ASSUME NEW j \in Jobs, SweepRow(j) PROVE TypeOK'
  BY <1>2, SettledType
  DEF SweepRow, SweptChild, Interrupted, Killed, Finished, RowStates, Terminal
<1>3. CASE Boot BY <1>3 DEF Boot
<1>4. CASE Start
  BY <1>4 DEF Start, NothingBeforeStart, WorkerPCs, Busy, BeforeCheck, AfterCheck,
              Unspawned, WithChild
<1>5. CASE ShutdownBegin BY <1>5 DEF ShutdownBegin
<1>6. CASE ShutdownMark BY <1>6 DEF ShutdownMark
<1>7. CASE ShutdownLook \/ ShutdownJoin BY <1>7 DEF ShutdownLook, ShutdownJoin
<1>8. CASE ShutdownSignal BY <1>8 DEF ShutdownSignal, Terminate
<1>9. CASE ShutdownPending BY <1>9 DEF ShutdownPending
<1>10. CASE ShutdownFinish
  BY <1>10, SettledType DEF ShutdownFinish, RowStates, Terminal
<1>11. CASE ShutdownClose \/ Crash BY <1>11, EndsType DEF ShutdownClose, Crash
<1> QED
  BY <1>1, <1>2, <1>3, <1>4, <1>5, <1>6, <1>7, <1>8, <1>9, <1>10, <1>11
  DEF ShutdownStep

(***************************************************************************)
(* The rest of the inductive invariant, one lemma per group of actions.    *)
(***************************************************************************)
LEMMA InitInv == Init => Inv
<1> SUFFICES ASSUME Init PROVE Inv OBVIOUS
<1>1. TypeOK BY InitType
<1>2. NothingBeforeStart /\ ChildStage /\ RowStage
  BY DEF Init, NothingBeforeStart, ChildStage, RowStage, Busy, BeforeCheck,
         AfterCheck, Unspawned, WithChild
<1>3. FoundOrLost /\ OneLiveChild /\ CompletedRan
  BY DEF Init, FoundOrLost, Found, OneLiveChild, CompletedRan
<1> QED BY <1>1, <1>2, <1>3 DEF Inv

\* A handler never touches a child; the rows it writes are none a child hangs on.
LEMMA HandlerInv ==
  ASSUME Inv, NEW h \in Handlers,
         \/ HandlerStep(h)
         \/ \E j \in Jobs : Submit(h, j) \/ CancelRead(h, j) \/ DeleteRead(h, j)
  PROVE  Inv'
<1>1. TypeOK' BY HandlerType DEF Inv
<1> USE DEF Inv, TypeOK, DurableOK, durable, local, shared, lifetime, history
<1>2. /\ UNCHANGED <<child, worker, cur, outcome, main, lost>>
      /\ killers' = killers \/ main \notin {"down", "sweep"}
      /\ main \in {"down", "sweep"} => FALSE
  BY DEF HandlerStep, Submit, SetWake, CancelRead, CancelMark, CancelLook,
         CancelSignal, CancelFinish, DeleteRead, DeleteRmtree, DeleteRow, Call,
         NothingBeforeStart
<1>3. \A j \in Jobs :
        \/ row'[j] = row[j]
        \/ row[j] = "absent" /\ row'[j] = "queued"
        \/ row'[j] \in {"cancelled", "deleted"}
  BY DEF HandlerStep, Submit, SetWake, CancelRead, CancelMark, CancelLook,
         CancelSignal, CancelFinish, DeleteRead, DeleteRmtree, DeleteRow, Settled
<1>4. NothingBeforeStart' BY <1>2 DEF NothingBeforeStart
<1>5. ChildStage' BY <1>2, <1>3 DEF ChildStage
<1>6. RowStage'
  <2>1. worker \in Busy => cur \in Jobs BY DEF WorkerOK
  <2> QED BY <1>2, <1>3, <2>1 DEF RowStage, Busy, BeforeCheck, Unspawned
<1>7. FoundOrLost' BY <1>2 DEF FoundOrLost, Found
<1>8. OneLiveChild' BY <1>2 DEF OneLiveChild
<1>9. CompletedRan' BY <1>2, <1>3 DEF CompletedRan
<1> QED BY <1>1, <1>4, <1>5, <1>6, <1>7, <1>8, <1>9

\* The worker spawns when no accounted child lives: one that did would be its own
\* at a later step, or a dead backend's, and then there would be no worker.
LEMMA SpawnInv == ASSUME Inv, WorkerSpawn PROVE Inv'
<1>1. TypeOK' BY WorkerType DEF Inv, WorkerStep
<1> USE DEF Inv, TypeOK, DurableOK, ChildOK, WorkerOK, lifetime, history, shared,
            requests, NoJob
<1>2. worker = "spawn" /\ cur \in Jobs /\ main \notin {"down", "sweep"}
  BY DEF WorkerSpawn, NothingBeforeStart, WithChild, Busy, BeforeCheck, AfterCheck,
         Unspawned
<1>3. \A j \in Jobs \ lost : child[j] # "live"
  BY <1>2 DEF FoundOrLost, Found, WithChild
<1>4. child[cur] = "none" BY <1>2 DEF ChildStage, Unspawned
<1>5. row[cur] \in {"running", "cancelled", "deleted"}
  BY <1>2 DEF RowStage, Busy, BeforeCheck, Unspawned
<1>6. CASE /\ child' = [child EXCEPT ![cur] = "live"] /\ worker' = "record"
           /\ UNCHANGED <<row, pid, cur, outcome, main, lost, killers, handler>>
  <2>1. NothingBeforeStart' /\ CompletedRan'
    BY <1>2, <1>4, <1>5, <1>6 DEF NothingBeforeStart, CompletedRan
  <2>2. ChildStage' BY <1>2, <1>5, <1>6 DEF ChildStage, Unspawned
  <2>3. RowStage' BY <1>2, <1>5, <1>6 DEF RowStage
  <2>4. FoundOrLost' BY <1>2, <1>3, <1>6 DEF FoundOrLost, Found, WithChild
  <2>5. OneLiveChild' BY <1>2, <1>3, <1>6 DEF OneLiveChild
  <2> QED BY <1>1, <2>1, <2>2, <2>3, <2>4, <2>5
<1>7. CASE /\ row' = Settled(cur, "failed") /\ worker' = "select" /\ cur' = NoJob
           /\ UNCHANGED <<child, outcome, main, lost, killers, handler>>
  <2>1. \A j \in Jobs : row'[j] = row[j] \/ row'[j] = "failed"
    BY <1>2, <1>7 DEF Settled
  <2>2. NothingBeforeStart' /\ CompletedRan'
    BY <1>2, <1>7, <2>1 DEF NothingBeforeStart, CompletedRan
  <2>3. ChildStage' BY <1>2, <1>7, <2>1 DEF ChildStage, Unspawned
  <2>4. RowStage'
    BY <1>7 DEF RowStage, Busy, BeforeCheck, AfterCheck, Unspawned, WithChild
  <2>5. FoundOrLost' BY <1>2, <1>3, <1>7 DEF FoundOrLost, Found
  <2>6. OneLiveChild' BY <1>7 DEF OneLiveChild
  <2> QED BY <1>1, <2>2, <2>3, <2>4, <2>5, <2>6
<1> QED BY <1>6, <1>7 DEF WorkerSpawn

\* The worker before it has a job, and the steps at which it only moves on: no row
\* and no child changes, and a child it has stays its own.
LEMMA WorkerMovesInv ==
  ASSUME Inv,
         \/ WorkerWakes \/ WorkerTimesOut \/ WorkerSelect \/ WorkerMkdir
         \/ WorkerRecord \/ WorkerRegister \/ WorkerStopChild \/ WorkerReap
         \/ WorkerClear
  PROVE  Inv'
<1>1. TypeOK' BY WorkerType DEF Inv, WorkerStep
<1> USE DEF Inv, TypeOK, DurableOK, ChildOK, WorkerOK, durable, local, shared,
            requests, lifetime, history, NoJob
<1>2. main \notin {"down", "sweep"}
  BY DEF NothingBeforeStart, WorkerWakes, WorkerTimesOut, WorkerSelect, WorkerMkdir,
         WorkerRecord, WorkerRegister, WorkerStopChild, WorkerReap, WorkerClear
<1>3. UNCHANGED <<row, child, outcome, main, lost, handler>>
  BY DEF WorkerWakes, WorkerTimesOut, WorkerSelect, WorkerMkdir, WorkerRecord,
         WorkerRegister, WorkerStopChild, WorkerReap, WorkerClear
<1>4. NothingBeforeStart' /\ OneLiveChild' /\ CompletedRan'
  BY <1>2, <1>3 DEF NothingBeforeStart, OneLiveChild, CompletedRan
<1>5. CASE \/ WorkerWakes \/ WorkerTimesOut
           \/ WorkerSelect /\ worker' \in {"idle", "dead"}
           \/ WorkerMkdir /\ worker' = "dead"
  <2>1. /\ worker \notin WithChild /\ worker' \in {"idle", "select", "dead"}
        /\ outcome = "none"
    BY <1>5 DEF WorkerWakes, WorkerTimesOut, WorkerSelect, WorkerMkdir, WithChild
  <2>2. ChildStage' /\ RowStage' /\ FoundOrLost'
    BY <1>2, <1>3, <2>1 DEF ChildStage, RowStage, FoundOrLost, Found, Unspawned, Busy,
       BeforeCheck, AfterCheck, WithChild
  <2> QED BY <1>1, <1>4, <2>2
<1>6. CASE WorkerSelect /\ worker' = "claim"
  <2>1. cur' \in Jobs /\ row[cur'] = "queued" /\ child[cur'] = "none"
    BY <1>6 DEF WorkerSelect, Oldest, Claimable, ChildStage
  <2>2. ChildStage' /\ RowStage' /\ FoundOrLost'
    BY <1>2, <1>3, <1>6, <2>1 DEF ChildStage, RowStage, FoundOrLost, Found, Unspawned, Busy,
       BeforeCheck, AfterCheck, WithChild, WorkerSelect
  <2> QED BY <1>1, <1>4, <2>2
<1>7. CASE WorkerMkdir /\ worker' = "begin"
  <2>1. ChildStage' /\ RowStage' /\ FoundOrLost'
    BY <1>2, <1>3, <1>7 DEF ChildStage, RowStage, FoundOrLost, Found, Unspawned, WithChild,
       Busy, BeforeCheck, AfterCheck, WorkerMkdir
  <2> QED BY <1>1, <1>4, <2>1
<1>8. CASE WorkerRecord \/ WorkerRegister \/ WorkerStopChild
  <2>1. worker \in WithChild /\ worker' \in WithChild /\ cur' = cur
    BY <1>8 DEF WorkerRecord, WorkerRegister, WorkerStopChild, WithChild
  <2>2. ChildStage' /\ RowStage' /\ FoundOrLost'
    BY <1>2, <1>3, <2>1 DEF ChildStage, RowStage, FoundOrLost, Found, Unspawned, WithChild,
       Busy, BeforeCheck, AfterCheck
  <2> QED BY <1>1, <1>4, <2>2
<1>9. CASE WorkerReap \/ WorkerClear
  <2>1. /\ worker \in {"wait", "clear"} /\ worker' \in {"clear", "check"}
        /\ cur' = cur /\ child[cur] \in Finished
    BY <1>9 DEF WorkerReap, WorkerClear, Reaped, ChildStage
  <2>2. ChildStage' /\ RowStage' /\ FoundOrLost'
    BY <1>2, <1>3, <2>1 DEF ChildStage, RowStage, FoundOrLost, Found, Unspawned, WithChild,
       Busy, BeforeCheck, AfterCheck, Finished
  <2> QED BY <1>1, <1>4, <2>2
<1> QED BY <1>5, <1>6, <1>7, <1>8, <1>9 DEF WorkerSelect, WorkerMkdir

\* The steps at which the worker rules on its job: its child, if it was spawned,
\* has ended, and a job becomes completed only when it ended well.
LEMMA WorkerRulesInv ==
  ASSUME Inv, WorkerBegin \/ WorkerCheck \/ WorkerPost \/ WorkerFinish
  PROVE  Inv'
<1>1. TypeOK' BY WorkerType DEF Inv, WorkerStep
<1> USE DEF Inv, TypeOK, DurableOK, ChildOK, WorkerOK, durable, local, shared,
            requests, lifetime, history, NoJob
<1>2. /\ main \notin {"down", "sweep"} /\ worker \notin WithChild
      /\ worker \in Busy /\ cur \in Jobs
  BY DEF NothingBeforeStart, WorkerBegin, WorkerCheck, WorkerPost, WorkerFinish,
         WithChild, Busy, BeforeCheck, AfterCheck, Unspawned
<1>3. UNCHANGED <<child, main, lost, handler>>
  BY DEF WorkerBegin, WorkerCheck, WorkerPost, WorkerFinish
<1>4. \A j \in Jobs \ lost : child[j] # "live"
  BY <1>2 DEF FoundOrLost, Found
<1>5. NothingBeforeStart' /\ OneLiveChild' /\ FoundOrLost'
  BY <1>2, <1>3, <1>4 DEF NothingBeforeStart, OneLiveChild, FoundOrLost, Found
<1>6. CASE WorkerBegin
  <2>1. CompletedRan' /\ RowStage' /\ ChildStage'
    BY <1>2, <1>3, <1>6 DEF CompletedRan, RowStage, ChildStage, WorkerBegin, Settled,
       Present, Unspawned, Busy, BeforeCheck, AfterCheck, WithChild
  <2> QED BY <1>1, <1>5, <2>1
<1>7. CASE WorkerCheck
  <2>1. CompletedRan' /\ RowStage' /\ ChildStage'
    BY <1>2, <1>3, <1>7 DEF CompletedRan, RowStage, ChildStage, WorkerCheck, Succeeded,
       Unspawned, Busy, BeforeCheck, AfterCheck, WithChild
  <2> QED BY <1>1, <1>5, <2>1
<1>8. CASE WorkerPost
  <2>1. CompletedRan' /\ RowStage' /\ ChildStage'
    BY <1>2, <1>3, <1>8 DEF CompletedRan, RowStage, ChildStage, WorkerPost,
       Unspawned, Busy, BeforeCheck, AfterCheck, WithChild
  <2> QED BY <1>1, <1>5, <2>1
<1>9. CASE WorkerFinish
  <2>1. outcome \in Terminal /\ (outcome = "completed" => child[cur] = "ok")
    BY <1>9 DEF WorkerFinish, ChildStage
  <2>2. CompletedRan' /\ RowStage' /\ ChildStage'
    BY <1>2, <1>3, <1>9, <2>1 DEF CompletedRan, RowStage, ChildStage, WorkerFinish,
       Settled, Present, Terminal, Unspawned, Busy, BeforeCheck, AfterCheck, WithChild
  <2> QED BY <1>1, <1>5, <2>2
<1> QED BY <1>6, <1>7, <1>8, <1>9

LEMMA ChildEndsOnly ==
  ASSUME ChildOK, NEW j \in Jobs, ChildExits(j) \/ KillerFires(j)
  PROVE  \A i \in Jobs : child'[i] = child[i] \/ (child[i] = "live" /\ child'[i] \in Finished)
BY DEF ChildOK, ChildExits, KillerFires, Killed, Finished

LEMMA SweptOnly ==
  ASSUME ChildOK, NEW j \in Jobs
  PROVE  \A i \in Jobs : SweptChild(j)[i] = child[i]
                        \/ (child[i] = "live" /\ SweptChild(j)[i] = "bad")
BY DEF ChildOK, SweptChild, Killed

\* A child that ends, of itself or by a timer, only leaves the live ones.
LEMMA ChildInv ==
  ASSUME Inv, NEW j \in Jobs, ChildExits(j) \/ KillerFires(j)
  PROVE  Inv'
<1>1. TypeOK' BY LifetimeType DEF Inv
<1> USE DEF Inv, TypeOK, ChildOK, WorkerOK, durable, local, shared, requests,
            lifetime, history
<1>2. UNCHANGED <<row, pid, worker, cur, outcome, main, lost, handler>>
  BY DEF ChildExits, KillerFires
<1>3. \A i \in Jobs : child'[i] = child[i] \/ (child[i] = "live" /\ child'[i] \in Finished)
  BY ChildEndsOnly
<1>4. killers' \subseteq killers BY DEF ChildExits, KillerFires
<1>5. NothingBeforeStart' /\ RowStage'
  BY <1>2, <1>4 DEF NothingBeforeStart, RowStage
<1>6. ChildStage'
  <2>1. worker \in Unspawned \cup {"clear", "check", "post", "finish"} => cur \in Jobs
    BY DEF Busy, BeforeCheck, AfterCheck
  <2>2. outcome = "completed" => cur \in Jobs BY DEF Busy, AfterCheck
  <2> QED BY <1>2, <1>3, <2>1, <2>2 DEF ChildStage, Finished
<1>7. FoundOrLost' /\ OneLiveChild' /\ CompletedRan'
  BY <1>2, <1>3 DEF FoundOrLost, Found, OneLiveChild, CompletedRan, Finished
<1> QED BY <1>1, <1>5, <1>6, <1>7

\* A backend that ends leaves alive and accounted for only a child that a 'running'
\* row records; that is at most the one there was.
LEMMA EndsInv == ASSUME Inv, Ends PROVE Inv'
<1>1. TypeOK' BY EndsType DEF Inv
<1> USE DEF Inv, TypeOK, Ends, durable
<1>2. NothingBeforeStart' BY DEF NothingBeforeStart
<1>3. ChildStage' /\ RowStage'
  BY DEF ChildStage, RowStage, Unspawned, Busy, BeforeCheck, AfterCheck, WithChild
<1>4. FoundOrLost' BY DEF FoundOrLost, Found
<1>5. OneLiveChild' /\ CompletedRan' BY DEF OneLiveChild, CompletedRan
<1> QED BY <1>1, <1>2, <1>3, <1>4, <1>5

\* The sweep kills what a row records; when it is done nothing accounted lives.
LEMMA BootInv ==
  ASSUME Inv, \/ Boot \/ Start
              \/ \E j \in Jobs : SweepRow(j)
  PROVE  Inv'
<1>1. TypeOK' BY LifetimeType DEF Inv
<1> USE DEF Inv, TypeOK, DurableOK, ChildOK, durable, local, shared, requests, history
<1>2. CASE Boot
  BY <1>1, <1>2 DEF Boot, NothingBeforeStart, ChildStage, RowStage, FoundOrLost, Found,
                    OneLiveChild, CompletedRan
<1>3. CASE Start
  <2>1. worker = "off" /\ worker' = "idle" /\ main = "sweep" /\ main' = "serving"
    BY <1>3 DEF Start, NothingBeforeStart
  <2>2. \A j \in Jobs \ lost : child[j] # "live"
    BY <1>3, <2>1 DEF Start, Swept, FoundOrLost, Found, WithChild
  <2>3. outcome = "none" BY <2>1 DEF WorkerOK
  <2>4. NothingBeforeStart' BY <2>1 DEF NothingBeforeStart
  <2>5. ChildStage' /\ RowStage'
    BY <1>3, <2>1, <2>3 DEF Start, ChildStage, RowStage, Unspawned, Busy, BeforeCheck,
       AfterCheck, WithChild
  <2>6. FoundOrLost' /\ OneLiveChild' /\ CompletedRan'
    BY <1>3, <2>2 DEF Start, FoundOrLost, Found, OneLiveChild, CompletedRan
  <2> QED BY <1>1, <2>4, <2>5, <2>6
<1>4. ASSUME NEW j \in Jobs, SweepRow(j) PROVE Inv'
  <2>1. /\ worker = "off" /\ main = "sweep"
        /\ UNCHANGED <<worker, cur, outcome, main, lost, killers, handler>>
    BY <1>4 DEF SweepRow, NothingBeforeStart, lifetime
  <2>2. \A i \in Jobs : child'[i] = child[i] \/ (child[i] = "live" /\ child'[i] = "bad")
    BY <1>4, SweptOnly DEF SweepRow
  <2>3. child[j] = "live" /\ j \notin lost => child'[j] = "bad"
    BY <1>4, <2>1 DEF SweepRow, SweptChild, Killed, FoundOrLost, Found, WithChild
  <2>4. \A i \in Jobs : i # j => row'[i] = row[i] /\ pid'[i] = pid[i]
    BY <1>4 DEF SweepRow, Interrupted, NoPid
  <2>5. row'[j] = "failed" BY <1>4 DEF SweepRow, Interrupted
  <2>6. outcome = "none" BY <2>1 DEF WorkerOK
  <2>7. NothingBeforeStart' BY <2>1 DEF NothingBeforeStart
  <2>8. ChildStage' /\ RowStage'
    BY <2>1, <2>2, <2>4, <2>5, <2>6 DEF ChildStage, RowStage, Unspawned, Busy,
       BeforeCheck, AfterCheck, WithChild
  <2>9. FoundOrLost'
    BY <2>1, <2>2, <2>3, <2>4 DEF FoundOrLost, Found, WithChild
  <2>10. OneLiveChild' /\ CompletedRan'
    BY <2>1, <2>2, <2>4, <2>5 DEF OneLiveChild, CompletedRan
  <2> QED BY <1>1, <2>7, <2>8, <2>9, <2>10
<1> QED BY <1>2, <1>3, <1>4

LEMMA ShutdownInv == ASSUME Inv, ShutdownBegin \/ ShutdownStep PROVE Inv'
<1>1. CASE ShutdownClose BY <1>1, EndsInv DEF ShutdownClose
<1>2. CASE \/ ShutdownBegin \/ ShutdownMark \/ ShutdownLook \/ ShutdownSignal
           \/ ShutdownJoin \/ ShutdownPending \/ ShutdownFinish
  <2>1. TypeOK' BY <1>2, LifetimeType DEF Inv, ShutdownStep
  <2> USE DEF Inv, TypeOK, DurableOK, durable, local, shared, requests, history
  <2>2. /\ UNCHANGED <<child, worker, cur, outcome, lost, handler>>
        /\ main \notin {"down", "sweep"} /\ main' \notin {"down", "sweep"}
    BY <1>2 DEF ShutdownBegin, ShutdownMark, ShutdownLook, ShutdownSignal,
                ShutdownJoin, ShutdownPending, ShutdownFinish
  <2>3. \A j \in Jobs :
          \/ row'[j] = row[j]
          \/ row[j] \notin {"absent", "deleted"} /\ row'[j] = "cancelled"
    BY <1>2 DEF ShutdownBegin, ShutdownMark, ShutdownLook, ShutdownSignal,
                ShutdownJoin, ShutdownPending, ShutdownFinish, Settled, Present
  <2>4. worker \in Busy => cur \in Jobs BY DEF WorkerOK
  <2>5. NothingBeforeStart' /\ ChildStage'
    BY <2>2, <2>3 DEF NothingBeforeStart, ChildStage
  <2>6. RowStage' BY <2>2, <2>3, <2>4 DEF RowStage, Busy, BeforeCheck, Unspawned
  <2>7. FoundOrLost' /\ OneLiveChild' /\ CompletedRan'
    BY <2>2, <2>3 DEF FoundOrLost, Found, OneLiveChild, CompletedRan
  <2> QED BY <2>1, <2>5, <2>6, <2>7
<1> QED BY <1>1, <1>2 DEF ShutdownStep

LEMMA NextInv == Inv /\ [Next]_vars => Inv'
<1> SUFFICES ASSUME Inv, [Next]_vars PROVE Inv' OBVIOUS
<1>1. CASE UNCHANGED vars
  <2>1. UNCHANGED <<row, pid, dir, child, worker, cur, outcome, current, cancelled,
                    stop, wake, killers, handler, hjob, hseen, main, pending, boots,
                    lost, gap, due>>
    BY <1>1 DEF vars, durable, local, shared, requests, lifetime, history
  <2> QED
    BY <2>1 DEF Inv, TypeOK, DurableOK, ChildOK, WorkerOK, SharedOK, RequestsOK,
       LifetimeOK, NothingBeforeStart, ChildStage, RowStage, FoundOrLost, Found,
       OneLiveChild, CompletedRan
<1>2. ASSUME NEW h \in Handlers,
             \/ HandlerStep(h)
             \/ \E j \in Jobs : Submit(h, j) \/ CancelRead(h, j) \/ DeleteRead(h, j)
      PROVE  Inv'
  BY <1>2, HandlerInv
<1>3. CASE WorkerStep \/ WorkerTimesOut
  BY <1>3, SpawnInv, WorkerMovesInv, WorkerRulesInv DEF WorkerStep
<1>4. ASSUME NEW j \in Jobs, ChildExits(j) \/ KillerFires(j) PROVE Inv'
  BY <1>4, ChildInv
<1>5. CASE Boot \/ Start \/ \E j \in Jobs : SweepRow(j) BY <1>5, BootInv
<1>6. CASE ShutdownBegin \/ ShutdownStep BY <1>6, ShutdownInv
<1>7. CASE Crash BY <1>7, EndsInv DEF Crash
<1> QED BY <1>1, <1>2, <1>3, <1>4, <1>5, <1>6, <1>7 DEF Next

(***************************************************************************)
(* The theorems.                                                           *)
(***************************************************************************)
THEOREM Invariance == Spec => []Inv
<1> QED BY InitInv, NextInv, PTL DEF Spec

\* Every variable keeps its type, whatever the requests, signals and crashes.
THEOREM TypeCorrect == Spec => []TypeOK
<1>1. Inv => TypeOK BY DEF Inv
<1> QED BY <1>1, Invariance, PTL

\* One GPU, one job at a time, but for the children a dead backend left behind.
THEOREM OneAtATime == Spec => []OneLiveChild
<1>1. Inv => OneLiveChild BY DEF Inv
<1> QED BY <1>1, Invariance, PTL

\* A completed job is one whose h3 ran and ended with status 0.
THEOREM CompletedRanWell == Spec => []CompletedRan
<1>1. Inv => CompletedRan BY DEF Inv
<1> QED BY <1>1, Invariance, PTL

(***************************************************************************)
(* What a step may never do.                                               *)
(***************************************************************************)
\* A job is spawned at most once, over any number of restarts.
THEOREM SpawnsOnce == Spec => SpawnedOnce
<1>1. ASSUME Inv, Next, NEW j \in Jobs, child'[j] = "live"
      PROVE  child[j] \in {"none", "live"}
  <2> USE DEF Inv, TypeOK, ChildOK, WorkerOK
  <2>1. CASE WorkerSpawn
    <3>1. worker = "spawn" BY <2>1 DEF WorkerSpawn
    <3>2. child[cur] = "none" BY <1>1, <3>1 DEF ChildStage, Unspawned
    <3> QED BY <1>1, <2>1, <3>2 DEF WorkerSpawn
  <2>2. ASSUME NEW i \in Jobs, ChildExits(i) \/ KillerFires(i)
        PROVE  child[j] \in {"none", "live"}
    BY <1>1, <2>2, ChildEndsOnly
  <2>3. ASSUME NEW i \in Jobs, SweepRow(i) PROVE child[j] \in {"none", "live"}
    BY <1>1, <2>3, SweptOnly DEF SweepRow
  <2>4. CASE UNCHANGED child BY <1>1, <2>4
  <2> QED
    BY <1>1, <2>1, <2>2, <2>3, <2>4
    DEF Next, HandlerStep, Submit, SetWake, CancelRead, CancelMark, CancelLook,
        CancelSignal, CancelFinish, DeleteRead, DeleteRmtree, DeleteRow, WorkerStep,
        WorkerWakes, WorkerTimesOut, WorkerSelect, WorkerMkdir, WorkerBegin,
        WorkerRecord, WorkerRegister, WorkerStopChild, WorkerReap, WorkerClear,
        WorkerCheck, WorkerPost, WorkerFinish, Boot, Start, ShutdownBegin,
        ShutdownStep, ShutdownMark, ShutdownLook, ShutdownSignal, ShutdownJoin,
        ShutdownPending, ShutdownFinish, ShutdownClose, Crash, Ends
<1>2. Inv /\ [Next]_vars =>
        [\A j \in Jobs : child'[j] = "live" => child[j] \in {"none", "live"}]_vars
  BY <1>1
<1> QED BY <1>2, Invariance, PTL DEF Spec, SpawnedOnce

\* A verdict of the worker is only ever overwritten by a cancel, or deleted.
THEOREM VerdictsStand == Spec => VerdictStands
<1>1. ASSUME Inv, Next, NEW j \in Jobs, row[j] \in {"completed", "failed"}
      PROVE  row'[j] \in {row[j], "cancelled", "deleted"}
  <2> USE DEF Inv, TypeOK, DurableOK, WorkerOK
  <2>1. CASE WorkerBegin \/ WorkerSpawn \/ WorkerFinish
    <3>1. worker \in {"begin", "spawn", "finish"}
      BY <2>1 DEF WorkerBegin, WorkerSpawn, WorkerFinish
    <3>2. worker \in Busy BY <3>1 DEF Busy, BeforeCheck, AfterCheck, Unspawned
    <3>3. cur \in Jobs BY <1>1, <3>2
    <3>4. row[cur] \notin {"completed", "failed"} BY <1>1, <3>1, <3>2 DEF RowStage
    <3>5. cur # j BY <1>1, <3>4
    <3> QED BY <1>1, <2>1, <3>3, <3>5 DEF WorkerBegin, WorkerSpawn, WorkerFinish, Settled
  <2>2. ASSUME NEW h \in Handlers,
               \/ HandlerStep(h)
               \/ \E i \in Jobs : Submit(h, i) \/ CancelRead(h, i) \/ DeleteRead(h, i)
        PROVE  row'[j] \in {row[j], "cancelled", "deleted"}
    BY <1>1, <2>2 DEF HandlerStep, Submit, SetWake, CancelRead, CancelMark, CancelLook,
       CancelSignal, CancelFinish, DeleteRead, DeleteRmtree, DeleteRow, Settled, durable
  <2>3. ASSUME NEW i \in Jobs, SweepRow(i) PROVE row'[j] = row[j]
    BY <1>1, <2>3 DEF SweepRow, Interrupted
  <2>4. CASE ShutdownFinish
    BY <1>1, <2>4 DEF ShutdownFinish, Settled
  <2>5. CASE UNCHANGED row BY <1>1, <2>5
  <2> QED
    BY <1>1, <2>1, <2>2, <2>3, <2>4, <2>5
    DEF Next, WorkerStep, WorkerWakes, WorkerTimesOut, WorkerSelect, WorkerMkdir,
        WorkerRecord, WorkerRegister, WorkerStopChild, WorkerReap, WorkerClear,
        WorkerCheck, WorkerPost, ChildExits, KillerFires, Boot, Start, ShutdownBegin,
        ShutdownStep, ShutdownMark, ShutdownLook, ShutdownSignal, ShutdownJoin,
        ShutdownPending, ShutdownClose, Crash, Ends, durable
<1>2. Inv /\ [Next]_vars =>
        [\A j \in Jobs : row[j] \in {"completed", "failed"} =>
           row'[j] \in {row[j], "cancelled", "deleted"}]_vars
  BY <1>1
<1> QED BY <1>2, Invariance, PTL DEF Spec, VerdictStands

-----------------------------------------------------------------------------
(***************************************************************************)
(* What JobRunner promises about cancellations and deletions, and that it  *)
(* implements JobQueue, for any number of jobs, handlers and boots.        *)
(*                                                                         *)
(* The argument: a request acts on a state of the row that it read some    *)
(* time ago.  By then the job may be anywhere, but if a row or a request   *)
(* takes it for ended, then it is over, or a cancellation is recorded that *)
(* the worker has yet to look at, or its backend ended in the gap between  *)
(* Popen and UPDATE pid (Known).  Past never ends; a recorded cancellation *)
(* is only dropped while its row is queued.  So a child that no backend    *)
(* finds is one of that gap, or of a cancellation in time (HiddenStage).   *)
(***************************************************************************)

(***************************************************************************)
(* What is over stays over.                                                *)
(***************************************************************************)
\* The worker alone makes a child live, and only its own at "spawn".
LEMMA SpawnedByWorker ==
  ASSUME Inv, Next, NEW j \in Jobs
  PROVE  /\ child'[j] = "live" => child[j] = "live" \/ (worker = "spawn" /\ cur = j)
         /\ child[j] # "none" => child'[j] # "none"
<1> USE DEF Inv, TypeOK, ChildOK, Finished
<1>1. CASE WorkerSpawn BY <1>1 DEF WorkerSpawn
<1>2. ASSUME NEW i \in Jobs, ChildExits(i) \/ KillerFires(i)
      PROVE  child'[j] = child[j] \/ (child[j] = "live" /\ child'[j] \in Finished)
  BY <1>2, ChildEndsOnly
<1>3. ASSUME NEW i \in Jobs, SweepRow(i)
      PROVE  child'[j] = child[j] \/ (child[j] = "live" /\ child'[j] = "bad")
  BY <1>3, SweptOnly DEF SweepRow
<1>4. CASE UNCHANGED child BY <1>4
<1> QED
  BY <1>1, <1>2, <1>3, <1>4
  DEF Next, HandlerStep, Submit, SetWake, CancelRead, CancelMark, CancelLook,
      CancelSignal, CancelFinish, DeleteRead, DeleteRmtree, DeleteRow, WorkerStep,
      WorkerWakes, WorkerTimesOut, WorkerSelect, WorkerMkdir, WorkerBegin,
      WorkerRecord, WorkerRegister, WorkerStopChild, WorkerReap, WorkerClear,
      WorkerCheck, WorkerPost, WorkerFinish, Boot, Start, ShutdownBegin,
      ShutdownStep, ShutdownMark, ShutdownLook, ShutdownSignal, ShutdownJoin,
      ShutdownPending, ShutdownFinish, ShutdownClose, Crash, Ends

\* A row is queued once, when it is inserted, and never absent again.
LEMMA QueuedOnce ==
  ASSUME Inv, Next, NEW j \in Jobs, row[j] # "absent"
  PROVE  /\ row'[j] # "absent"
         /\ row'[j] = "queued" => row[j] = "queued"
<1> USE DEF Inv, TypeOK, DurableOK, WorkerOK, Terminal
<1>1. CASE WorkerBegin \/ WorkerSpawn \/ WorkerFinish
  BY <1>1 DEF WorkerBegin, WorkerSpawn, WorkerFinish, Settled, Present
<1>2. ASSUME NEW h \in Handlers,
             \/ HandlerStep(h)
             \/ \E i \in Jobs : Submit(h, i) \/ CancelRead(h, i) \/ DeleteRead(h, i)
      PROVE  row'[j] \in {row[j], "cancelled", "deleted"}
  BY <1>2 DEF HandlerStep, Submit, SetWake, CancelRead, CancelMark, CancelLook,
     CancelSignal, CancelFinish, DeleteRead, DeleteRmtree, DeleteRow, Settled, durable
<1>3. ASSUME NEW i \in Jobs, SweepRow(i) PROVE row'[j] \in {row[j], "failed"}
  BY <1>3 DEF SweepRow, Interrupted
<1>4. CASE ShutdownFinish BY <1>4 DEF ShutdownFinish, Settled
<1>5. CASE UNCHANGED row BY <1>5
<1> QED
  BY <1>1, <1>2, <1>3, <1>4, <1>5
  DEF Next, WorkerStep, WorkerWakes, WorkerTimesOut, WorkerSelect, WorkerMkdir,
      WorkerRecord, WorkerRegister, WorkerStopChild, WorkerReap, WorkerClear,
      WorkerCheck, WorkerPost, ChildExits, KillerFires, Boot, Start, ShutdownBegin,
      ShutdownStep, ShutdownMark, ShutdownLook, ShutdownSignal, ShutdownJoin,
      ShutdownPending, ShutdownClose, Crash, Ends, durable

\* The worker takes up a job only when its row is queued.
LEMMA TakenWhenQueued ==
  ASSUME Inv, Next, NEW j \in Jobs, cur' = j, worker' \in Unspawned
  PROVE  (cur = j /\ worker \in Unspawned) \/ row[j] = "queued"
<1> USE DEF Inv, TypeOK, WorkerOK, Unspawned, NoJob, Jobs
<1>1. CASE WorkerSelect BY <1>1 DEF WorkerSelect, Oldest, Claimable
<1>2. CASE WorkerStep /\ ~WorkerSelect
  BY <1>2 DEF WorkerStep, WorkerWakes, WorkerMkdir, WorkerBegin, WorkerSpawn,
     WorkerRecord, WorkerRegister, WorkerStopChild, WorkerReap, WorkerClear,
     WorkerCheck, WorkerPost, WorkerFinish, local
<1>3. CASE WorkerTimesOut BY <1>3 DEF WorkerTimesOut
<1>4. CASE UNCHANGED <<worker, cur>> BY <1>4
<1>5. CASE Start \/ Ends BY <1>5 DEF Start, Ends
<1> QED
  BY <1>1, <1>2, <1>3, <1>4, <1>5
  DEF Next, HandlerStep, Submit, SetWake, CancelRead, CancelMark, CancelLook,
      CancelSignal, CancelFinish, DeleteRead, DeleteRmtree, DeleteRow,
      ChildExits, KillerFires, SweepRow, Boot, ShutdownBegin,
      ShutdownStep, ShutdownMark, ShutdownLook, ShutdownSignal, ShutdownJoin,
      ShutdownPending, ShutdownFinish, ShutdownClose, Crash, local

LEMMA PastStays ==
  ASSUME Inv, Next, NEW j \in Jobs, Past(j)
  PROVE  Past(j)'
<1>1. child'[j] # "live" BY SpawnedByWorker DEF Past, Unspawned
<1>2. row'[j] \notin {"absent", "queued"} BY QueuedOnce DEF Past
<1>3. ~(cur' = j /\ worker' \in Unspawned) BY TakenWhenQueued DEF Past
<1> QED BY <1>1, <1>2, <1>3 DEF Past

\* What is known of a job is known for good, unless the cancellation is forgotten.
LEMMA KnownStays ==
  ASSUME Inv, Next, NEW j \in Jobs, Known(j), gap \subseteq gap', j \in due => j \in due'
  PROVE  Known(j)'
BY PastStays DEF Known

LEMMA InitRequests == Init => RequestInv
BY DEF Init, RequestInv, EndedStage, StopStage, CancelStage, DirStage, HiddenStage,
       RunningIsWorked, CancelHonoured, WriterHasDirectory, Terminal, Unspawned, ShutdownPCs, NoJob

(***************************************************************************)
(* The requests.                                                           *)
(***************************************************************************)
\* What a handler does to the rest: it records cancellations of jobs whose turn is
\* to come, and ends rows of jobs that are known.
RequestEffect ==
  /\ UNCHANGED <<child, worker, cur, outcome, current, stop, main, pending, lost, gap>>
  /\ main \notin {"down", "sweep"}
  /\ cancelled \subseteq cancelled'
  /\ due \subseteq due'
  /\ \A j \in due' \ due :
       row'[j] = row[j] /\ row[j] # "absent" /\ Unseen(j) /\ j \in cancelled'
  /\ \A j \in Jobs :
       \/ row'[j] = row[j]
       \/ row[j] = "absent" /\ row'[j] = "queued"
       \/ row[j] # "absent" /\ Known(j) /\ row'[j] \in {"cancelled", "deleted"}
  /\ \A j \in Jobs : row'[j] = "running" => pid'[j] = pid[j]
  /\ \A j \in dir \ dir' : Known(j)

LEMMA HandlerEffect ==
  ASSUME Inv, RequestInv, NEW h \in Handlers,
         \/ HandlerStep(h)
         \/ \E j \in Jobs : Submit(h, j) \/ CancelRead(h, j) \/ DeleteRead(h, j)
  PROVE  RequestEffect
<1> USE DEF Inv, TypeOK, DurableOK, RequestsOK, NoJob, durable, local, shared, lifetime,
            history, Jobs, RequestEffect
<1>1. main \notin {"down", "sweep"}
  BY DEF HandlerStep, Submit, SetWake, CancelRead, CancelMark, CancelLook,
         CancelSignal, CancelFinish, DeleteRead, DeleteRmtree, DeleteRow, Call,
         NothingBeforeStart
<1>2. \A j \in Jobs : Unseen(j) => row[j] # "absent"
  <2>1. worker \in BeforeCheck => cur \in Jobs /\ row[cur] # "absent"
    BY DEF WorkerOK, Busy, BeforeCheck, RowStage, Unspawned
  <2> QED BY <2>1 DEF Unseen
<1>3. handler[h] # "idle" => hjob[h] \in Jobs BY DEF RequestsOK
<1>4. ASSUME NEW j \in Jobs, Submit(h, j) \/ CancelRead(h, j) \/ DeleteRead(h, j)
      PROVE  /\ UNCHANGED <<child, worker, cur, outcome, current, stop, main, pending, lost, gap>>
             /\ UNCHANGED <<pid, dir, cancelled, due>>
             /\ \A i \in Jobs : row'[i] = row[i] \/ (row[i] = "absent" /\ row'[i] = "queued")
  BY <1>4 DEF Submit, CancelRead, DeleteRead, Call
<1>5. CASE SetWake(h) \/ CancelLook(h) \/ CancelSignal(h)
  BY <1>1, <1>5 DEF SetWake, CancelLook, CancelSignal
<1>6. CASE CancelMark(h)
  BY <1>1, <1>2, <1>3, <1>6 DEF CancelMark, Recorded
<1>7. CASE CancelFinish(h) \/ DeleteRow(h)
  <2>1. Known(hjob[h]) /\ hjob[h] \in Jobs /\ row[hjob[h]] # "absent"
    BY <1>3, <1>7 DEF CancelFinish, DeleteRow, RequestInv, EndedStage
  <2> QED BY <1>1, <1>7, <2>1 DEF CancelFinish, DeleteRow, Settled, NoPid, Present
<1>8. CASE DeleteRmtree(h)
  <2>1. Known(hjob[h]) BY <1>8 DEF DeleteRmtree, RequestInv, EndedStage
  <2> QED BY <1>1, <1>8, <2>1 DEF DeleteRmtree
<1> QED BY <1>1, <1>4, <1>5, <1>6, <1>7, <1>8 DEF HandlerStep

\* A cancel that goes on to end the row has recorded itself in time, or the job
\* was over by then.
LEMMA MarkedIsKnown ==
  ASSUME Inv, RequestInv, NEW h \in Handlers, CancelMark(h), handler'[h] = "finish"
  PROVE  hjob'[h] = hjob[h] /\ Known(hjob[h])'
<1> USE DEF Inv, TypeOK, DurableOK, ChildOK, RequestsOK, WorkerOK, NoJob, Jobs
<1>1. hjob[h] \in Jobs /\ row[hjob[h]] # "absent"
  BY DEF CancelMark, RequestInv, EndedStage
<1>2. main \notin {"down", "sweep"} BY DEF CancelMark, NothingBeforeStart
<1>3. hjob' = hjob BY DEF CancelMark, Return, Goto
<1>4. CASE Unseen(hjob[h]) BY <1>3, <1>4 DEF CancelMark, Known
<1>5. CASE ~Unseen(hjob[h])
  <2>1. child[hjob[h]] = "live" => hjob[h] \in due \cup gap
    BY <1>1, <1>2, <1>5 DEF FoundOrLost, Found, Unseen, BeforeCheck, RequestInv, HiddenStage
  <2>2. Known(hjob[h]) BY <1>1, <1>5, <2>1 DEF Known, Past, Unseen, BeforeCheck
  <2> QED
    BY <1>3, <1>5, <2>2 DEF Known, Past, CancelMark, durable, local, history
<1> QED BY <1>3, <1>4, <1>5

\* What a handler records and ends is known, and it ends no other.
LEMMA HandlerRequests ==
  ASSUME Inv, RequestInv, NEW h \in Handlers,
         \/ HandlerStep(h)
         \/ \E j \in Jobs : Submit(h, j) \/ CancelRead(h, j) \/ DeleteRead(h, j)
  PROVE  RequestInv'
<1>1. RequestEffect BY HandlerEffect
<1>2. \A j \in Jobs : row[j] # "absent" /\ Known(j) => Known(j)'
  BY <1>1 DEF RequestEffect, Known, Past
<1>3. \A g \in Handlers : handler[g] # "idle" => hjob[g] \in Jobs /\ row[hjob[g]] # "absent"
  BY DEF RequestInv, EndedStage, Inv, TypeOK, RequestsOK, NoJob
<1>4. EndedStage'
  <2>1. \A j \in Jobs : row'[j] \in Terminal \cup {"deleted"} => Known(j)'
    BY <1>1, <1>2 DEF RequestInv, EndedStage, Terminal, RequestEffect
  <2>2. \A g \in Handlers \ {h} : handler'[g] = handler[g] /\ hjob'[g] = hjob[g]
    BY DEF HandlerStep, Submit, SetWake, CancelRead, CancelMark, CancelLook,
       CancelSignal, CancelFinish, DeleteRead, DeleteRmtree, DeleteRow, Call, Return, Goto,
       Inv, TypeOK, RequestsOK
  <2>3. handler'[h] # "idle" => hjob'[h] \in Jobs /\ row'[hjob'[h]] # "absent"
    BY <1>3 DEF HandlerStep, Submit, SetWake, CancelRead, CancelMark, CancelLook,
       CancelSignal, CancelFinish, DeleteRead, DeleteRmtree, DeleteRow, Call, Return, Goto,
       Deletable, Terminal, durable, Inv, TypeOK, RequestsOK, DurableOK
  <2>4. handler'[h] \in {"rmtree", "drop", "finish"} => Known(hjob[h])'
    <3>1. ASSUME NEW j \in Jobs, DeleteRead(h, j) PROVE Known(hjob[h])'
      <4>1. hjob'[h] = j /\ row'[j] \in Terminal
        BY <3>1 DEF DeleteRead, Deletable, Call, Inv, TypeOK, RequestsOK, durable
      <4> QED BY <2>1, <4>1
    <3>2. ASSUME NEW j \in Jobs, Submit(h, j) \/ CancelRead(h, j)
          PROVE handler'[h] \notin {"rmtree", "drop", "finish"}
      BY <3>2 DEF Submit, CancelRead, Call, Goto, Inv, TypeOK, RequestsOK
    <3>3. CASE HandlerStep(h) /\ ~CancelMark(h)
      <4>1. handler'[h] \in {"rmtree", "drop", "finish"} =>
              handler[h] \in {"rmtree", "drop", "finish"} /\ hjob'[h] = hjob[h]
        BY <3>3 DEF HandlerStep, SetWake, CancelLook, CancelSignal, CancelFinish,
           DeleteRmtree, DeleteRow, Return, Goto, Inv, TypeOK, RequestsOK
      <4>2. handler[h] \in {"rmtree", "drop", "finish"} =>
              hjob[h] \in Jobs /\ row[hjob[h]] # "absent" /\ Known(hjob[h])
        BY <1>3 DEF RequestInv, EndedStage
      <4> QED BY <1>2, <4>1, <4>2
    <3>4. CASE CancelMark(h)
      BY <3>4, MarkedIsKnown DEF CancelMark, Goto, Return, Inv, TypeOK, RequestsOK
    <3> QED BY <3>1, <3>2, <3>3, <3>4
  <2>5. \A g \in Handlers \ {h} :
          /\ handler'[g] \in {"rmtree", "drop", "finish"} => Known(hjob[g])'
          /\ handler'[g] # "idle" => row'[hjob'[g]] # "absent"
    BY <1>1, <1>2, <1>3, <2>2 DEF RequestInv, EndedStage, RequestEffect
  <2>6. \A j \in lost' \cup gap' : child'[j] # "none"
    BY <1>1 DEF RequestInv, EndedStage, RequestEffect
  <2> QED BY <2>1, <2>3, <2>4, <2>5, <2>6 DEF EndedStage
<1>5. StopStage' BY <1>1 DEF RequestInv, StopStage, RequestEffect
<1>6. CancelStage'
  <2>1. \A j \in due' : row'[j] # "absent" /\ (Unseen(j)' => j \in cancelled')
    BY <1>1 DEF RequestInv, CancelStage, RequestEffect, Unseen, Inv, TypeOK
  <2>2. cur' \in due' /\ worker' = "finish" => outcome' # "completed"
    <3>1. worker = "finish" => cur \in Jobs /\ row[cur] # "queued"
      BY DEF Inv, TypeOK, WorkerOK, Busy, AfterCheck, BeforeCheck, RowStage, Unspawned
    <3> QED BY <1>1, <3>1 DEF RequestInv, CancelStage, RequestEffect, Unseen, BeforeCheck,
               Unspawned, WithChild
  <2> QED BY <2>1, <2>2 DEF CancelStage
<1>7. DirStage'
  BY <1>1 DEF RequestInv, DirStage, Known, Past, Unspawned, RequestEffect
<1>8. RunningIsWorked' BY <1>1 DEF RequestInv, RunningIsWorked, RequestEffect
<1>9. CancelHonoured'
  <2>1. worker = "post" => cur \in Jobs /\ row[cur] # "queued"
    BY DEF Inv, TypeOK, WorkerOK, Busy, AfterCheck, BeforeCheck, RowStage, Unspawned
  <2>2. ASSUME NEW j \in due' \ due
        PROVE  row'[j] # "completed" /\ ~(cur' = j /\ worker' = "post")
    <3>1. worker \in BeforeCheck => row[cur] # "completed"
      BY DEF Inv, TypeOK, WorkerOK, Busy, BeforeCheck, RowStage, Unspawned
    <3> QED BY <1>1, <2>1, <3>1 DEF RequestEffect, Unseen, BeforeCheck, Unspawned, WithChild
  <2>3. ASSUME NEW j \in due PROVE row'[j] # "completed" /\ ~(cur' = j /\ worker' = "post")
    BY <1>1 DEF RequestInv, CancelHonoured, RequestEffect, Inv, TypeOK
  <2> QED BY <2>2, <2>3 DEF CancelHonoured
<1>10. WriterHasDirectory'
  BY <1>1 DEF RequestInv, WriterHasDirectory, Known, Past, RequestEffect
<1>11. HiddenStage'
  <2>1. worker \in {"register", "stopchild", "wait"} => cur \in Jobs
    BY DEF Inv, TypeOK, WorkerOK, Busy, BeforeCheck, WithChild
  <2>2. worker' \in {"register", "stopchild", "wait"} /\ row'[cur'] = "running" => pid'[cur']
    BY <1>1, <2>1 DEF RequestInv, HiddenStage, RequestEffect
  <2>3. ASSUME NEW j \in lost', child'[j] = "live"
        PROVE  j \in gap' \/ (j \in due' /\ row'[j] \in {"cancelled", "deleted"})
    BY <1>1, <2>3 DEF RequestInv, HiddenStage, RequestEffect, Inv, TypeOK
  <2> QED BY <2>2, <2>3 DEF HiddenStage
<1> QED BY <1>4, <1>5, <1>6, <1>7, <1>8, <1>9, <1>10, <1>11 DEF RequestInv

(***************************************************************************)
(* The worker.                                                             *)
(***************************************************************************)
\* What the worker leaves alone, and how far its verdicts reach: a job it ends has
\* no child left and is not its own any more.
WorkerEffect ==
  /\ UNCHANGED <<stop, main, pending, lost, gap, handler, hjob>>
  /\ main \notin {"down", "sweep"}
  /\ dir \subseteq dir'
  /\ \/ due' = due
     \/ worker = "register" /\ stop /\ due' = due \cup {cur} /\ cur \in cancelled'
  /\ \A j \in Jobs : row'[j] = row[j]
       \/ /\ j = cur /\ row[j] \notin {"absent", "queued", "deleted"} /\ cur' # cur
          /\ row'[j] \in Terminal /\ child'[j] # "live"
          /\ row'[j] = "completed" => worker = "finish" /\ outcome = "completed"
       \/ /\ j = cur /\ worker = "begin" /\ worker' = "spawn" /\ cur' = cur
          /\ row'[j] = "running"

LEMMA WorkerChanges ==
  ASSUME Inv, WorkerStep \/ WorkerTimesOut
  PROVE  WorkerEffect
<1> USE DEF Inv, TypeOK, DurableOK, ChildOK, WorkerOK, NoJob, Jobs, durable, local, shared,
            requests, lifetime, history, WorkerEffect
<1>1. main \notin {"down", "sweep"}
  BY DEF NothingBeforeStart, WorkerStep, WorkerTimesOut, WorkerWakes, WorkerSelect,
     WorkerMkdir, WorkerBegin, WorkerSpawn, WorkerRecord, WorkerRegister,
     WorkerStopChild, WorkerReap, WorkerClear, WorkerCheck, WorkerPost, WorkerFinish
<1>2. CASE \/ WorkerWakes \/ WorkerTimesOut \/ WorkerSelect \/ WorkerMkdir \/ WorkerRecord
           \/ WorkerStopChild \/ WorkerReap \/ WorkerClear \/ WorkerCheck \/ WorkerPost
  BY <1>1, <1>2 DEF WorkerWakes, WorkerTimesOut, WorkerSelect, WorkerMkdir, WorkerRecord,
     WorkerStopChild, WorkerReap, WorkerClear, WorkerCheck, WorkerPost
<1>3. CASE WorkerRegister BY <1>1, <1>3 DEF WorkerRegister, StopCancels
<1>4. CASE WorkerBegin BY <1>1, <1>4 DEF WorkerBegin, Settled
<1>5. CASE WorkerSpawn
  <2>1. child[cur] = "none" /\ cur \in Jobs /\ row[cur] \notin {"absent", "queued"}
    BY <1>5 DEF WorkerSpawn, ChildStage, RowStage, Unspawned, Busy, BeforeCheck
  <2>2. CASE row' = row BY <1>1, <1>5, <2>2 DEF WorkerSpawn
  <2>3. CASE row' = Settled(cur, "failed") /\ cur' = NoJob /\ child' = child
    BY <1>1, <1>5, <2>1, <2>3 DEF WorkerSpawn, Settled, Present, Terminal
  <2> QED BY <1>5, <2>2, <2>3 DEF WorkerSpawn
<1>6. CASE WorkerFinish
  <2>1. /\ child[cur] \in Finished /\ cur \in Jobs /\ row[cur] \notin {"absent", "queued"}
        /\ outcome \in Terminal
    BY <1>6 DEF WorkerFinish, ChildStage, RowStage, Unspawned, Busy, BeforeCheck, AfterCheck
  <2> QED BY <1>1, <1>6, <2>1 DEF WorkerFinish, Settled, Present, Finished
<1> QED BY <1>2, <1>3, <1>4, <1>5, <1>6 DEF WorkerStep

LEMMA WorkerRequests ==
  ASSUME Inv, RequestInv, WorkerStep \/ WorkerTimesOut
  PROVE  RequestInv'
<1>1. WorkerEffect BY WorkerChanges
<1>2. Next BY DEF Next
<1>3. \A j \in Jobs : Known(j) => Known(j)'
  BY <1>1, <1>2, KnownStays DEF WorkerEffect
<1>4. worker \in Busy => cur \in Jobs /\ row[cur] # "absent"
  BY DEF Inv, TypeOK, WorkerOK, RowStage, Busy, BeforeCheck, Unspawned
<1>5. EndedStage'
  <2>1. ASSUME NEW j \in Jobs, row'[j] \in Terminal \cup {"deleted"} PROVE Known(j)'
    <3>1. CASE row'[j] = row[j] BY <1>3, <2>1, <3>1 DEF RequestInv, EndedStage
    <3>2. CASE row'[j] # row[j]
      BY <1>1, <2>1, <3>2 DEF WorkerEffect, Known, Past, Terminal
    <3> QED BY <3>1, <3>2
  <2>2. ASSUME NEW h \in Handlers
        PROVE  /\ handler'[h] \in {"rmtree", "drop", "finish"} => Known(hjob[h])'
               /\ handler'[h] # "idle" => row'[hjob'[h]] # "absent"
    <3>1. handler[h] # "idle" => hjob[h] \in Jobs /\ row[hjob[h]] # "absent"
      BY DEF RequestInv, EndedStage, Inv, TypeOK, RequestsOK, NoJob
    <3> QED BY <1>1, <1>2, <1>3, <3>1, QueuedOnce DEF WorkerEffect, RequestInv, EndedStage
  <2>3. ASSUME NEW j \in lost' \cup gap' PROVE child'[j] # "none"
    BY <1>1, <1>2, <2>3, SpawnedByWorker DEF WorkerEffect, RequestInv, EndedStage, Inv, TypeOK
  <2> QED BY <2>1, <2>2, <2>3 DEF EndedStage
<1>6. StopStage'
  <2>1. CASE current' = current /\ (current = NoJob \/ worker' # worker)
    BY <1>1, <2>1 DEF RequestInv, StopStage, WorkerEffect, WorkerStep, WorkerTimesOut,
       WorkerWakes, WorkerSelect, WorkerMkdir, WorkerBegin, WorkerSpawn, WorkerRecord,
       WorkerRegister, WorkerStopChild, WorkerReap, WorkerClear, WorkerCheck, WorkerPost,
       WorkerFinish, local
  <2>2. CASE WorkerRegister
    BY <1>1, <2>2 DEF RequestInv, StopStage, WorkerEffect, WorkerRegister, local
  <2>3. CASE WorkerClear
    BY <1>1, <2>3 DEF RequestInv, StopStage, WorkerEffect, WorkerClear
  <2> QED
    BY <2>1, <2>2, <2>3 DEF WorkerStep, WorkerTimesOut, WorkerWakes, WorkerSelect,
       WorkerMkdir, WorkerBegin, WorkerSpawn, WorkerRecord, WorkerStopChild, WorkerReap,
       WorkerCheck, WorkerPost, WorkerFinish, AfterJob, shared
<1>7. CancelStage'
  <2>1. ASSUME NEW j \in due'
        PROVE  row'[j] # "absent" /\ (Unseen(j)' => j \in cancelled')
    <3>1. CASE j \in due
      <4>1. row[j] # "absent" /\ j \in Jobs
        BY <3>1 DEF RequestInv, CancelStage, Inv, TypeOK
      <4>2. row'[j] # "absent" /\ (row'[j] = "queued" => row[j] = "queued")
        BY <1>2, <4>1, QueuedOnce
      <4>3. ASSUME Unseen(j)' PROVE Unseen(j) /\ ~(WorkerCheck /\ cur = j)
        <5>1. CASE row'[j] = "queued"
          BY <4>2, <5>1 DEF Unseen, WorkerCheck, RowStage, Inv, Busy, BeforeCheck, Unspawned,
             durable
        <5>2. CASE cur' = j /\ worker' \in BeforeCheck
          BY <4>1, <5>2 DEF Unseen, BeforeCheck, Unspawned, WithChild, Inv, TypeOK, NoJob, Jobs,
             WorkerStep, WorkerTimesOut, WorkerWakes, WorkerSelect, Oldest, Claimable,
             WorkerMkdir, WorkerBegin, WorkerSpawn, WorkerRecord, WorkerRegister,
             WorkerStopChild, WorkerReap, WorkerClear, WorkerCheck, WorkerPost, WorkerFinish,
             AfterJob, local
        <5> QED BY <4>3, <5>1, <5>2 DEF Unseen
      <4>4. cancelled \subseteq cancelled' \/ WorkerCheck
        BY DEF WorkerStep, WorkerTimesOut, WorkerWakes, WorkerSelect, WorkerMkdir, WorkerBegin,
           WorkerSpawn, WorkerRecord, WorkerRegister, StopCancels, WorkerStopChild, WorkerReap,
           WorkerClear, WorkerPost, WorkerFinish, shared
      <4> QED BY <3>1, <4>2, <4>3, <4>4 DEF RequestInv, CancelStage, WorkerCheck
    <3>2. CASE j \notin due
      BY <1>1, <1>2, <1>4, <3>2, QueuedOnce DEF WorkerEffect, Busy, BeforeCheck, WithChild
    <3> QED BY <3>1, <3>2
  <2>2. cur' \in due' /\ worker' = "finish" => outcome' # "completed"
    <3>1. CASE WorkerPost
      BY <1>1, <3>1 DEF WorkerPost, WorkerEffect, RequestInv, CancelHonoured
    <3>2. CASE WorkerCheck
      BY <1>1, <3>2 DEF WorkerCheck, WorkerEffect, WasCancelled
    <3> QED
      BY <3>1, <3>2 DEF WorkerStep, WorkerTimesOut, WorkerWakes, WorkerSelect, WorkerMkdir,
         WorkerBegin, WorkerSpawn, WorkerRecord, WorkerRegister, WorkerStopChild, WorkerReap,
         WorkerClear, WorkerFinish, AfterJob
  <2> QED BY <2>1, <2>2 DEF CancelStage
<1>8. DirStage'
  <2>1. CASE WorkerMkdir \/ WorkerBegin
    BY <1>1, <2>1 DEF WorkerMkdir, WorkerBegin, WorkerEffect, RequestInv, DirStage, local
  <2> QED
    BY <2>1 DEF DirStage, WorkerStep, WorkerTimesOut, WorkerWakes, WorkerSelect, WorkerSpawn,
       WorkerRecord, WorkerRegister, WorkerStopChild, WorkerReap, WorkerClear, WorkerCheck,
       WorkerPost, WorkerFinish, AfterJob
<1>9. RunningIsWorked'
  <2>1. ASSUME NEW j \in Jobs, row'[j] = "running", cur' # j, worker' # "dead" PROVE FALSE
    <3>1. row[j] = "running"
      BY <1>1, <2>1 DEF WorkerEffect, Terminal
    <3>2. cur = j \/ worker = "dead"
      BY <1>1, <3>1 DEF WorkerEffect, RequestInv, RunningIsWorked
    <3>3. cur = j
      BY <3>2 DEF WorkerStep, WorkerTimesOut, WorkerWakes, WorkerSelect, WorkerMkdir,
         WorkerBegin, WorkerSpawn, WorkerRecord, WorkerRegister, WorkerStopChild, WorkerReap,
         WorkerClear, WorkerCheck, WorkerPost, WorkerFinish
    <3>4. (WorkerSpawn /\ row' = Settled(cur, "failed")) \/ WorkerFinish
      BY <2>1, <3>3 DEF WorkerStep, WorkerTimesOut, WorkerWakes, WorkerSelect, WorkerMkdir,
         WorkerBegin, WorkerSpawn, WorkerRecord, WorkerRegister, WorkerStopChild, WorkerReap,
         WorkerClear, WorkerCheck, WorkerPost, local, Inv, TypeOK, WorkerOK, Busy,
         BeforeCheck, AfterCheck, Unspawned, WithChild, NoJob, Jobs
    <3>5. WorkerFinish => outcome \in Terminal
      BY DEF WorkerFinish, Inv, TypeOK, WorkerOK
    <3> QED BY <2>1, <3>1, <3>3, <3>4, <3>5
            DEF WorkerFinish, Settled, Present, Terminal, Inv, TypeOK, DurableOK
  <2> QED BY <2>1 DEF RunningIsWorked
<1>10. CancelHonoured'
  <2>1. ASSUME NEW j \in due', row'[j] = "completed" PROVE FALSE
    <3>1. CASE j \in due
      BY <1>1, <2>1, <3>1 DEF WorkerEffect, RequestInv, CancelHonoured, CancelStage, Inv, TypeOK
    <3>2. CASE j \notin due
      <4>1. worker = "register" /\ j = cur /\ j \in Jobs
        BY <1>1, <1>4, <3>2 DEF WorkerEffect, Busy, BeforeCheck, WithChild
      <4> QED BY <1>1, <2>1, <4>1 DEF WorkerEffect, RowStage, Inv, Busy, BeforeCheck, WithChild, Unspawned
    <3> QED BY <3>1, <3>2
  <2>2. ASSUME NEW j \in due', cur' = j, worker' = "post" PROVE FALSE
    <3>1. WorkerCheck
      BY <2>2 DEF WorkerStep, WorkerTimesOut, WorkerWakes, WorkerSelect, WorkerMkdir,
         WorkerBegin, WorkerSpawn, WorkerRecord, WorkerRegister, WorkerStopChild, WorkerReap,
         WorkerClear, WorkerPost, WorkerFinish, AfterJob
    <3>2. cur \in due => cur \in cancelled
      BY <3>1 DEF WorkerCheck, RequestInv, CancelStage, Unseen, BeforeCheck
    <3> QED BY <1>1, <2>2, <3>1, <3>2 DEF WorkerCheck, WasCancelled, WorkerEffect
  <2> QED BY <2>1, <2>2 DEF CancelHonoured
<1>11. WriterHasDirectory'
  BY <1>1, <1>2, SpawnedByWorker DEF WorkerEffect, RequestInv, WriterHasDirectory, DirStage
<1>12. HiddenStage'
  <2>1. worker' \in {"register", "stopchild", "wait"} /\ row'[cur'] = "running" => pid'[cur']
    <3>1. CASE WorkerRecord
      BY <1>4, <3>1 DEF WorkerRecord, Present, Busy, BeforeCheck, WithChild, Inv, TypeOK,
         DurableOK, local
    <3>2. CASE WorkerRegister \/ WorkerStopChild \/ WorkerTimesOut
      BY <3>2 DEF WorkerRegister, WorkerStopChild, WorkerTimesOut, RequestInv, HiddenStage,
         durable, local
    <3> QED
      BY <3>1, <3>2 DEF WorkerStep, WorkerWakes, WorkerSelect, WorkerMkdir, WorkerBegin,
         WorkerSpawn, WorkerReap, WorkerClear, WorkerCheck, WorkerPost, WorkerFinish, AfterJob
  <2>2. ASSUME NEW j \in lost', child'[j] = "live"
        PROVE  j \in gap' \/ (j \in due' /\ row'[j] \in {"cancelled", "deleted"})
    <3>1. j \in lost /\ j \in Jobs /\ child[j] # "none"
      BY <1>1, <2>2 DEF WorkerEffect, RequestInv, EndedStage, Inv, TypeOK
    <3>2. ~(worker \in Unspawned /\ cur = j) BY <3>1 DEF Inv, ChildStage
    <3>3. child[j] = "live" BY <1>2, <2>2, <3>1, <3>2, SpawnedByWorker DEF Unspawned
    <3>4. row'[j] = row[j] BY <1>1, <2>2, <3>1, <3>2 DEF WorkerEffect, Unspawned
    <3> QED BY <1>1, <3>1, <3>3, <3>4 DEF WorkerEffect, RequestInv, HiddenStage
  <2> QED BY <2>1, <2>2 DEF HiddenStage
<1> QED BY <1>5, <1>6, <1>7, <1>8, <1>9, <1>10, <1>11, <1>12 DEF RequestInv

(***************************************************************************)
(* Children, the sweep, shutdown and the end of a backend.                 *)
(***************************************************************************)
LEMMA ChildRequests ==
  ASSUME Inv, RequestInv, NEW i \in Jobs, ChildExits(i) \/ KillerFires(i)
  PROVE  RequestInv'
<1>1. UNCHANGED <<row, pid, dir, worker, cur, outcome, current, cancelled, stop, handler, hjob,
                  main, pending, lost, gap, due>>
  BY DEF ChildExits, KillerFires, durable, local, shared, requests, lifetime, history
<1>2. \A j \in Jobs : child'[j] = child[j] \/ (child[j] = "live" /\ child'[j] \in Finished)
  BY ChildEndsOnly DEF Inv, TypeOK
<1>3. \A j \in Jobs : Known(j) => Known(j)'
  BY <1>1, <1>2 DEF Known, Past, Finished
<1>4. \A h \in Handlers : handler[h] # "idle" => hjob[h] \in Jobs
  BY DEF Inv, TypeOK, RequestsOK, NoJob
<1>5. lost \cup gap \subseteq Jobs BY DEF Inv, TypeOK
<1>6. EndedStage'
  BY <1>1, <1>2, <1>3, <1>4, <1>5 DEF RequestInv, EndedStage, Finished
<1>7. StopStage' /\ CancelStage' /\ DirStage' /\ RunningIsWorked' /\ CancelHonoured'
  BY <1>1 DEF RequestInv, StopStage, CancelStage, Unseen, DirStage, RunningIsWorked,
     CancelHonoured
<1>8. WriterHasDirectory'
  BY <1>1, <1>2 DEF RequestInv, WriterHasDirectory, Finished
<1>9. HiddenStage' BY <1>1, <1>2, <1>5 DEF RequestInv, HiddenStage, Finished
<1> QED BY <1>6, <1>7, <1>8, <1>9 DEF RequestInv

\* Before the worker runs there are no requests; a job the sweep fails has lost its
\* child, or the child is one of those NoStrayChild names.
LEMMA BootRequests ==
  ASSUME Inv, RequestInv, \/ Boot \/ Start
                          \/ \E j \in Jobs : SweepRow(j)
  PROVE  RequestInv'
<1> USE DEF Inv, TypeOK, DurableOK, ChildOK
<1>1. /\ UNCHANGED <<dir, cur, outcome, current, cancelled, stop, handler, hjob, pending,
                     lost, gap, due>>
      /\ worker = "off" /\ worker' \in {"off", "idle"} /\ cur = NoJob /\ outcome = "none"
      /\ \A h \in Handlers : handler[h] = "idle"
      /\ main' \notin ShutdownPCs
  BY DEF Boot, Start, SweepRow, NothingBeforeStart, WorkerOK, Busy, BeforeCheck, AfterCheck,
     Unspawned, WithChild, durable, local, shared, requests, lifetime, history, ShutdownPCs
<1>2. \A j \in Jobs :
        /\ child'[j] = child[j] \/ (child[j] = "live" /\ child'[j] = "bad")
        /\ row'[j] = row[j] \/ (row[j] = "running" /\ row'[j] = "failed" /\ Known(j)')
  <2>1. CASE Boot \/ Start BY <2>1 DEF Boot, Start, durable
  <2>2. ASSUME NEW i \in Jobs, SweepRow(i)
        PROVE  \A j \in Jobs :
                 /\ child'[j] = child[j] \/ (child[j] = "live" /\ child'[j] = "bad")
                 /\ row'[j] = row[j] \/ (row[j] = "running" /\ row'[j] = "failed" /\ Known(j)')
    <3>1. \A j \in Jobs : child'[j] = child[j] \/ (child[j] = "live" /\ child'[j] = "bad")
      BY <2>2, SweptOnly DEF SweepRow
    <3>2. child[i] = "live" /\ i \notin lost => child'[i] = "bad"
      BY <1>1, <2>2 DEF SweepRow, SweptChild, Killed, FoundOrLost, Found, WithChild
    <3>3. \A j \in Jobs : j # i => row'[j] = row[j] BY <2>2 DEF SweepRow, Interrupted
    <3>4. row[i] = "running" /\ row'[i] = "failed" BY <2>2 DEF SweepRow, Interrupted
    <3>5. Known(i)'
      BY <1>1, <3>1, <3>2, <3>4 DEF Known, Past, Unspawned, RequestInv, HiddenStage
    <3> QED BY <3>1, <3>3, <3>4, <3>5
  <2> QED BY <2>1, <2>2
<1>3. \A j \in Jobs : Known(j) => Known(j)'
  BY <1>1, <1>2 DEF Known, Past, Unspawned
<1>4. EndedStage'
  BY <1>1, <1>2, <1>3 DEF RequestInv, EndedStage, Terminal
<1>5. StopStage' BY <1>1 DEF RequestInv, StopStage
<1>6. CancelStage' /\ CancelHonoured'
  BY <1>1, <1>2 DEF RequestInv, CancelStage, CancelHonoured, Unseen, BeforeCheck, Unspawned, WithChild
<1>7. DirStage' BY <1>1 DEF DirStage
<1>8. RunningIsWorked'
  BY <1>1, <1>2 DEF RequestInv, RunningIsWorked, Boot, Start, SweepRow, Swept, lifetime, durable
<1>9. WriterHasDirectory' BY <1>1, <1>2 DEF RequestInv, WriterHasDirectory
<1>10. HiddenStage' BY <1>1, <1>2 DEF RequestInv, HiddenStage
<1> QED BY <1>4, <1>5, <1>6, <1>7, <1>8, <1>9, <1>10 DEF RequestInv

\* The child that shutdown finds registered is cancelled before it looks again, and
\* one registered later is cancelled by the worker.
LEMMA ShutdownRequests ==
  ASSUME Inv, RequestInv,
         \/ ShutdownBegin \/ ShutdownMark \/ ShutdownLook \/ ShutdownSignal
         \/ ShutdownJoin \/ ShutdownPending \/ ShutdownFinish
  PROVE  RequestInv'
<1> USE DEF Inv, TypeOK, DurableOK, ChildOK, NoJob, Jobs
<1>1. /\ UNCHANGED <<child, dir, worker, cur, outcome, current, handler, hjob, lost, gap>>
      /\ main \notin {"down", "sweep"}
      /\ cancelled \subseteq cancelled' /\ due \subseteq due'
  BY DEF ShutdownBegin, ShutdownMark, ShutdownLook, ShutdownSignal, ShutdownJoin,
     ShutdownPending, ShutdownFinish, durable, local, shared, requests, history
<1>2. current # NoJob => current \in Jobs /\ row[current] \notin {"absent", "queued", "completed"}
                         /\ Unseen(current)
  BY DEF RequestInv, StopStage, SharedOK, RowStage, Busy, BeforeCheck, WithChild, Unspawned, Unseen
<1>3. /\ due' = due \/ (main = "sd_mark" /\ due' = due \cup {current} /\ current # NoJob
                        /\ current \in cancelled')
      /\ \A j \in Jobs : row'[j] = row[j]
           \/ (j = pending /\ row[j] \notin {"absent", "deleted"} /\ row'[j] = "cancelled")
      /\ row' = row \/ (main = "sd_finish" /\ due' = due)
  BY DEF ShutdownBegin, ShutdownMark, ShutdownLook, ShutdownSignal, ShutdownJoin,
     ShutdownPending, ShutdownFinish, Settled, Present, durable, history
<1>4. \A j \in Jobs : row[j] # "absent" /\ Known(j) => Known(j)'
  BY <1>1, <1>3 DEF Known, Past
<1>5. EndedStage'
  <2>1. ASSUME NEW j \in Jobs, row'[j] \in Terminal \cup {"deleted"} PROVE Known(j)'
    <3>1. CASE row'[j] = row[j]
      BY <1>4, <2>1, <3>1 DEF RequestInv, EndedStage, Terminal
    <3>2. CASE row'[j] # row[j]
      BY <1>1, <1>3, <3>2 DEF RequestInv, StopStage, Known
    <3> QED BY <3>1, <3>2
  <2>2. \A h \in Handlers : handler[h] # "idle" => hjob[h] \in Jobs /\ row[hjob[h]] # "absent"
    BY DEF RequestInv, EndedStage, RequestsOK
  <2>3. \A h \in Handlers :
          /\ handler'[h] \in {"rmtree", "drop", "finish"} => Known(hjob[h])'
          /\ handler'[h] # "idle" => row'[hjob'[h]] # "absent"
    BY <1>1, <1>3, <1>4, <2>2 DEF RequestInv, EndedStage
  <2>4. \A j \in lost' \cup gap' : child'[j] # "none" BY <1>1 DEF RequestInv, EndedStage
  <2> QED BY <2>1, <2>3, <2>4 DEF EndedStage
<1>6. StopStage'
  <2>1. main' \in ShutdownPCs => stop'
    BY DEF ShutdownBegin, ShutdownMark, ShutdownLook, ShutdownSignal, ShutdownJoin,
       ShutdownPending, ShutdownFinish, RequestInv, StopStage, ShutdownPCs, shared
  <2>2. current' # NoJob => cur' = current' /\ worker' \in {"stopchild", "wait", "clear"}
    BY <1>1 DEF RequestInv, StopStage
  <2>3. main' \in ShutdownPCs \ {"sd_mark"} /\ current' # NoJob => current' \in due'
    BY <1>1, <1>2 DEF ShutdownBegin, ShutdownMark, ShutdownLook, ShutdownSignal, ShutdownJoin,
       ShutdownPending, ShutdownFinish, RequestInv, StopStage, ShutdownPCs, history
  <2>4. pending' # NoJob => pending' \in due'
    BY <1>1 DEF ShutdownBegin, ShutdownMark, ShutdownLook, ShutdownSignal, ShutdownJoin,
       ShutdownPending, ShutdownFinish, RequestInv, StopStage, ShutdownPCs, history
  <2> QED BY <2>1, <2>2, <2>3, <2>4 DEF StopStage
<1>7. CancelStage'
  <2>1. \A j \in due' : row'[j] # "absent" /\ (Unseen(j)' => j \in cancelled')
    BY <1>1, <1>2, <1>3 DEF RequestInv, CancelStage, Unseen
  <2>2. cur' \in due' /\ worker' = "finish" => outcome' # "completed"
    BY <1>1, <1>2, <1>3 DEF RequestInv, CancelStage, StopStage
  <2> QED BY <2>1, <2>2 DEF CancelStage
<1>8. DirStage' BY <1>1 DEF RequestInv, DirStage
<1>9. RunningIsWorked'
  BY <1>1, <1>3 DEF RequestInv, RunningIsWorked
<1>10. CancelHonoured'
  BY <1>1, <1>2, <1>3 DEF RequestInv, CancelHonoured, StopStage
<1>11. WriterHasDirectory' BY <1>1 DEF RequestInv, WriterHasDirectory
<1>12. HiddenStage'
  <2>1. worker \in {"register", "stopchild", "wait"} => cur \in Jobs
    BY DEF WorkerOK, Busy, BeforeCheck, WithChild
  <2>2. \A j \in Jobs : row'[j] = "running" => row[j] = "running" /\ pid'[j] = pid[j]
    BY DEF ShutdownBegin, ShutdownMark, ShutdownLook, ShutdownSignal, ShutdownJoin,
       ShutdownPending, ShutdownFinish, Settled, NoPid, Present, durable
  <2> QED BY <1>1, <1>3, <2>1, <2>2 DEF RequestInv, HiddenStage
<1> QED BY <1>5, <1>6, <1>7, <1>8, <1>9, <1>10, <1>11, <1>12 DEF RequestInv

\* A backend that ends forgets what was to be cancelled.  A child it had is recorded,
\* or was spawned a moment ago, or its row was settled by a cancellation in time.
LEMMA EndsRequests == ASSUME Inv, RequestInv, Ends PROVE RequestInv'
<1> USE DEF Inv, TypeOK, DurableOK, ChildOK, Ends, durable, NoJob
<1>1. \A j \in Jobs : row[j] # "queued" /\ Known(j) => Known(j)'
  BY DEF Known, Past, Unspawned
<1>2. EndedStage'
  BY <1>1 DEF RequestInv, EndedStage, Terminal
<1>3. StopStage' BY DEF StopStage, ShutdownPCs
<1>4. CancelStage' /\ CancelHonoured'
  BY DEF RequestInv, CancelStage, CancelHonoured, Unseen, BeforeCheck, Unspawned, WithChild
<1>5. DirStage' BY DEF DirStage
<1>6. RunningIsWorked' BY DEF RunningIsWorked
<1>7. WriterHasDirectory'
  BY DEF RequestInv, WriterHasDirectory, ChildStage
<1>8. HiddenStage'
  <2>1. ASSUME NEW j \in lost', child[j] = "live"
        PROVE  j \in gap' \/ (j \in due' /\ row[j] \in {"cancelled", "deleted"})
    <3>1. CASE j \in lost BY <2>1, <3>1 DEF RequestInv, HiddenStage
    <3>2. CASE j \notin lost
      <4>1. j \in Jobs /\ ~(row[j] = "running" /\ pid[j]) BY <2>1, <3>2
      <4>2. cur = j /\ worker \in WithChild BY <2>1, <3>2, <4>1 DEF FoundOrLost, Found
      <4>3. CASE worker = "record" BY <2>1, <4>1, <4>2, <4>3
      <4>4. CASE worker # "record"
        <5>1. row[j] \in {"cancelled", "deleted"}
          BY <4>1, <4>2, <4>4
          DEF RowStage, RequestInv, HiddenStage, WithChild, Busy, BeforeCheck, Unspawned
        <5>2. Known(j) BY <4>1, <5>1 DEF RequestInv, EndedStage, Terminal
        <5> QED BY <2>1, <5>1, <5>2 DEF Known, Past
      <4> QED BY <4>3, <4>4
    <3> QED BY <3>1, <3>2
  <2> QED BY <2>1 DEF HiddenStage
<1> QED BY <1>2, <1>3, <1>4, <1>5, <1>6, <1>7, <1>8 DEF RequestInv

LEMMA NextRequests == Inv /\ RequestInv /\ [Next]_vars => RequestInv'
<1> SUFFICES ASSUME Inv, RequestInv, [Next]_vars PROVE RequestInv' OBVIOUS
<1>1. CASE UNCHANGED vars
  BY <1>1 DEF vars, durable, local, shared, requests, lifetime, history, RequestInv,
     EndedStage, Known, Past, StopStage, CancelStage, Unseen, DirStage, HiddenStage,
     RunningIsWorked, CancelHonoured, WriterHasDirectory
<1>2. ASSUME NEW h \in Handlers,
             \/ HandlerStep(h)
             \/ \E j \in Jobs : Submit(h, j) \/ CancelRead(h, j) \/ DeleteRead(h, j)
      PROVE  RequestInv'
  BY <1>2, HandlerRequests
<1>3. CASE WorkerStep \/ WorkerTimesOut BY <1>3, WorkerRequests
<1>4. ASSUME NEW j \in Jobs, ChildExits(j) \/ KillerFires(j) PROVE RequestInv'
  BY <1>4, ChildRequests
<1>5. CASE Boot \/ Start \/ \E j \in Jobs : SweepRow(j) BY <1>5, BootRequests
<1>6. CASE ShutdownBegin \/ ShutdownStep
  BY <1>6, ShutdownRequests, EndsRequests DEF ShutdownStep, ShutdownClose
<1>7. CASE Crash BY <1>7, EndsRequests DEF Crash
<1> QED BY <1>1, <1>2, <1>3, <1>4, <1>5, <1>6, <1>7 DEF Next

(***************************************************************************)
(* The theorems.                                                           *)
(***************************************************************************)
THEOREM RequestInvariance == Spec => [](Inv /\ RequestInv)
<1>1. Init => Inv /\ RequestInv BY InitInv, InitRequests
<1>2. Inv /\ RequestInv /\ [Next]_vars => (Inv /\ RequestInv)' BY NextInv, NextRequests
<1> QED BY <1>1, <1>2, PTL DEF Spec

\* Every live h3 is the worker's own, or recorded for the sweep, or was spawned in the
\* gap between Popen and UPDATE pid of a backend that is gone, or is the child of a job
\* whose cancellation, recorded in time, had settled the row when its backend ended.
THEOREM ChildrenAccounted == Spec => []NoStrayChild
<1>1. Inv /\ RequestInv => NoStrayChild
  BY DEF Inv, RequestInv, FoundOrLost, HiddenStage, NoStrayChild
<1> QED BY <1>1, RequestInvariance, PTL

\* No job is shown as running that nobody works at, while the worker lives.
THEOREM RunningHasWorker == Spec => []RunningIsWorked
<1>1. Inv /\ RequestInv => RunningIsWorked BY DEF RequestInv
<1> QED BY <1>1, RequestInvariance, PTL

\* A cancellation recorded before the worker looked never ends in a completed job.
THEOREM CancelsAreHonoured == Spec => []CancelHonoured
<1>1. Inv /\ RequestInv => CancelHonoured BY DEF RequestInv
<1> QED BY <1>1, RequestInvariance, PTL

\* A live h3 loses its directory only to a deletion that a cancel of it made possible.
THEOREM WritersKeepDirectories == Spec => []WriterHasDirectory
<1>1. Inv /\ RequestInv => WriterHasDirectory BY DEF RequestInv
<1> QED BY <1>1, RequestInvariance, PTL

\* A cancelled row comes back to 'running' only under a cancellation that will be
\* met: it is neither over nor hidden, so it was recorded in time.
THEOREM ResurrectedAreDoomed == Spec => ResurrectedIsDoomed
<1>1. ASSUME Inv, RequestInv, Next, NEW j \in Jobs, row[j] = "cancelled", row'[j] = "running"
      PROVE  j \in cancelled /\ cur = j
  <2> USE DEF Inv, TypeOK, DurableOK
  <2>1. WorkerBegin /\ cur = j
    <3>1. ASSUME NEW h \in Handlers,
                 \/ HandlerStep(h)
                 \/ \E i \in Jobs : Submit(h, i) \/ CancelRead(h, i) \/ DeleteRead(h, i)
          PROVE  FALSE
      BY <1>1, <3>1, HandlerEffect DEF RequestEffect
    <3>2. CASE WorkerStep \/ WorkerTimesOut
      <4>1. WorkerEffect BY <1>1, <3>2, WorkerChanges
      <4>2. cur = j /\ worker = "begin" BY <1>1, <4>1 DEF WorkerEffect, Terminal
      <4> QED
        BY <3>2, <4>2 DEF WorkerStep, WorkerTimesOut, WorkerWakes, WorkerSelect, WorkerMkdir,
           WorkerSpawn, WorkerRecord, WorkerRegister, WorkerStopChild, WorkerReap,
           WorkerClear, WorkerCheck, WorkerPost, WorkerFinish
    <3>3. ASSUME NEW i \in Jobs, SweepRow(i) PROVE FALSE
      BY <1>1, <3>3 DEF SweepRow, Interrupted
    <3>4. CASE ShutdownFinish BY <1>1, <3>4 DEF ShutdownFinish, Settled
    <3>5. CASE UNCHANGED row BY <1>1, <3>5
    <3> QED
      BY <1>1, <3>1, <3>2, <3>3, <3>4, <3>5
      DEF Next, ChildExits, KillerFires, Boot, Start, ShutdownBegin, ShutdownStep,
          ShutdownMark, ShutdownLook, ShutdownSignal, ShutdownJoin, ShutdownPending,
          ShutdownClose, Crash, Ends, durable
  <2>2. Known(j) BY <1>1 DEF RequestInv, EndedStage, Terminal
  <2>3. child[j] = "none" BY <1>1, <2>1 DEF WorkerBegin, ChildStage, Unspawned
  <2>4. j \in due
    BY <1>1, <2>1, <2>2, <2>3 DEF Known, Past, WorkerBegin, Unspawned, RequestInv, EndedStage
  <2> QED BY <1>1, <2>1, <2>4 DEF RequestInv, CancelStage, Unseen, WorkerBegin, BeforeCheck, Unspawned
<1>2. Inv /\ RequestInv /\ [Next]_vars =>
        [\A j \in Jobs : row[j] = "cancelled" /\ row'[j] = "running" =>
           j \in cancelled /\ cur = j]_vars
  BY <1>1
<1> QED BY <1>2, RequestInvariance, PTL DEF Spec, ResurrectedIsDoomed

(***************************************************************************)
(* A stop.                                                                 *)
(***************************************************************************)
\* Nobody but the worker makes a row 'running', and not once it was told to stop.
LEMMA WorkerClose ==
  ASSUME Inv, RequestInv, CloseStage, WorkerStep \/ WorkerTimesOut
  PROVE  CloseStage'
<1> USE DEF Inv, TypeOK, DurableOK, WorkerOK, NoJob, Jobs
<1>1. WorkerEffect BY WorkerChanges
<1>2. /\ main' = main /\ pending' = pending /\ stop' = stop
      /\ main \in {"sd_pending", "sd_finish", "sd_close"} => stop
      /\ \A j \in Jobs : row'[j] = "running" =>
           row[j] = "running" \/ (worker = "begin" /\ worker' = "spawn")
  BY <1>1 DEF WorkerEffect, RequestInv, StopStage, ShutdownPCs, Terminal
<1>3. worker' \in {"stopchild", "wait", "clear"} => current' = cur'
  BY DEF CloseStage, WorkerStep, WorkerTimesOut, WorkerWakes, WorkerSelect, WorkerMkdir,
     WorkerBegin, WorkerSpawn, WorkerRecord, WorkerRegister, WorkerStopChild, WorkerReap,
     WorkerClear, WorkerCheck, WorkerPost, WorkerFinish, AfterJob, local, shared
<1>4. stop /\ worker \in Joined =>
        worker' \in Joined /\ worker # "begin" /\ cur' \in {cur, NoJob}
  BY DEF Joined, WorkerStep, WorkerTimesOut, WorkerWakes, WorkerSelect, WorkerMkdir,
     WorkerBegin, WorkerSpawn, WorkerRecord, WorkerRegister, WorkerStopChild, WorkerReap,
     WorkerClear, WorkerCheck, WorkerPost, WorkerFinish, AfterJob, local
<1>5. \A j \in Jobs : row[j] = "running" => cur = j \/ worker = "dead"
  BY <1>1 DEF RequestInv, RunningIsWorked, WorkerEffect
<1>6. ASSUME NEW j \in Jobs, main = "sd_close", row'[j] = "running"
      PROVE  worker' \in AfterClear \/ WorkerFaults
  <2>1. (row[j] = "running" /\ worker \in AfterClear) \/ WorkerFaults
    BY <1>2, <1>4, <1>6 DEF CloseStage
  <2>2. CASE WorkerFinish /\ cur = j
    BY <1>6, <2>2 DEF WorkerFinish, Settled, Present, Terminal
  <2>3. CASE WorkerPost \/ WorkerCheck
    BY <2>3 DEF WorkerPost, WorkerCheck, AfterClear, AfterCheck
  <2>4. ~WorkerFaults => worker \in {"check", "post", "finish"} /\ cur = j
    BY <1>5, <2>1 DEF AfterClear, AfterCheck
  <2> QED
    BY <2>2, <2>3, <2>4 DEF WorkerStep, WorkerTimesOut, WorkerWakes, WorkerSelect, WorkerMkdir,
       WorkerBegin, WorkerSpawn, WorkerRecord, WorkerRegister, WorkerStopChild, WorkerReap,
       WorkerClear
<1>7. ASSUME worker' = "dead", ~WorkerFaults, NEW j \in Jobs PROVE row'[j] # "running"
  <2>1. WorkerSelect
    BY <1>7 DEF WorkerStep, WorkerTimesOut, WorkerWakes, WorkerMkdir, WorkerBegin,
       WorkerSpawn, WorkerRecord, WorkerRegister, WorkerStopChild, WorkerReap, WorkerClear,
       WorkerCheck, WorkerPost, WorkerFinish, AfterJob
  <2>2. row' = row /\ worker = "select" /\ cur = NoJob
    BY <2>1 DEF WorkerSelect, durable, Busy, BeforeCheck, AfterCheck, WithChild, Unspawned
  <2> QED BY <1>5, <2>2
<1>8. main' = "sd_finish" /\ cur' # NoJob => cur' = pending'
  BY <1>2, <1>4 DEF CloseStage
<1> QED BY <1>2, <1>3, <1>4, <1>6, <1>7, <1>8 DEF CloseStage, Joined, AfterClear

LEMMA ShutdownCloses ==
  ASSUME Inv, RequestInv, CloseStage, ShutdownJoin \/ ShutdownPending \/ ShutdownFinish
  PROVE  CloseStage'
<1> USE DEF Inv, TypeOK, DurableOK, WorkerOK, NoJob, Jobs
<1>1. /\ UNCHANGED <<worker, cur, current>>
      /\ main \notin {"down", "sweep"}
      /\ \A j \in Jobs : row'[j] = "running" => row[j] = "running"
  BY DEF ShutdownJoin, ShutdownPending, ShutdownFinish, Settled, durable, local, shared
<1>2. \A j \in Jobs : row[j] = "running" => cur = j \/ WorkerFaults
  BY <1>1 DEF RequestInv, RunningIsWorked, CloseStage
<1>3. CASE ShutdownJoin
  <2>1. worker \in Joined /\ main' = "sd_pending" BY <1>3 DEF ShutdownJoin, Outlasts, Joined
  <2> QED BY <1>1, <2>1 DEF CloseStage, Joined
<1>4. CASE ShutdownPending
  <2>1. /\ worker \in Joined /\ pending' = current
        /\ main' = IF current = NoJob THEN "sd_close" ELSE "sd_finish"
    BY <1>4 DEF ShutdownPending, CloseStage
  <2>2. current # NoJob => cur = current BY DEF RequestInv, StopStage
  <2>3. ASSUME NEW j \in Jobs, current = NoJob, row[j] = "running", ~WorkerFaults
        PROVE  worker \in AfterClear
    <3>1. cur = j /\ worker \in Busy BY <1>2, <2>3
    <3>2. worker \notin {"wait", "clear"} BY <2>3, <3>1 DEF CloseStage
    <3> QED
      BY <2>1, <3>1, <3>2 DEF Joined, AfterClear, AfterCheck, Busy, BeforeCheck, WithChild, Unspawned
  <2> QED BY <1>1, <2>1, <2>2, <2>3 DEF CloseStage, Joined, AfterClear
<1>5. CASE ShutdownFinish
  <2>1. /\ worker \in Joined /\ main' = "sd_close" /\ row' = Settled(pending, "cancelled")
        /\ cur # NoJob => cur = pending
    BY <1>5 DEF ShutdownFinish, CloseStage
  <2>2. ASSUME NEW j \in Jobs, row'[j] = "running" PROVE WorkerFaults
    <3>1. row[j] = "running" /\ j # pending
      BY <2>1, <2>2 DEF Settled, Present
    <3> QED BY <1>2, <2>1, <3>1
  <2> QED BY <1>1, <2>1, <2>2 DEF CloseStage, Joined
<1> QED BY <1>3, <1>4, <1>5

LEMMA NextClose == Inv /\ RequestInv /\ CloseStage /\ [Next]_vars => CloseStage'
<1> SUFFICES ASSUME Inv, RequestInv, CloseStage, [Next]_vars PROVE CloseStage' OBVIOUS
<1> USE DEF Joined, AfterClear
<1>1. CASE /\ UNCHANGED <<worker, cur, current>>
           /\ \A j \in Jobs : row'[j] = "running" => row[j] = "running"
           /\ UNCHANGED <<main, pending>>
              \/ main' \notin {"sd_pending", "sd_finish", "sd_close"}
  BY <1>1 DEF CloseStage
<1>2. ASSUME NEW h \in Handlers,
             \/ HandlerStep(h)
             \/ \E j \in Jobs : Submit(h, j) \/ CancelRead(h, j) \/ DeleteRead(h, j)
      PROVE  CloseStage'
  <2>1. RequestEffect BY <1>2, HandlerEffect
  <2> QED BY <1>1, <2>1 DEF RequestEffect
<1>3. CASE WorkerStep \/ WorkerTimesOut BY <1>3, WorkerClose
<1>4. ASSUME NEW j \in Jobs, ChildExits(j) \/ KillerFires(j) PROVE CloseStage'
  BY <1>1, <1>4 DEF ChildExits, KillerFires, durable, local, shared, lifetime
<1>5. ASSUME NEW j \in Jobs, SweepRow(j) PROVE CloseStage'
  BY <1>1, <1>5 DEF SweepRow, Interrupted, local, shared, lifetime, Inv, TypeOK, DurableOK
<1>6. CASE Boot \/ ShutdownBegin \/ ShutdownMark \/ ShutdownLook \/ ShutdownSignal
  BY <1>1, <1>6
  DEF Boot, ShutdownBegin, ShutdownMark, ShutdownLook, ShutdownSignal, durable, local, shared
<1>7. CASE ShutdownJoin \/ ShutdownPending \/ ShutdownFinish BY <1>7, ShutdownCloses
<1>8. CASE Start \/ Ends BY <1>8 DEF Start, Ends, CloseStage
<1>9. CASE UNCHANGED vars BY <1>1, <1>9 DEF vars, durable, local, shared, lifetime
<1> QED
  BY <1>2, <1>3, <1>4, <1>5, <1>6, <1>7, <1>8, <1>9
  DEF Next, ShutdownStep, ShutdownClose, Crash

\* A stop that has run to its end leaves a 'running' row or a child only to a job that
\* outlasts the join, or to a worker that an exception had ended (shutdown).
THEOREM StopsCleanly == Spec => CleanStop
<1>1. Init => CloseStage BY DEF Init, CloseStage
<1>2. Spec => [](Inv /\ RequestInv /\ CloseStage)
  <2>1. Init => Inv /\ RequestInv /\ CloseStage BY <1>1, InitInv, InitRequests
  <2>2. Inv /\ RequestInv /\ CloseStage /\ [Next]_vars => (Inv /\ RequestInv /\ CloseStage)'
    BY NextInv, NextRequests, NextClose
  <2> QED BY <2>1, <2>2, PTL DEF Spec
<1>3. ASSUME Inv, CloseStage, main = "sd_close", NEW j \in Jobs
      PROVE  /\ row[j] = "running" => worker \in AfterClear \/ WorkerFaults
             /\ child[j] = "live" => j \in lost \/ SlowKill
  <2>1. row[j] = "running" => worker \in AfterClear \/ WorkerFaults BY <1>3 DEF CloseStage
  <2>2. ~SlowKill => worker \notin WithChild BY <1>3 DEF CloseStage, Joined, WithChild
  <2>3. child[j] = "live" => j \in lost \/ worker \in WithChild
    BY <1>3 DEF Inv, FoundOrLost, Found
  <2> QED BY <2>1, <2>2, <2>3
<1>4. Inv /\ RequestInv /\ CloseStage /\ [Next]_vars =>
        [main = "sd_close" /\ main' = "down" =>
           \A j \in Jobs :
             /\ row[j] = "running" => worker \in AfterClear \/ WorkerFaults
             /\ child[j] = "live" => j \in lost \/ SlowKill]_vars
  BY <1>3
<1> QED BY <1>2, <1>4, PTL DEF Spec, CleanStop

(***************************************************************************)
(* JobRunner implements JobQueue.  The GPU of the queue is the one live    *)
(* child that is not hidden, and a job was served when it has a child.     *)
(***************************************************************************)
Accounted(j) == j \notin lost /\ child[j] = "live"

LEMMA HolderIs ==
  OneLiveChild =>
    /\ \A j \in Jobs : Accounted(j) => Holder = j
    /\ (\A j \in Jobs : ~Accounted(j)) => Holder = NoJob
    /\ Holder # NoJob => Holder \in Jobs /\ \E j \in Jobs : j = Holder /\ Accounted(j)
BY DEF OneLiveChild, Holder, Accounted

LEMMA HolderIsNext ==
  OneLiveChild' =>
    /\ \A j \in Jobs : Accounted(j)' => Holder' = j
    /\ (\A j \in Jobs : ~Accounted(j)') => Holder' = NoJob
    /\ Holder' # NoJob => \E j \in Jobs : j = Holder' /\ Accounted(j)'
BY DEF OneLiveChild, Holder, Accounted

\* The queue sees nothing of a step that leaves rows and children alone.
LEMMA QueueStutters ==
  ASSUME UNCHANGED <<row, child, lost>>
  PROVE  UNCHANGED Queue!vars
BY DEF Queue!vars, Holder

\* One row is written, and no child.
LEMMA RowStep ==
  ASSUME TypeOK, NEW j \in Jobs, UNCHANGED <<child, lost>>,
         \/ row[j] = "absent" /\ row' = [row EXCEPT ![j] = "queued"]
         \/ row[j] # "absent" /\ row' = [row EXCEPT ![j] = "deleted"]
         \/ row' = Settled(j, "cancelled")
  PROVE  Queue!Next \/ UNCHANGED Queue!vars
<1>1. UNCHANGED <<Holder, {i \in Jobs : child[i] # "none"}>> BY DEF Holder
<1>2. j \in Queue!Jobs BY DEF Queue!Jobs, Jobs
<1>3. CASE row[j] = "absent" /\ row' = [row EXCEPT ![j] = "queued"]
  BY <1>1, <1>2, <1>3 DEF Queue!Next, Queue!Submit
<1>4. CASE row[j] # "absent" /\ row' = [row EXCEPT ![j] = "deleted"]
  BY <1>1, <1>2, <1>4 DEF Queue!Next, Queue!Delete
<1>5. CASE row' = Settled(j, "cancelled") /\ Present(j)
  BY <1>1, <1>2, <1>5 DEF Queue!Next, Queue!Cancel, Queue!Gone, Present, Settled
<1>6. CASE row' = Settled(j, "cancelled") /\ ~Present(j)
  BY <1>1, <1>6 DEF Queue!vars, Settled
<1> QED BY <1>3, <1>4, <1>5, <1>6

LEMMA HandlerQueue ==
  ASSUME Inv, RequestInv, NEW h \in Handlers,
         \/ HandlerStep(h)
         \/ \E j \in Jobs : Submit(h, j) \/ CancelRead(h, j) \/ DeleteRead(h, j)
  PROVE  Queue!Next \/ UNCHANGED Queue!vars
<1>1. handler[h] # "idle" => hjob[h] \in Jobs /\ row[hjob[h]] # "absent"
  BY DEF Inv, TypeOK, RequestsOK, NoJob, RequestInv, EndedStage
<1>2. ASSUME NEW j \in Jobs, Submit(h, j) PROVE Queue!Next \/ UNCHANGED Queue!vars
  BY <1>2, RowStep DEF Submit, Inv, history
<1>3. ASSUME NEW j \in Jobs, CancelRead(h, j) \/ DeleteRead(h, j)
      PROVE  UNCHANGED Queue!vars
  BY <1>3, QueueStutters DEF CancelRead, DeleteRead, history, durable
<1>4. CASE CancelFinish(h) \/ DeleteRow(h)
  BY <1>1, <1>4, RowStep DEF CancelFinish, DeleteRow, Inv, history
<1>5. CASE SetWake(h) \/ CancelMark(h) \/ CancelLook(h) \/ CancelSignal(h) \/ DeleteRmtree(h)
  BY <1>5, QueueStutters DEF SetWake, CancelMark, CancelLook, CancelSignal, DeleteRmtree,
     history, durable
<1> QED BY <1>2, <1>3, <1>4, <1>5 DEF HandlerStep

\* While the worker has no child the GPU is free.
LEMMA FreeForWorker ==
  ASSUME Inv, main \notin {"down", "sweep"}, worker \notin WithChild
  PROVE  Holder = NoJob
<1>1. \A j \in Jobs : ~Accounted(j) BY DEF Inv, FoundOrLost, Found, Accounted
<1> QED BY <1>1, HolderIs DEF Inv

LEMMA WorkerQueue ==
  ASSUME Inv, RequestInv, WorkerStep \/ WorkerTimesOut
  PROVE  Queue!Next \/ UNCHANGED Queue!vars
<1> USE DEF Inv, TypeOK, DurableOK, ChildOK, WorkerOK, NoJob, history
<1>1. main \notin {"down", "sweep"} /\ lost' = lost
  BY WorkerChanges DEF WorkerEffect
<1>2. worker \in Busy => cur \in Jobs /\ cur \in Queue!Jobs
  BY DEF Queue!Jobs, Jobs
<1>3. CASE WorkerBegin
  <2>1. Holder = NoJob /\ UNCHANGED <<Holder, {i \in Jobs : child[i] # "none"}>>
    BY <1>1, <1>3, FreeForWorker DEF WorkerBegin, WithChild, Holder
  <2>2. cur \in Queue!Jobs /\ row[cur] \in {"queued", "cancelled", "deleted"}
    BY <1>2, <1>3 DEF WorkerBegin, RowStage, Busy, BeforeCheck, Unspawned
  <2> QED
    BY <1>3, <2>1, <2>2
    DEF WorkerBegin, Settled, Present, Queue!Next, Queue!Begin, Queue!NoJob, Queue!vars
<1>4. CASE WorkerSpawn
  <2>1. Holder = NoJob BY <1>1, <1>4, FreeForWorker DEF WorkerSpawn, WithChild
  <2>2. /\ cur \in Jobs /\ cur \in Queue!Jobs /\ child[cur] = "none" /\ cur \notin lost
        /\ row[cur] \in {"running", "cancelled", "deleted"}
    BY <1>2, <1>4 DEF WorkerSpawn, RowStage, ChildStage, Busy, BeforeCheck, Unspawned,
       RequestInv, EndedStage
  <2>3. CASE child' = [child EXCEPT ![cur] = "live"] /\ row' = row
    <3>1. OneLiveChild' BY <1>4, SpawnInv
    <3>2. ASSUME NEW j \in Jobs, j = cur PROVE Accounted(j)'
      BY <1>1, <2>2, <2>3, <3>2 DEF Accounted
    <3>3. Holder' = cur BY <2>2, <3>1, <3>2, HolderIsNext
    <3>4. {i \in Jobs : child'[i] # "none"} = {i \in Jobs : child[i] # "none"} \cup {cur}
      BY <2>2, <2>3
    <3> QED
      BY <2>1, <2>2, <2>3, <3>3, <3>4
      DEF Queue!Next, Queue!Acquire, Queue!NoJob, Queue!Undecided
  <2>4. CASE row' = Settled(cur, "failed") /\ child' = child
    <3>1. UNCHANGED <<Holder, {i \in Jobs : child[i] # "none"}>> BY <1>1, <2>4 DEF Holder
    <3> QED
      BY <2>1, <2>2, <2>4, <3>1 DEF Settled, Present, Queue!Next, Queue!Fail, Queue!NoJob, Queue!vars
  <2> QED BY <1>4, <2>3, <2>4 DEF WorkerSpawn
<1>5. CASE WorkerFinish
  <2>1. Holder = NoJob /\ UNCHANGED <<Holder, {i \in Jobs : child[i] # "none"}>>
    BY <1>1, <1>5, FreeForWorker DEF WorkerFinish, WithChild, Holder
  <2>2. /\ cur \in Jobs /\ cur \in Queue!Jobs /\ child[cur] \in Finished /\ outcome \in Terminal
        /\ row[cur] \in {"running", "cancelled", "deleted"}
    BY <1>2, <1>5 DEF WorkerFinish, RowStage, ChildStage, Busy, BeforeCheck, AfterCheck, Unspawned
  <2>3. row' = Settled(cur, outcome) BY <1>5 DEF WorkerFinish
  <2>4. CASE outcome = "cancelled"
    <3>1. TypeOK /\ UNCHANGED <<child, lost>> BY <1>1, <1>5 DEF WorkerFinish
    <3>2. cur \in Jobs /\ row' = Settled(cur, "cancelled") BY <2>2, <2>3, <2>4
    <3> HIDE DEF Inv, TypeOK, DurableOK, ChildOK, WorkerOK, NoJob, history
    <3> QED BY <3>1, <3>2, RowStep
  <2>5. CASE outcome = "completed"
    <3>1. ~Present(cur) => row' = row BY <2>3 DEF Settled
    <3>2. Present(cur) => Queue!Complete(cur)
      <4>1. cur # NoJob /\ cur \in {i \in Jobs : child[i] # "none"} BY <2>2 DEF Finished, Jobs
      <4>2. Present(cur) => row[cur] \in {"running", "cancelled"} BY <2>2 DEF Present
      <4> QED BY <2>1, <2>3, <2>5, <4>1, <4>2 DEF Settled, Queue!Complete
    <3> QED BY <2>1, <2>2, <3>1, <3>2 DEF Queue!Next, Queue!vars
  <2>6. CASE outcome = "failed"
    BY <2>1, <2>2, <2>3, <2>6 DEF Settled, Present, Queue!Next, Queue!Fail, Queue!NoJob, Queue!vars
  <2> QED BY <2>2, <2>4, <2>5, <2>6 DEF Terminal
<1>6. CASE WorkerStep /\ ~WorkerBegin /\ ~WorkerSpawn /\ ~WorkerFinish
  BY <1>1, <1>6, QueueStutters DEF WorkerStep, WorkerWakes, WorkerSelect, WorkerMkdir,
     WorkerRecord, WorkerRegister, WorkerStopChild, WorkerReap, WorkerClear, WorkerCheck,
     WorkerPost, durable
<1>7. CASE WorkerTimesOut
  BY <1>7, QueueStutters DEF WorkerTimesOut, durable
<1> QED BY <1>3, <1>4, <1>5, <1>6, <1>7 DEF WorkerStep

\* When children only end, or are given up as lost, the GPU stays or is released.
LEMMA HolderLeaves ==
  ASSUME OneLiveChild, OneLiveChild',
         \A j \in Jobs : Accounted(j)' => Accounted(j)
  PROVE  Holder' \in {Holder, NoJob}
BY HolderIs, HolderIsNext

LEMMA QueueReleases ==
  ASSUME Inv, Inv', row' = row, lost \subseteq lost',
         \A j \in Jobs : child'[j] = child[j] \/ (child[j] = "live" /\ child'[j] \in Finished)
  PROVE  Queue!Next \/ UNCHANGED Queue!vars
<1>1. \A j \in Jobs : Accounted(j)' => Accounted(j) BY DEF Accounted, Finished
<1>2. Holder' \in {Holder, NoJob} BY <1>1, HolderLeaves DEF Inv
<1>3. {j \in Jobs : child'[j] # "none"} = {j \in Jobs : child[j] # "none"} BY DEF Finished
<1> QED BY <1>2, <1>3 DEF Queue!Next, Queue!Release, Queue!NoJob, Queue!vars, NoJob

LEMMA RestQueue ==
  ASSUME Inv, Inv',
         \/ \E j \in Jobs : ChildExits(j) \/ KillerFires(j)
         \/ Boot \/ Start \/ ShutdownBegin \/ ShutdownStep \/ Crash
  PROVE  Queue!Next \/ UNCHANGED Queue!vars
<1> USE DEF history, durable
<1>1. ASSUME NEW j \in Jobs, ChildExits(j) \/ KillerFires(j)
      PROVE  Queue!Next \/ UNCHANGED Queue!vars
  <2>1. \A i \in Jobs : child'[i] = child[i] \/ (child[i] = "live" /\ child'[i] \in Finished)
    BY <1>1, ChildEndsOnly DEF Inv, TypeOK
  <2>2. row' = row /\ lost' = lost BY <1>1 DEF ChildExits, KillerFires
  <2> QED BY <2>1, <2>2, QueueReleases
<1>2. CASE Ends
  <2>1. row' = row /\ child' = child /\ lost \subseteq lost' BY <1>2 DEF Ends
  <2> QED BY <2>1, QueueReleases
<1>3. CASE ShutdownFinish
  <2>1. pending \in Jobs /\ row' = Settled(pending, "cancelled") /\ UNCHANGED <<child, lost>>
    BY <1>3 DEF ShutdownFinish, Inv, TypeOK, LifetimeOK, NoJob
  <2> QED BY <2>1, RowStep DEF Inv
<1>4. CASE \/ Boot \/ Start \/ ShutdownBegin \/ ShutdownMark \/ ShutdownLook
           \/ ShutdownSignal \/ ShutdownJoin \/ ShutdownPending
  BY <1>4, QueueStutters
  DEF Boot, Start, ShutdownBegin, ShutdownMark, ShutdownLook, ShutdownSignal,
      ShutdownJoin, ShutdownPending
<1> QED BY <1>1, <1>2, <1>3, <1>4 DEF ShutdownStep, ShutdownClose, Crash

\* The sweep takes the GPU back from the child whose row it fails.
LEMMA SweepQueue ==
  ASSUME Inv, Inv', NEW j \in Jobs, SweepRow(j)
  PROVE  Queue!Next
<1>1. worker = "off" /\ main = "sweep" /\ lost' = lost /\ row[j] = "running"
  BY DEF SweepRow, Inv, NothingBeforeStart, history
<1>2. \A i \in Jobs : child'[i] = IF i = j /\ pid[j] /\ child[j] = "live" THEN "bad" ELSE child[i]
  BY DEF SweepRow, SweptChild, Killed, Inv, TypeOK, ChildOK
<1>3. Accounted(j) => pid[j]
  BY <1>1 DEF Accounted, Inv, FoundOrLost, Found, WithChild
<1>4. \A i \in Jobs : Accounted(i)' <=> Accounted(i) /\ i # j
  BY <1>1, <1>2, <1>3 DEF Accounted
<1>5. Holder' = IF Holder = j THEN NoJob ELSE Holder
  BY <1>4, HolderIs, HolderIsNext DEF Inv, NoJob, Jobs
<1>6. {i \in Jobs : child'[i] # "none"} = {i \in Jobs : child[i] # "none"} BY <1>2
<1>7. Queue!Fail(j)
  BY <1>1, <1>5, <1>6 DEF SweepRow, Interrupted, Queue!Fail, Queue!NoJob, NoJob
<1> QED BY <1>7 DEF Queue!Next, Queue!Jobs, Jobs

LEMMA InitQueue == Init => Queue!Init
<1> SUFFICES ASSUME Init PROVE Queue!Init OBVIOUS
<1>1. Holder = NoJob /\ {j \in Jobs : child[j] # "none"} = {} BY DEF Init, Holder
<1> QED BY <1>1 DEF Init, Queue!Init, Queue!NoJob, Queue!Jobs, NoJob, Jobs

\* Every statement, lock section, signal and crash is a step of the queue or changes
\* nothing it sees.
THEOREM RunnerIsQueue == Spec => ImplementsQueue
<1>1. Inv /\ RequestInv /\ Inv' /\ [Next]_vars => [Queue!Next]_(Queue!vars)
  <2> SUFFICES ASSUME Inv, RequestInv, Inv', [Next]_vars
               PROVE  Queue!Next \/ UNCHANGED Queue!vars
    OBVIOUS
  <2>1. CASE UNCHANGED vars
    BY <2>1, QueueStutters DEF vars, durable, history
  <2>2. ASSUME NEW h \in Handlers,
               \/ HandlerStep(h)
               \/ \E j \in Jobs : Submit(h, j) \/ CancelRead(h, j) \/ DeleteRead(h, j)
        PROVE  Queue!Next \/ UNCHANGED Queue!vars
    BY <2>2, HandlerQueue
  <2>3. CASE WorkerStep \/ WorkerTimesOut BY <2>3, WorkerQueue
  <2>4. ASSUME NEW j \in Jobs, SweepRow(j) PROVE Queue!Next BY <2>4, SweepQueue
  <2>5. CASE \/ \E j \in Jobs : ChildExits(j) \/ KillerFires(j)
             \/ Boot \/ Start \/ ShutdownBegin \/ ShutdownStep \/ Crash
    BY <2>5, RestQueue
  <2> QED BY <2>1, <2>2, <2>3, <2>4, <2>5 DEF Next
<1> QED
  BY <1>1, InitQueue, RequestInvariance, PTL DEF Spec, ImplementsQueue, Queue!Spec
=============================================================================
