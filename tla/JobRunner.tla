----------------------------- MODULE JobRunner -----------------------------
(***************************************************************************)
(* The serial job queue of the web backend (webui/backend/app/runner.py):  *)
(* one worker thread that claims queued rows of the jobs table and runs    *)
(* ./h3 for each, the HTTP request handlers that submit, cancel and delete *)
(* jobs from a thread pool, the SIGKILL timers a cancellation arms, the    *)
(* main thread that starts and shuts the runner down, and a backend that   *)
(* may crash between any two steps while the child, born in a session of   *)
(* its own, lives on.                                                      *)
(*                                                                         *)
(* Grain: one SQLite statement (serialised by Database._lock and committed *)
(* at once), one section under JobRunner._lock, one system call.  Left     *)
(* out: progress figures, phases and listeners (module JobEvents), argv,   *)
(* log and paths, and the text of errors.                                  *)
(*                                                                         *)
(* A definition named X_Fault is X with a plausible mistake in it.  Nothing *)
(* uses it: it documents which mistake the properties below would catch.   *)
(***************************************************************************)
EXTENDS Integers, FiniteSets

CONSTANTS
  NJobs,         \* how many rows may be inserted (ids are 1, 2, ... NJobs)
  Handlers,      \* threads serving requests
  MaxBoots,      \* how many times the backend is started
  Crashes,       \* TRUE: the backend may die at any step
  Stops,         \* TRUE: the backend may be asked to shut down
  WorkerFaults,  \* TRUE: an exception _loop does not catch may end the worker
  SlowKill       \* TRUE: H3_KILL_GRACE is not below the 30 s join of shutdown

ASSUME JobRunnerAssumption ==
  /\ NJobs \in Nat \ {0}
  /\ MaxBoots \in Nat \ {0}
  /\ Crashes \in BOOLEAN /\ Stops \in BOOLEAN
  /\ WorkerFaults \in BOOLEAN /\ SlowKill \in BOOLEAN

Jobs  == 1 .. NJobs
NoJob == 0

VARIABLES
  row,       \* durable: jobs.state, or "absent" before INSERT, "deleted" after
  pid,       \* durable: jobs.pid is recorded (a job's child names its pid)
  dir,       \* durable: the job directories that exist
  child,     \* the h3 spawned for a job: "none", "live", exited "ok" or "bad"
  main,      \* program counter of the lifespan (main) thread
  worker,    \* program counter of the worker thread
  cur,       \* the worker's local job
  outcome,   \* the worker's local verdict, once it has one
  current,   \* _process, _pgid and _current, always written together
  cancelled, \* _cancelled
  stop,      \* _stop
  wake,      \* _wake
  killers,   \* the jobs whose group an armed timer will SIGKILL
  handler,   \* program counter of each request handler
  hjob,      \* the job each handler works on
  hseen,     \* the state cancel() read, acted on after the read
  pending,   \* shutdown's local copy of _current
  boots,     \* bound: how many times the backend was started
  lost,      \* history: children a backend left live in no row that is swept
  gap,       \* history: those of them it had not recorded since Popen
  due        \* history: jobs cancelled before the worker looked at _cancelled

durable  == <<row, pid, dir>>
local    == <<cur, outcome>>
shared   == <<current, cancelled, stop, wake, killers>>
requests == <<handler, hjob, hseen>>
lifetime == <<main, pending, boots>>
history  == <<lost, gap, due>>
vars == <<durable, child, worker, local, shared, requests, lifetime, history>>

Terminal == {"completed", "failed", "cancelled"}
RowStates == Terminal \cup {"absent", "queued", "running", "deleted"}
Finished == {"ok", "bad"}

\* The worker's steps between its SELECT and its look at _cancelled.
Unspawned   == {"claim", "begin", "spawn"}
WithChild   == {"record", "register", "stopchild", "wait"}
BeforeCheck == Unspawned \cup WithChild \cup {"clear", "check"}
AfterCheck  == {"post", "finish"}
Busy        == BeforeCheck \cup AfterCheck
WorkerPCs   == Busy \cup {"off", "idle", "select", "dead"}
HandlerPCs  == {"idle", "setwake", "mark", "look", "signal", "finish",
                "rmtree", "drop"}
ShutdownPCs == {"sd_mark", "sd_look", "sd_signal", "sd_join", "sd_pending",
                "sd_finish", "sd_close"}
MainPCs     == {"down", "sweep", "serving"} \cup ShutdownPCs

Present(j) == row[j] \notin {"absent", "deleted"}

\* _finish: one UPDATE, whatever the row says now; no row, no effect.
Settled(j, s) == IF Present(j) THEN [row EXCEPT ![j] = s] ELSE row
NoPid(j) == [pid EXCEPT ![j] = FALSE]

\* A cancellation of j the worker has not yet had its one chance to see.
Unseen(j) == row[j] = "queued" \/ (cur = j /\ worker \in BeforeCheck)

\* _signal_group: a group with no process left is suppressed.
Killed(j) == IF child[j] = "live" THEN [child EXCEPT ![j] = "bad"] ELSE child

Init ==
  /\ row = [j \in Jobs |-> "absent"]
  /\ pid = [j \in Jobs |-> FALSE]
  /\ dir = {}
  /\ child = [j \in Jobs |-> "none"]
  /\ main = "down" /\ pending = NoJob /\ boots = 0
  /\ worker = "off" /\ cur = NoJob /\ outcome = "none"
  /\ current = NoJob /\ cancelled = {} /\ stop = FALSE /\ wake = FALSE
  /\ killers = {}
  /\ handler = [h \in Handlers |-> "idle"]
  /\ hjob = [h \in Handlers |-> NoJob]
  /\ hseen = [h \in Handlers |-> "none"]
  /\ lost = {} /\ gap = {} /\ due = {}

(***************************************************************************)
(* The request handlers.                                                   *)
(***************************************************************************)
Goto(h, pc) == handler' = [handler EXCEPT ![h] = pc]

Return(h) ==
  /\ Goto(h, "idle")
  /\ hjob' = [hjob EXCEPT ![h] = NoJob]
  /\ hseen' = [hseen EXCEPT ![h] = "none"]

Call(h, j, pc, seen) ==
  /\ main = "serving"
  /\ handler[h] = "idle"
  /\ Goto(h, pc)
  /\ hjob' = [hjob EXCEPT ![h] = j]
  /\ hseen' = [hseen EXCEPT ![h] = seen]

\* submit: INSERT gives the next id (AUTOINCREMENT: an id is never used twice).
Submit(h, j) ==
  /\ row[j] = "absent"
  /\ \A i \in Jobs : i < j => row[i] # "absent"
  /\ Call(h, j, "setwake", "none")
  /\ row' = [row EXCEPT ![j] = "queued"]
  /\ UNCHANGED <<pid, dir, child, worker, local, shared, lifetime, history>>

\* submit: self._wake.set() after the INSERT.
SetWake(h) ==
  /\ handler[h] = "setwake"
  /\ wake' = TRUE
  /\ Return(h)
  /\ UNCHANGED <<durable, child, worker, local, current, cancelled, stop,
                 killers, lifetime, history>>

\* cancel: the state is read first, and not again.  A terminal job returns.
CancelRead(h, j) ==
  /\ row[j] \in {"queued", "running"}
  /\ Call(h, j, "mark", row[j])
  /\ UNCHANGED <<durable, child, worker, local, shared, lifetime, history>>

Recorded_IfCurrent(j) == IF current = j THEN cancelled \cup {j} ELSE cancelled

\* cancel: recorded first, whether the job is the current one or not.
Recorded(j) == cancelled \cup {j}

\* cancel: the section under _lock, and the branch on what it and the read saw.
CancelMark(h) ==
  LET j == hjob[h] IN
  /\ handler[h] = "mark"
  /\ cancelled' = Recorded(j)
  /\ due' = IF Unseen(j) THEN due \cup {j} ELSE due
  /\ \/ /\ current = j
        /\ Goto(h, "look")
        /\ UNCHANGED <<hjob, hseen>>
     \/ /\ current # j
        /\ hseen[h] = "queued"
        /\ Goto(h, "finish")
        /\ UNCHANGED <<hjob, hseen>>
     \/ /\ current # j
        /\ hseen[h] # "queued"
        /\ Return(h)
  /\ UNCHANGED <<durable, child, worker, local, current, stop, wake, killers,
                 lifetime, lost, gap>>

\* cancel_current: _process is read under _lock, then polled.
ChildRuns == current # NoJob /\ child[current] = "live"

CancelLook(h) ==
  /\ handler[h] = "look"
  /\ \/ ChildRuns /\ Goto(h, "signal") /\ UNCHANGED <<hjob, hseen>>
     \/ ~ChildRuns /\ Return(h)
  /\ UNCHANGED <<durable, child, worker, local, shared, lifetime, history>>

\* SIGTERM for the group _pgid names now, and the timer that follows it up.  A
\* child ends when it likes, before or after a SIGTERM (it may trap the signal),
\* so what is left of the signal is the timer.
Terminate_NoTimer(j) == UNCHANGED killers
Terminate(j) == killers' = killers \cup {j}

\* cancel_current: _pgid is read in a second section under _lock, and signalled.
CancelSignal(h) ==
  /\ handler[h] = "signal"
  /\ \/ current # NoJob /\ Terminate(current)
     \/ current = NoJob /\ UNCHANGED killers
  /\ Return(h)
  /\ UNCHANGED <<durable, child, worker, local, current, cancelled, stop, wake,
                 lifetime, history>>

\* cancel: _finish(job_id, "cancelled") for a job that was queued when read.
CancelFinish(h) ==
  /\ handler[h] = "finish"
  /\ row' = Settled(hjob[h], "cancelled")
  /\ pid' = NoPid(hjob[h])
  /\ Return(h)
  /\ UNCHANGED <<dir, child, worker, local, shared, lifetime, history>>

Deletable_Running == Terminal \cup {"running"}
Deletable == Terminal

\* delete: only a job that is read in a terminal state.
DeleteRead(h, j) ==
  /\ row[j] \in Deletable
  /\ Call(h, j, "rmtree", "none")
  /\ UNCHANGED <<durable, child, worker, local, shared, lifetime, history>>

\* delete: the directory goes first; if it cannot be removed the row stays.
DeleteRmtree(h) ==
  /\ handler[h] = "rmtree"
  /\ \/ /\ dir' = dir \ {hjob[h]}
        /\ Goto(h, "drop")
        /\ UNCHANGED <<hjob, hseen>>
     \/ /\ hjob[h] \in dir
        /\ Return(h)
        /\ UNCHANGED dir
  /\ UNCHANGED <<row, pid, child, worker, local, shared, lifetime, history>>

\* delete: DELETE FROM jobs, whatever the state of the row is by now.
DeleteRow(h) ==
  /\ handler[h] = "drop"
  /\ row' = [row EXCEPT ![hjob[h]] = "deleted"]
  /\ pid' = NoPid(hjob[h])
  /\ Return(h)
  /\ UNCHANGED <<dir, child, worker, local, shared, lifetime, history>>

HandlerStep(h) ==
  \/ SetWake(h) \/ CancelMark(h) \/ CancelLook(h) \/ CancelSignal(h)
  \/ CancelFinish(h) \/ DeleteRmtree(h) \/ DeleteRow(h)

(***************************************************************************)
(* The worker thread.                                                      *)
(***************************************************************************)
Claimable_Retry == {j \in Jobs : row[j] \in {"queued", "failed"}}
Claimable == {j \in Jobs : row[j] = "queued"}

\* SELECT ... ORDER BY id LIMIT 1.
Oldest == {j \in Claimable : \A i \in Claimable : j <= i}

\* _loop: _wake.wait() returns because the event is set; clear() before SELECT.
WorkerWakes ==
  /\ worker = "idle" /\ wake
  /\ worker' = "select" /\ wake' = FALSE
  /\ UNCHANGED <<durable, child, local, current, cancelled, stop, killers,
                 requests, lifetime, history>>

\* _loop: _wake.wait(timeout=1.0) returns because a second has passed.
WorkerTimesOut ==
  /\ worker = "idle" /\ ~wake
  /\ worker' = "select"
  /\ UNCHANGED <<durable, child, local, shared, requests, lifetime, history>>

\* _loop: _stop is tested, then the oldest queued row is selected.
WorkerSelect ==
  /\ worker = "select"
  /\ \/ stop /\ worker' = "dead" /\ UNCHANGED cur
     \/ ~stop /\ Claimable = {} /\ worker' = "idle" /\ UNCHANGED cur
     \/ ~stop /\ cur' \in Oldest /\ worker' = "claim"
  /\ UNCHANGED <<durable, child, outcome, shared, requests, lifetime, history>>

\* _run: the directories; an OSError here is caught by nobody.
WorkerMkdir ==
  /\ worker = "claim"
  /\ \/ dir' = dir \cup {cur} /\ worker' = "begin" /\ UNCHANGED cur
     \/ WorkerFaults /\ worker' = "dead" /\ cur' = NoJob /\ UNCHANGED dir
  /\ UNCHANGED <<row, pid, child, outcome, shared, requests, lifetime, history>>

\* _run: UPDATE ... state='running', whatever the row says by now.
WorkerBegin ==
  /\ worker = "begin"
  /\ row' = Settled(cur, "running")
  /\ worker' = "spawn"
  /\ UNCHANGED <<pid, dir, child, local, shared, requests, lifetime, history>>

AfterJob_NoLoop == "idle"

\* _loop: the inner loop selects again, until no job is queued.
AfterJob == "select"

\* _run: Popen, or _finish(job_id, "failed") when it raises OSError.
WorkerSpawn ==
  /\ worker = "spawn"
  /\ \/ /\ child' = [child EXCEPT ![cur] = "live"]
        /\ worker' = "record"
        /\ UNCHANGED <<row, pid, cur>>
     \/ /\ row' = Settled(cur, "failed") /\ pid' = NoPid(cur)
        /\ worker' = AfterJob /\ cur' = NoJob
        /\ UNCHANGED child
  /\ UNCHANGED <<dir, outcome, shared, requests, lifetime, history>>

\* _run: UPDATE jobs SET pid, whatever the row says by now.
WorkerRecord ==
  /\ worker = "record"
  /\ pid' = IF Present(cur) THEN [pid EXCEPT ![cur] = TRUE] ELSE pid
  /\ worker' = "register"
  /\ UNCHANGED <<row, dir, child, local, shared, requests, lifetime, history>>

StopCancels_Ignored == cancelled

\* _run: a stop that comes between the claim and here is a cancellation.
StopCancels == IF stop THEN cancelled \cup {cur} ELSE cancelled

\* _run: the section under _lock that publishes the child.
WorkerRegister ==
  /\ worker = "register"
  /\ current' = cur
  /\ cancelled' = StopCancels
  /\ due' = IF stop THEN due \cup {cur} ELSE due
  /\ worker' = IF cur \in cancelled' THEN "stopchild" ELSE "wait"
  /\ UNCHANGED <<durable, child, local, stop, wake, killers, requests, lifetime,
                 lost, gap>>

\* _run: cancel_current() on the worker's own child, which nobody else replaces.
WorkerStopChild ==
  /\ worker = "stopchild"
  /\ \/ child[cur] = "live" /\ Terminate(cur)
     \/ child[cur] # "live" /\ UNCHANGED killers
  /\ worker' = "wait"
  /\ UNCHANGED <<durable, child, local, current, cancelled, stop, wake, requests,
                 lifetime, history>>

Reaped_NoWait == TRUE
Reaped == child[cur] \in Finished

\* _run: wait() returns, the group is swept with SIGKILL, the reader is joined.
WorkerReap ==
  /\ worker = "wait"
  /\ Reaped
  /\ worker' = "clear"
  /\ UNCHANGED <<durable, child, local, shared, requests, lifetime, history>>

\* _run: the section that forgets the child ...
WorkerClear ==
  /\ worker = "clear"
  /\ current' = NoJob
  /\ worker' = "check"
  /\ UNCHANGED <<durable, child, local, cancelled, stop, wake, killers, requests,
                 lifetime, history>>

Succeeded == child[cur] = "ok"

WasCancelled_Inferred == cur \in cancelled /\ ~Succeeded
WasCancelled == cur \in cancelled

\* ... and the one that reads whether the job was cancelled.
WorkerCheck ==
  /\ worker = "check"
  /\ cancelled' = cancelled \ {cur}
  /\ \/ Succeeded /\ ~WasCancelled /\ worker' = "post" /\ UNCHANGED outcome
     \/ WasCancelled /\ worker' = "finish" /\ outcome' = "cancelled"
     \/ ~Succeeded /\ ~WasCancelled /\ worker' = "finish" /\ outcome' = "failed"
  /\ UNCHANGED <<durable, child, cur, current, stop, wake, killers, requests,
                 lifetime, history>>

\* _run: run_stage, up to an hour per plugin; only PluginError is caught.
WorkerPost ==
  /\ worker = "post"
  /\ \/ worker' = "finish" /\ outcome' \in {"completed", "failed"} /\ UNCHANGED cur
     \/ WorkerFaults /\ worker' = "dead" /\ cur' = NoJob /\ UNCHANGED outcome
  /\ UNCHANGED <<durable, child, shared, requests, lifetime, history>>

\* _run: _finish, whatever the row says by now; back to the inner loop.
WorkerFinish ==
  /\ worker = "finish"
  /\ row' = Settled(cur, outcome)
  /\ pid' = NoPid(cur)
  /\ worker' = AfterJob /\ cur' = NoJob /\ outcome' = "none"
  /\ UNCHANGED <<dir, child, shared, requests, lifetime, history>>

WorkerStep ==
  \/ WorkerWakes \/ WorkerSelect \/ WorkerMkdir \/ WorkerBegin \/ WorkerSpawn
  \/ WorkerRecord \/ WorkerRegister \/ WorkerStopChild \/ WorkerReap
  \/ WorkerClear \/ WorkerCheck \/ WorkerPost \/ WorkerFinish

(***************************************************************************)
(* The child and the timers.                                               *)
(***************************************************************************)
\* h3 ends, with status 0 or not; after a SIGTERM too it may be either.
ChildExits(j) ==
  /\ child[j] = "live"
  /\ child' \in {[child EXCEPT ![j] = s] : s \in Finished}
  /\ UNCHANGED <<durable, worker, local, shared, requests, lifetime, history>>

\* cancel_current's threading.Timer: SIGKILL for the group.
KillerFires(j) ==
  /\ j \in killers
  /\ killers' = killers \ {j}
  /\ child' = Killed(j)
  /\ UNCHANGED <<durable, worker, local, current, cancelled, stop, wake, requests,
                 lifetime, history>>

(***************************************************************************)
(* The lifetime of the backend.                                            *)
(***************************************************************************)
Boot ==
  /\ main = "down" /\ boots < MaxBoots
  /\ main' = "sweep" /\ boots' = boots + 1
  /\ UNCHANGED <<durable, child, worker, local, shared, requests, pending, history>>

SweptChild_Spared(j) == child

\* start: the recorded process, if it is alive, is killed with its group.
SweptChild(j) == IF pid[j] THEN Killed(j) ELSE child

Interrupted_Requeued(j) == [row EXCEPT ![j] = "queued"]
Interrupted(j) == [row EXCEPT ![j] = "failed"]

Swept_NotAll == TRUE
Swept == \A j \in Jobs : row[j] # "running"

\* start: a row left 'running' is failed, its recorded child killed if alive.
SweepRow(j) ==
  /\ main = "sweep"
  /\ row[j] = "running"
  /\ child' = SweptChild(j)
  /\ row' = Interrupted(j)
  /\ pid' = NoPid(j)
  /\ UNCHANGED <<dir, worker, local, shared, requests, lifetime, history>>

\* start: the thread starts and is woken; requests are served from here on.
Start ==
  /\ main = "sweep"
  /\ Swept
  /\ main' = "serving" /\ worker' = "idle" /\ wake' = TRUE
  /\ UNCHANGED <<durable, child, local, current, cancelled, stop, killers,
                 requests, pending, boots, history>>

\* uvicorn drains the requests in flight, then shutdown() sets both events.
ShutdownBegin ==
  /\ Stops
  /\ main = "serving"
  /\ \A h \in Handlers : handler[h] = "idle"
  /\ main' = "sd_mark" /\ stop' = TRUE /\ wake' = TRUE
  /\ UNCHANGED <<durable, child, worker, local, current, cancelled, killers,
                 requests, pending, boots, history>>

\* shutdown: the section under _lock that cancels the current job.
ShutdownMark ==
  /\ main = "sd_mark"
  /\ \/ /\ current # NoJob
        /\ cancelled' = cancelled \cup {current}
        /\ due' = IF Unseen(current) THEN due \cup {current} ELSE due
     \/ current = NoJob /\ UNCHANGED <<cancelled, due>>
  /\ main' = "sd_look"
  /\ UNCHANGED <<durable, child, worker, local, current, stop, wake, killers,
                 requests, pending, boots, lost, gap>>

\* shutdown: cancel_current, as in a handler.
ShutdownLook ==
  /\ main = "sd_look"
  /\ main' = IF ChildRuns THEN "sd_signal" ELSE "sd_join"
  /\ UNCHANGED <<durable, child, worker, local, shared, requests, pending, boots,
                 history>>

ShutdownSignal ==
  /\ main = "sd_signal"
  /\ \/ current # NoJob /\ Terminate(current)
     \/ current = NoJob /\ UNCHANGED killers
  /\ main' = "sd_join"
  /\ UNCHANGED <<durable, child, worker, local, current, cancelled, stop, wake,
                 requests, pending, boots, history>>

Outlasts_Anything == TRUE

\* join(timeout=30) gives up wherever the worker is by then.  Timing assumption:
\* the steps of the worker that can take that long are a plugin, and the wait for a
\* child that ignores SIGTERM when the timer is set no earlier than that.
Outlasts == worker = "post" \/ (SlowKill /\ worker = "wait")

ShutdownJoin ==
  /\ main = "sd_join"
  /\ worker = "dead" \/ Outlasts
  /\ main' = "sd_pending"
  /\ UNCHANGED <<durable, child, worker, local, shared, requests, pending, boots,
                 history>>

\* shutdown: _current is read under _lock ...
ShutdownPending ==
  /\ main = "sd_pending"
  /\ pending' = current
  /\ main' = IF current = NoJob THEN "sd_close" ELSE "sd_finish"
  /\ UNCHANGED <<durable, child, worker, local, shared, requests, boots, history>>

\* ... and the job it names is recorded as cancelled.
ShutdownFinish ==
  /\ main = "sd_finish"
  /\ row' = Settled(pending, "cancelled")
  /\ pid' = NoPid(pending)
  /\ main' = "sd_close"
  /\ UNCHANGED <<dir, child, worker, local, shared, requests, pending, boots,
                 history>>

\* What a backend that ends leaves behind: every thread, lock and timer of its
\* process is gone; rows, directories and children stay.  A child no 'running'
\* row records is out of the reach of the next start, whatever the reason: that
\* it was in the gap between Popen and UPDATE pid is one of them.
Ends ==
  /\ main' = "down" /\ pending' = NoJob
  /\ worker' = "off" /\ cur' = NoJob /\ outcome' = "none"
  /\ current' = NoJob /\ cancelled' = {} /\ stop' = FALSE /\ wake' = FALSE
  /\ killers' = {}
  /\ handler' = [h \in Handlers |-> "idle"]
  /\ hjob' = [h \in Handlers |-> NoJob]
  /\ hseen' = [h \in Handlers |-> "none"]
  /\ lost' = lost \cup {j \in Jobs : /\ child[j] = "live"
                                     /\ ~(row[j] = "running" /\ pid[j])}
  /\ gap' = gap \cup {j \in Jobs : child[j] = "live" /\ cur = j /\ worker = "record"}
  /\ due' = {j \in due : row[j] # "queued"}
  /\ UNCHANGED <<durable, child, boots>>

\* lifespan: the database is closed and the interpreter exits; a worker that is
\* still busy gets Closed, or is a daemon thread of a process that is gone.
ShutdownClose == main = "sd_close" /\ Ends

ShutdownStep ==
  \/ ShutdownMark \/ ShutdownLook \/ ShutdownSignal \/ ShutdownJoin
  \/ ShutdownPending \/ ShutdownFinish \/ ShutdownClose

Crash == Crashes /\ main # "down" /\ Ends

Next ==
  \/ \E h \in Handlers :
       \/ HandlerStep(h)
       \/ \E j \in Jobs : Submit(h, j) \/ CancelRead(h, j) \/ DeleteRead(h, j)
  \/ WorkerStep \/ WorkerTimesOut
  \/ \E j \in Jobs : ChildExits(j) \/ KillerFires(j) \/ SweepRow(j)
  \/ Boot \/ Start
  \/ ShutdownBegin \/ ShutdownStep
  \/ Crash

Spec == Init /\ [][Next]_vars

(***************************************************************************)
(* Fairness.  The worker and the handlers are threads that are never kept  *)
(* from running for ever; a timer fires; uvicorn and systemd or Docker     *)
(* boot the backend.  Nothing obliges a user to send a request, a child to *)
(* end, the one-second timeout of the wait to pass, or a backend to die.   *)
(***************************************************************************)
Fairness ==
  /\ WF_vars(Boot) /\ WF_vars(Start)
  /\ WF_vars(WorkerStep) /\ WF_vars(ShutdownStep)
  /\ \A h \in Handlers : WF_vars(HandlerStep(h))
  /\ \A j \in Jobs : WF_vars(KillerFires(j)) /\ WF_vars(SweepRow(j))

\* A generation takes long but not for ever.
ChildrenEnd == \A j \in Jobs : WF_vars(ChildExits(j))

FairSpec == Spec /\ Fairness

(***************************************************************************)
(* Properties.                                                             *)
(***************************************************************************)
DurableOK ==
  /\ row \in [Jobs -> RowStates]
  /\ pid \in [Jobs -> BOOLEAN]
  /\ dir \in SUBSET Jobs

ChildOK == child \in [Jobs -> {"none", "live"} \cup Finished]

WorkerOK ==
  /\ worker \in WorkerPCs
  /\ cur \in Jobs \cup {NoJob}
  /\ (worker \in Busy) <=> (cur # NoJob)
  /\ outcome \in Terminal \cup {"none"}
  /\ (worker = "finish") <=> (outcome # "none")

SharedOK ==
  /\ current \in Jobs \cup {NoJob}
  /\ cancelled \in SUBSET Jobs
  /\ stop \in BOOLEAN
  /\ wake \in BOOLEAN
  /\ killers \in SUBSET Jobs

RequestsOK ==
  /\ handler \in [Handlers -> HandlerPCs]
  /\ hjob \in [Handlers -> Jobs \cup {NoJob}]
  /\ hseen \in [Handlers -> {"none", "queued", "running"}]
  /\ \A h \in Handlers : (handler[h] = "idle") <=> (hjob[h] = NoJob)

LifetimeOK ==
  /\ main \in MainPCs
  /\ pending \in Jobs \cup {NoJob}
  /\ (main = "sd_finish") => (pending # NoJob)
  /\ boots \in 0 .. MaxBoots

TypeOK ==
  /\ DurableOK /\ ChildOK /\ WorkerOK
  /\ SharedOK /\ RequestsOK /\ LifetimeOK
  /\ lost \in SUBSET Jobs /\ gap \in SUBSET Jobs /\ due \in SUBSET Jobs

\* Where a backend finds the child of j: its worker runs it, or a 'running' row of
\* a backend that is gone records it for the sweep.
Found(j) ==
  \/ cur = j /\ worker \in WithChild
  \/ main \in {"down", "sweep"} /\ row[j] = "running" /\ pid[j]

\* Every live h3 is one that a backend finds, with two exceptions: its backend ended
\* in the gap between Popen and UPDATE pid, or it ended after a cancellation that
\* was recorded in time had settled the row, so that the sweep passes it by, and
\* before the child had ended: a cancel that read 'queued' before the claim
\* (_finish in cancel), or a shutdown whose join ran out under a long H3_KILL_GRACE.
NoStrayChild ==
  \A j \in Jobs : child[j] = "live" =>
    \/ Found(j)
    \/ j \in gap
    \/ j \in due /\ row[j] \in {"cancelled", "deleted"}

\* What no backend finds is what one left behind.
FoundOrLost == \A j \in Jobs \ lost : child[j] = "live" => Found(j)

\* What is true of a child by where its job has got to.  A job has none before
\* the worker spawns it; the worker leaves the wait only when it has ended, and
\* promises a completed job only when it ended well.
ChildStage ==
  /\ \A j \in Jobs : row[j] \in {"absent", "queued"} => child[j] = "none"
  /\ worker \in Unspawned => child[cur] = "none"
  /\ worker \in {"clear", "check", "post", "finish"} => child[cur] \in Finished
  /\ worker = "post" \/ outcome = "completed" => child[cur] = "ok"

\* What the row of the worker's job can be, whatever requests do meanwhile.
RowStage ==
  /\ worker \in {"claim", "begin"} => row[cur] \in {"queued", "cancelled", "deleted"}
  /\ worker \in Busy \ {"claim", "begin"} =>
       row[cur] \in {"running", "cancelled", "deleted"}

\* A backend that is down, or that has not started its thread, runs nothing.
NothingBeforeStart ==
  main \in {"down", "sweep"} =>
    worker = "off" /\ killers = {} /\ \A h \in Handlers : handler[h] = "idle"

\* "One GPU, one job at a time": two h3 live at once only if one of them is a
\* child a dead backend left where none finds it (NoStrayChild says which).
OneLiveChild ==
  \A i, j \in Jobs \ lost : child[i] = "live" /\ child[j] = "live" => i = j

\* A job is generated at most once, over every crash, restart and late cancel.
SpawnedOnce ==
  [][\A j \in Jobs : child'[j] = "live" => child[j] \in {"none", "live"}]_vars

\* A verdict of the worker is never taken back by the worker or the sweep: what
\* is completed or failed can only be overwritten by a cancel that read the row
\* while it was queued, or by a shutdown, or deleted.
VerdictStands ==
  [][\A j \in Jobs : row[j] \in {"completed", "failed"} =>
       row'[j] \in {row[j], "cancelled", "deleted"}]_vars

\* "Cancellation is recorded, not inferred": a request recorded before the
\* worker looks at _cancelled never ends in a completed job, whatever the
\* child's status, and whatever the row said when the request read it.
CancelHonoured ==
  \A j \in due : row[j] # "completed" /\ ~(cur = j /\ worker = "post")

\* A job listed as completed has a child that ran and ended with status 0, and
\* is not being signalled or generated any more.
CompletedRan == \A j \in Jobs : row[j] = "completed" => child[j] = "ok"

\* While requests are served a 'running' row is the worker's, unless the worker
\* was ended by an exception: no job is shown as running for ever.
RunningIsWorked ==
  \A j \in Jobs : row[j] = "running" =>
    \/ cur = j
    \/ worker = "dead"
    \/ main \in {"down", "sweep"}

\* A live h3 loses its directory to a delete only when a cancel of that job is
\* on its way to it, or was when its backend ended, or its backend ended in the gap
\* between Popen and UPDATE pid.
WriterHasDirectory ==
  \A j \in Jobs : child[j] = "live" => j \in dir \cup due \cup gap

\* The inductive invariant: what a step needs to know of the state before it to
\* keep children accounted for.
Inv ==
  /\ TypeOK /\ NothingBeforeStart /\ ChildStage /\ RowStage
  /\ FoundOrLost /\ OneLiveChild /\ CompletedRan

\* A job that can be listed as ended: what could still run of it has ended, or a
\* cancellation is on its way to that, or it is a child of the gap.
Past(j) ==
  /\ child[j] # "live" /\ row[j] \notin {"absent", "queued"}
  /\ ~(cur = j /\ worker \in Unspawned)

Known(j) == j \in due \cup gap \/ Past(j)

\* Rows and requests that take a job for ended, and rows that never go back.
EndedStage ==
  /\ \A j \in Jobs : row[j] \in Terminal \cup {"deleted"} => Known(j)
  /\ \A h \in Handlers : handler[h] \in {"rmtree", "drop", "finish"} => Known(hjob[h])
  /\ \A h \in Handlers : handler[h] # "idle" => row[hjob[h]] # "absent"
  /\ \A j \in lost \cup gap : child[j] # "none"

\* What the main thread's shutdown knows of the worker's child.
StopStage ==
  /\ main \in ShutdownPCs => stop
  /\ current # NoJob => cur = current /\ worker \in {"stopchild", "wait", "clear"}
  /\ main \in ShutdownPCs \ {"sd_mark"} /\ current # NoJob => current \in due
  /\ pending # NoJob => pending \in due

\* A cancellation in time stays recorded until the worker has looked.
CancelStage ==
  /\ \A j \in due : row[j] # "absent" /\ (Unseen(j) => j \in cancelled)
  /\ cur \in due /\ worker = "finish" => outcome # "completed"

\* The worker goes on into a directory it has made.
DirStage == worker \in {"begin", "spawn"} => cur \in dir \cup due \cup gap

\* Why a child is lost: a child registered under a 'running' row has its pid there,
\* so what a backend leaves outside the gap had its row settled by a cancellation.
HiddenStage ==
  /\ worker \in {"register", "stopchild", "wait"} /\ row[cur] = "running" => pid[cur]
  /\ \A j \in lost : child[j] = "live" =>
       j \in gap \/ (j \in due /\ row[j] \in {"cancelled", "deleted"})

\* What requests, the worker and shutdown have to know of each other for a
\* cancellation or a deletion to meet the right child.
RequestInv ==
  /\ EndedStage /\ StopStage /\ CancelStage /\ DirStage /\ HiddenStage
  /\ RunningIsWorked /\ CancelHonoured /\ WriterHasDirectory

\* Where a job is that a stop finds no longer: its child has been forgotten.  Only
\* a child that outlasts the join lets the stop meet the worker at "check".
AfterClear == IF SlowKill THEN AfterCheck \cup {"check"} ELSE AfterCheck

\* A graceful stop leaves no child (but those an earlier backend left, NoStrayChild
\* says which) and no 'running' row, except a job whose
\* plugin, or whose child under a long H3_KILL_GRACE, outlasts the join of 30 s,
\* or whose worker an exception had ended.
CleanStop ==
  [][main = "sd_close" /\ main' = "down" =>
       \A j \in Jobs :
         /\ row[j] = "running" => worker \in AfterClear \/ WorkerFaults
         /\ child[j] = "live" => j \in lost \/ SlowKill]_vars

\* Where a stop can find the worker once it has waited for it.
Joined == {"post", "finish", "select", "dead"} \cup
          (IF SlowKill THEN {"wait", "clear", "check"} ELSE {})

\* A stop that has waited finds the worker past its child, or names that child and
\* settles its row; and nobody but an exception ends the worker with a row 'running'.
CloseStage ==
  /\ worker \in {"stopchild", "wait", "clear"} => current = cur
  /\ main \in {"sd_pending", "sd_finish", "sd_close"} => worker \in Joined
  /\ main = "sd_finish" /\ cur # NoJob => cur = pending
  /\ main = "sd_close" =>
       \A j \in Jobs : row[j] = "running" => worker \in AfterClear \/ WorkerFaults
  /\ worker = "dead" => WorkerFaults \/ \A j \in Jobs : row[j] # "running"

\* A cancelled row comes back to 'running' only for the job the worker had
\* already selected, and under a cancellation that is still recorded: its child
\* is stopped as soon as it is registered.
ResurrectedIsDoomed ==
  [][\A j \in Jobs : row[j] = "cancelled" /\ row'[j] = "running" =>
       j \in cancelled /\ cur = j]_vars

\* The child that holds the GPU as far as any backend knows.
Holder == IF \E j \in Jobs \ lost : child[j] = "live"
            THEN CHOOSE j \in Jobs \ lost : child[j] = "live" ELSE NoJob

Queue == INSTANCE JobQueue
           WITH gpu <- Holder, served <- {j \in Jobs : child[j] # "none"}

\* The runner implements the queue: every statement, lock section, signal and
\* crash is a step of JobQueue or changes nothing it sees.
ImplementsQueue == Queue!Spec

\* A shutdown ends, whenever it comes and whether or not the child would ever end or
\* heeds SIGTERM, and without the join giving up on a worker that is not in a step
\* that Outlasts names: in the code a join that gives up elsewhere would return after
\* its 30 s and leave the child behind.
ShutdownEnds == main = "sd_mark" ~> main = "down"

\* No lost wake-up: as long as generations end and the backend is not stopped, a
\* queued job leaves the queue without the help of the one-second timeout.
QueuedIsServed ==
  ChildrenEnd =>
    \A j \in Jobs :
      row[j] = "queued" ~> row[j] \in Terminal \cup {"deleted"} \/ main = "down"

\* A cancellation recorded for the child that runs ends it, though the child may
\* never end of itself and may ignore SIGTERM.
CancelStopsChild ==
  \A j \in Jobs : (j \in cancelled /\ current = j) ~> child[j] # "live"

(***************************************************************************)
(* What comments and documents say, and the code does not do.              *)
(***************************************************************************)
\* runner.py: "One GPU, one job at a time."
OneJobAtATime ==
  \A i, j \in Jobs : child[i] = "live" /\ child[j] = "live" => i = j

\* shutdown: "the database is about to close and a job must never stay
\* 'running'."
StopLeavesNoneRunning ==
  [][main = "sd_close" /\ main' = "down" => \A j \in Jobs : row[j] # "running"]_vars
=============================================================================
