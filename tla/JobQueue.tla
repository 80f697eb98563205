------------------------------ MODULE JobQueue ------------------------------
(***************************************************************************)
(* What the job queue of the web backend promises, without its threads: a  *)
(* row per job, one GPU that one job at a time holds, and the set of jobs  *)
(* that were given the GPU.  JobRunner implements it (its instance Queue): *)
(* the GPU is held by the live h3 that some backend still accounts for.    *)
(*                                                                         *)
(* The promise is about order.  A job gets the GPU once in its life, only  *)
(* while nobody holds it, and it is declared completed only after it had   *)
(* the GPU and has left it.  What the queue does not promise is visible    *)
(* too: a cancelled row may be revived (a claim that had already read it)  *)
(* and any row may be overwritten by 'cancelled' (a request that had read  *)
(* it earlier).                                                            *)
(***************************************************************************)
EXTENDS Integers

CONSTANT NJobs

Jobs  == 1 .. NJobs
NoJob == 0

VARIABLES
  row,    \* the state of each job
  gpu,    \* the job that holds the GPU
  served  \* the jobs that were given the GPU

vars == <<row, gpu, served>>

Gone == {"absent", "deleted"}
Undecided == {"running", "cancelled", "deleted"}

Init ==
  /\ row = [j \in Jobs |-> "absent"]
  /\ gpu = NoJob
  /\ served = {}

Submit(j) ==
  /\ row[j] = "absent"
  /\ row' = [row EXCEPT ![j] = "queued"]
  /\ UNCHANGED <<gpu, served>>

\* The job is taken for generation; its row may be revived, never created.
Begin(j) ==
  /\ gpu = NoJob
  /\ row[j] \in {"queued", "cancelled"}
  /\ row' = [row EXCEPT ![j] = "running"]
  /\ UNCHANGED <<gpu, served>>

Acquire(j) ==
  /\ gpu = NoJob
  /\ row[j] \in Undecided
  /\ j \notin served
  /\ gpu' = j
  /\ served' = served \cup {j}
  /\ UNCHANGED row

Release ==
  /\ gpu' = NoJob
  /\ UNCHANGED <<row, served>>

\* The generation succeeded; it is over and it did run.
Complete(j) ==
  /\ gpu # j
  /\ j \in served
  /\ row[j] \in {"running", "cancelled"}
  /\ row' = [row EXCEPT ![j] = "completed"]
  /\ UNCHANGED <<gpu, served>>

\* The generation failed, or the start of a backend found it interrupted; in
\* that case the sweep takes the GPU back in the same step.
Fail(j) ==
  /\ row[j] \in {"running", "cancelled"}
  /\ row' = [row EXCEPT ![j] = "failed"]
  /\ gpu' = IF gpu = j THEN NoJob ELSE gpu
  /\ UNCHANGED served

Cancel(j) ==
  /\ row[j] \notin Gone
  /\ row' = [row EXCEPT ![j] = "cancelled"]
  /\ UNCHANGED <<gpu, served>>

Delete(j) ==
  /\ row[j] # "absent"
  /\ row' = [row EXCEPT ![j] = "deleted"]
  /\ UNCHANGED <<gpu, served>>

Next ==
  \/ \E j \in Jobs :
       \/ Submit(j) \/ Begin(j) \/ Acquire(j) \/ Complete(j)
       \/ Fail(j) \/ Cancel(j) \/ Delete(j)
  \/ Release

Spec == Init /\ [][Next]_vars
=============================================================================
