------------------------------ MODULE JobLedger ------------------------------
(***************************************************************************)
(* What the job runtime promises to whoever queues a job, when one worker  *)
(* process serves the queues: the life of a job as the admin page and the  *)
(* requester see it, with neither threads nor polling.                     *)
(*                                                                         *)
(* A call that timed out is left behind and may act on the job later: one  *)
(* that polls takes the stop that was asked of it for the job's, and one   *)
(* that reports a result erases the count of attempts.                     *)
(***************************************************************************)
EXTENDS Integers, FiniteSets

CONSTANTS
  Jobs,        \* job ids, in the order of submission
  QueueOf,     \* the queue of each job
  Concurrency, \* how many jobs of a queue may be running
  MaxRetries,  \* how often a failed job is retried
  Runnable,    \* the jobs the worker has a handler for
  Stopping,    \* those that a call left behind may mark as stopped
  Reporting    \* those with retries that one may report a result of

VARIABLES
  status,      \* status[j]: "none" before the job is submitted
  calls        \* calls[j]: how often the handler of j was called

vars == <<status, calls>>

Init ==
  /\ status = [j \in Jobs |-> "none"]
  /\ calls = [j \in Jobs |-> 0]

\* A job that a call left behind has marked goes on from the status it had.
Move(j, from, to) ==
  /\ status[j] \in {from, "stopped"}
  /\ status' = [status EXCEPT ![j] = to]
  /\ UNCHANGED calls

Submit(j) == status[j] = "none" /\ Move(j, "none", "queued")

\* A slot is free, and no older job of the queue waits for its first attempt.
Begin(j) ==
  /\ Cardinality({k \in Jobs : QueueOf[k] = QueueOf[j] /\ status[k] = "running"})
       < Concurrency[QueueOf[j]]
  /\ \A k \in Jobs :
       QueueOf[k] = QueueOf[j] /\ k < j /\ status[k] = "queued" => calls[k] > 0
  /\ Move(j, "queued", "running")

\* The handler is called, within the budget of attempts.
Call(j) ==
  /\ status[j] \in {"running", "stopped"}
  /\ j \in Runnable
  /\ j \in Reporting \/ calls[j] <= MaxRetries[j]
  /\ calls' = [calls EXCEPT ![j] = @ + 1]
  /\ UNCHANGED status

Complete(j) == calls[j] > 0 /\ Move(j, "running", "completed")

Retry(j) ==
  /\ calls[j] > 0 /\ MaxRetries[j] > 0
  /\ j \in Reporting \/ calls[j] <= MaxRetries[j]
  /\ Move(j, "running", "queued")

\* Only an exhausted budget, or the lack of a handler, fails a job.
Fail(j) ==
  /\ IF j \in Runnable THEN calls[j] > MaxRetries[j] ELSE calls[j] = 0
  /\ Move(j, "running", "failed")

\* Whatever has become of the job.
Stop(j) ==
  /\ j \in Stopping /\ calls[j] > 0
  /\ status' = [status EXCEPT ![j] = "stopped"]
  /\ UNCHANGED calls

Next == \E j \in Jobs : \/ Submit(j) \/ Begin(j) \/ Call(j)
                        \/ Complete(j) \/ Retry(j) \/ Fail(j) \/ Stop(j)

Spec == Init /\ [][Next]_vars
=============================================================================
