---------------------------- MODULE JobRefinement ----------------------------
(***************************************************************************)
(* The job runtime of one worker process implements the ledger of jobs,    *)
(* through crashes and restarts of the process and handlers that time out  *)
(* and are left behind, as long as nobody pauses or stops jobs and they    *)
(* are committed in the order of created_at.                               *)
(***************************************************************************)
EXTENDS JobRuntime

OneWorker ==
  /\ \E p \in Procs : Procs = {p}
  /\ Admins = {}

\* Two requests that enqueue at the same time may commit the other way round.
InOrder == \A j, k \in Jobs : j < k /\ row[k].st # "none" => row[j].st # "none"

OrderedSpec == Init /\ [][Next /\ InOrder']_vars

\* The calls that may be left behind, and poll or report a result.
Stopping  == Timed \cap Pollers
Reporting == {j \in Timed \cap Overwriters : MaxRetries[j] > 0}

Ledger == INSTANCE JobLedger WITH
            status   <- [j \in Jobs |-> row[j].st],
            calls    <- starts,
            Runnable <- UNION {Known[p] : p \in Procs}

\* Every step of the runtime is a step of the ledger, or invisible in it: a
\* job completes only after its handler ran, fails only when its retries are
\* used up, is called no more than max_retries + 1 times and ends once, unless
\* a call left behind reports on it or marks it as stopped; and it starts in
\* order and within its queue's concurrency (_run_job_thread, _tick).
ImplementsLedger == Ledger!Spec
=============================================================================
