---------------------------- MODULE MCJobRuntime ----------------------------
(***************************************************************************)
(* Small instances of the job runtime.                                     *)
(***************************************************************************)
EXTENDS JobRefinement

\* QueueOf: all jobs in one queue; or job 3 in a queue of its own; or jobs 4
\* and later in one.
Rest        == CHOOSE q \in Queues : q # CHOOSE r \in Queues : TRUE
OneQueue    == [j \in Jobs |-> CHOOSE q \in Queues : TRUE]
TwoQueues   == [j \in Jobs |-> IF j = 3 THEN Rest ELSE OneQueue[j]]
FleetQueues == [j \in Jobs |-> IF j > 3 THEN Rest ELSE OneQueue[j]]

\* Concurrency and MaxRetries, the same for every queue and every job, or one
\* more slot in the second queue, or a retry for job 1 only.
One        == [q \in Queues |-> 1]
Two        == [q \in Queues |-> 2]
OneAndTwo  == [q \in Queues |-> IF q = Rest THEN 2 ELSE 1]
NoRetry    == [j \in Jobs |-> 0]
Retry1     == [j \in Jobs |-> 1]
FirstRetry == [j \in Jobs |-> IF j = 1 THEN 1 ELSE 0]

\* Known: every handler is registered; or those of job 3 and later are missing;
\* or there is only that of job 1.
AllKnown   == [p \in Procs |-> Jobs]
SomeKnown  == [p \in Procs |-> Jobs \cap {1, 2}]
FirstKnown == [p \in Procs |-> Jobs \cap {1}]
=============================================================================
