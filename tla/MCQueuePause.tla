---------------------------- MODULE MCQueuePause ----------------------------
(***************************************************************************)
(* The job runtime with a history variable, how many claims each queue had *)
(* committed since it was last paused, and a small instance of a fleet of  *)
(* processes.                                                              *)
(***************************************************************************)
EXTENDS MCJobRuntime

VARIABLE claims

Claimed(q) == \E p \in Procs : /\ sched[p].pc = "write"
                               /\ sched'[p].pc = "spawn"
                               /\ sched[p].queue = q

CountClaims ==
  claims' = [q \in Queues |-> IF ~qpaused'[q] THEN 0
                              ELSE IF Claimed(q) THEN claims[q] + 1
                              ELSE claims[q]]

PauseSpec ==
  /\ Init /\ claims = [q \in Queues |-> 0]
  /\ [][Next /\ CountClaims]_<<vars, claims>>

\* Three scenes of one instance, each with the queue it does not use paused
\* first: job 1 is alone, and a process crashes in place of the last call of
\* its handler; or jobs 2 and 3 are submitted too and, while neither of them
\* ends, a process crashes or the handler is called once; or jobs 4 and 5 meet
\* one pause of their queue.
Waiting(js) == \A j \in js : row[j].st = "none"
Calls       == IF Waiting({2, 3}) THEN MaxStarts
               ELSE IF \E j \in {2, 3} : row[j].st \in TerminalStatuses THEN 0
               ELSE 1

InScene ==
  \/ /\ starts[1] + crashes <= Calls
     /\ qpaused[Rest]
     /\ Waiting({4, 5})
     /\ Waiting({1, 2, 3}) \/ \A a \in Admins : ctl[a] = Answered
  \/ /\ crashes = 0
     /\ qpaused[QueueOf[1]]
     /\ Waiting({1, 2, 3})

FleetScenes ==
  /\ Init /\ claims = [q \in Queues |-> 0]
  /\ [][Next /\ InScene' /\ CountClaims]_<<vars, claims>>

\* Once a queue is paused, each process starts at most one more of its jobs,
\* the one it was about to claim: _tick works from queues it read before the
\* pause, but _mark_job_running looks at the queue again, and the commit of a
\* claim expires the copy it looks at.
PausedQueueDrains == \A q \in Queues : claims[q] <= Cardinality(Procs)
=============================================================================
