------------------------------ MODULE MCDelivery ------------------------------
(***************************************************************************)
(* The instance of Delivery, and of the Redis runtime below it, that TLC   *)
(* explores: one queue of concurrency 1 and at most two workers.           *)
(***************************************************************************)
EXTENDS Delivery

OneQueue == [j \in Jobs |-> CHOOSE q \in Queues : TRUE]
One      == [q \in Queues |-> 1]
AllKnown == [p \in Procs |-> Jobs]

\* Job 1, of a direct message, is retried once; message 2 is a broadcast.
Retries == [j \in Jobs |-> IF j = 1 THEN 1 ELSE 0]
Kinds   == [j \in Jobs |-> IF j = 2 THEN "broadcast" ELSE "user"]

Scene(js, mail, workers, ops, dies, fails, tabs) ==
  [jobs |-> js, mail |-> mail, workers |-> workers, ops |-> ops,
   crashes |-> dies, faults |-> fails, tabs |-> tabs]

A == CHOOSE p \in Procs : TRUE

\* Two workers race for the one slot; two meet requests about a job; one meets
\* requests about the queue, then crashes, faults and a flush; messages are
\* posted and delivered beside a fault, and beside requests about the job; they
\* are read in two tabs.
DeliveryScenes ==
  { Scene({1, 2, 3}, {}, Procs, {}, 0, 0, {}),
    Scene({1}, {}, Procs, {"pause", "resume"}, 0, 0, {}),
    Scene({1}, {}, Procs, {}, 1, 0, {}),
    Scene({1, 2}, {}, {A}, {"queue_pause", "queue_resume"}, 0, 0, {}),
    Scene({1}, {}, {A}, {"queue_resume", "pause", "resume"}, 1, 0, {}),
    Scene({1}, {}, {A}, {"flush", "queue_pause", "queue_resume"}, 1, 1, {}),
    Scene({1, 2}, {}, {A}, {}, 1, 1, {}),
    Scene({1, 2}, {1, 2}, {A}, {}, 0, 1, {}),
    Scene({1}, {1}, {A}, {"pause", "resume"}, 0, 0, {}),
    Scene({1}, {1}, {A}, {"stop", "cleanup_recent", "cleanup_all"}, 0, 0, {}),
    Scene({1, 2}, {1, 2}, {}, {}, 0, 1, Tabs) }
==============================================================================
