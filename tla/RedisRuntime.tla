----------------------------- MODULE RedisRuntime -----------------------------
(***************************************************************************)
(* The job runtime of app/services/job_service.py on its Redis backend.    *)
(* The tables, the job threads, the handlers and the controls are those of *)
(* JobRuntime.  What differs is how a worker finds its work: every queue   *)
(* has a Redis list of job ids (variable list), to which whoever commits a *)
(* row as "queued" then pushes its id, and from which the workers pop.     *)
(*                                                                         *)
(* The commit of a row and the push of its id are two calls of two         *)
(* services, and a popped id is nowhere but in the worker's hand.  What a  *)
(* fault, or a retry, leaves queued in the table and on no list is in the  *)
(* variable lost.                                                          *)
(***************************************************************************)
EXTENDS JobRuntime, Sequences, Functions

CONSTANTS
  Web,     \* the web requests that enqueue jobs
  Rank,    \* the order of the queues' list keys
  Scenes   \* bound: the jobs, workers, requests, crashes and faults that are
           \* explored together

Pushers == {Web} \cup Admins \cup Procs

ASSUME RankAssumption ==
  /\ Rank \in [Queues -> Nat]
  /\ \A q, r \in Queues : Rank[q] = Rank[r] => q = r
ASSUME PushersAssumption ==
  /\ IsFiniteSet(Procs) /\ IsFiniteSet(Admins)
  /\ Web \notin Admins \cup Procs /\ Admins \cap Procs = {}
ASSUME ScenesAssumption ==
  \A s \in Scenes : /\ s.jobs \subseteq Jobs
                    /\ s.workers \subseteq Procs
                    /\ s.ops \subseteq Controls \cup {"flush"}
                    /\ s.crashes \in 0..MaxCrashes
                    /\ s.faults \in Nat

VARIABLES
  scene,   \* the member of Scenes this behaviour explores
  list,    \* list[q]: the Redis list of q
  push,    \* push[x]: the ids that x has still to push
  reread,  \* <<a, j>>: request a has still to look whether j is now queued
  lost,    \* history: queued rows whose id a fault or a retry left on no list
  faults   \* faults so far

redisVars == <<scene, list, push, reread, lost, faults>>
allVars   == <<vars, redisVars>>

Queued == {j \in Jobs : row[j].st = "queued"}

RedisTypeOK ==
  /\ scene \in Scenes
  /\ row \in [Jobs -> Row]
  /\ \A p \in Procs :
       /\ sched[p].pc \in {"idle", "count", "claim", "write", "spawn", "putback"}
       /\ sched[p].pc \in {"claim", "write", "spawn", "putback"}
            <=> Cardinality(sched[p].cand) = 1
  /\ list \in [Queues -> Seq(Jobs)]
  /\ \A q \in Queues : \A j \in Range(list[q]) : QueueOf[j] = q
  /\ push \in [Pushers -> SUBSET Jobs]
  /\ reread \subseteq Admins \X Jobs
  /\ lost \subseteq Queued
  /\ faults \in 0..scene.faults

RedisInit ==
  /\ Init
  /\ scene \in Scenes
  /\ list = [q \in Queues |-> <<>>]
  /\ push = [x \in Pushers |-> {}]
  /\ reread = {}
  /\ lost = {}
  /\ faults = 0

\* Dropped ids join lost, those pushed again leave it, and so do those whose
\* row is not queued any more.
Account(dropped, found) ==
  lost' = {j \in (lost \cup dropped) \ found : row'[j].st = "queued"}

Fault == /\ faults < scene.faults
         /\ faults' = faults + 1

-----------------------------------------------------------------------------
(* Pushing.                                                                *)

\* enqueue_job commits the row and then pushes its id.
EnqueueJob(j) ==
  /\ j \in scene.jobs
  /\ Enqueue(j)
  /\ push' = [push EXCEPT ![Web] = @ \cup {j}]
  /\ Account({}, {})
  /\ UNCHANGED <<scene, list, reread, faults>>

\* Ids are pushed oldest first; the requests that enqueue are independent.
ToPush(x, j) == j \in push[x] /\ (x = Web \/ \A k \in push[x] : j <= k)

Pushed(j) == list' = [list EXCEPT ![QueueOf[j]] = Append(@, j)]

Push(x, j) ==
  /\ ToPush(x, j)
  /\ Pushed(j)
  /\ push' = [push EXCEPT ![x] = @ \ {j}]
  /\ UNCHANGED <<scene, vars, reread, lost, faults>>

\* _redis_enqueue returns False and its callers go on; or a web request dies.
PushFails(x, j) ==
  /\ ToPush(x, j)
  /\ Fault
  /\ push' = [push EXCEPT ![x] = @ \ {j}]
  /\ UNCHANGED vars /\ Account({j}, {})
  /\ UNCHANGED <<scene, list, reread>>

-----------------------------------------------------------------------------
(* _worker_loop_redis.                                                     *)

\* The list keys of the unpaused queues are read; the loop starts after the
\* synchronisation of its process.
LoopStart(p) ==
  /\ p \in scene.workers
  /\ push[p] = {}
  /\ TickStart(p)
  /\ UNCHANGED redisVars

Filled(p) == {q \in sched[p].todo : list[q] # <<>>}

\* BLPOP takes the head of the first list that has one.
Pop(p, q) ==
  /\ sched[p].pc = "count"
  /\ q \in Filled(p)
  /\ \A r \in Filled(p) : Rank[q] <= Rank[r]
  /\ SetSched(p, [Idle EXCEPT !.pc = "claim", !.queue = q, !.held = "expired",
                              !.cand = {Head(list[q])}])
  /\ list' = [list EXCEPT ![q] = Tail(@)]
  /\ UNCHANGED <<scene, row, inflight, runner, push, reread, lost, faults>>
  /\ SchedUnchanged

\* No unpaused queue, or nothing to pop until the timeout.
PopNothing(p) ==
  /\ sched[p].pc = "count"
  /\ Filled(p) = {}
  /\ SetSched(p, Idle)
  /\ UNCHANGED <<row, inflight, runner, redisVars>> /\ SchedUnchanged

\* _mark_job_running(enforce_capacity=True): the row and the queue, ...
MarkRead(p, j) == ClaimRead(p, j) /\ UNCHANGED redisVars

MarkRefused(p, j) ==
  /\ sched[p].pc = "claim"
  /\ IsNext(p, j)
  /\ ~Claimable(p, j)
  /\ SetSched(p, [sched[p] EXCEPT !.pc = "putback"])
  /\ UNCHANGED <<row, inflight, runner, redisVars>> /\ SchedUnchanged

\* Mutant: enforce_capacity=False, as in _tick.
Unlimited(q) == 1

\* ... the running jobs of the queue, ...
Slots(q) ==
  LET running == Cardinality(RowsOf(q, "running"))
  IN  IF running < Concurrency[q] THEN Concurrency[q] - running ELSE 0

MarkCount(p) ==
  /\ sched[p].pc = "write"
  /\ sched[p].slots = 0
  /\ LET slots == Slots(sched[p].queue)
     IN  SetSched(p, IF slots > 0 THEN [sched[p] EXCEPT !.slots = slots]
                     ELSE [sched[p] EXCEPT !.pc = "putback", !.seen = NoRow])
  /\ UNCHANGED <<row, inflight, runner, redisVars>> /\ SchedUnchanged

\* ... and the commit.
MarkWrite(p, j) ==
  /\ sched[p].slots > 0
  /\ ClaimWrite(p, j)
  /\ Account({}, {})
  /\ UNCHANGED <<scene, list, push, reread, faults>>

SpawnPopped(p, j) ==
  /\ sched[p].pc = "spawn"
  /\ IsNext(p, j)
  /\ SetSched(p, Idle)
  /\ IF InFlight(p, j)
     THEN UNCHANGED <<inflight, runner>>
     ELSE /\ inflight' = [inflight EXCEPT ![p] = @ \cup {j}]
          /\ RunnerAt(p, j, "start")
  /\ UNCHANGED <<row, redisVars>> /\ SchedUnchanged

\* Mutant: only a job that was refused for want of a slot is put back.
NeedsSlot(j) == row[j].st = "queued" /\ ~qpaused[QueueOf[j]]

\* A refused id whose row is still queued goes back to the end of the list.
StillQueued(j) == row[j].st = "queued"

PutBack(p, j) ==
  /\ sched[p].pc = "putback"
  /\ IsNext(p, j)
  /\ IF StillQueued(j) THEN Pushed(j) ELSE UNCHANGED list
  /\ SetSched(p, Idle)
  /\ UNCHANGED <<scene, row, inflight, runner, push, reread, lost, faults>>
  /\ SchedUnchanged

\* The connection to Redis or to the database fails with an id in hand, and
\* the loop starts again without it.
LoopFails(p) ==
  /\ sched[p].pc \in {"claim", "write", "putback"}
  /\ Fault
  /\ SetSched(p, Idle)
  /\ UNCHANGED <<row, inflight, runner>> /\ SchedUnchanged
  /\ Account(sched[p].cand, {})
  /\ UNCHANGED <<scene, list, push, reread>>

LoopStep(p) ==
  \/ LoopStart(p) \/ PopNothing(p) \/ MarkCount(p)
  \/ \E q \in Queues : Pop(p, q)
  \/ \E j \in Jobs : \/ MarkRead(p, j) \/ MarkRefused(p, j) \/ MarkWrite(p, j)
                     \/ SpawnPopped(p, j) \/ PutBack(p, j)

-----------------------------------------------------------------------------
(* The job threads and handlers.  A retry is committed as queued and       *)
(* pushed by nobody.                                                       *)

BesideThreads ==
  /\ Account({j \in Jobs : row[j].st # "queued" /\ row'[j].st = "queued"}, {})
  /\ UNCHANGED <<scene, list, push, reread, faults>>

ThreadStep ==
  /\ \/ \E p \in Procs, j \in Jobs : RunnerStep(p, j)
     \/ \E j \in Jobs, n \in Starts : HandlerStep(j, n)
  /\ BesideThreads

-----------------------------------------------------------------------------
(* Crashes and restarts.  The id in a dying worker's hand is gone; a start *)
(* pushes every queued row of an unpaused queue, on a list or not.         *)

CrashWorker(p) ==
  /\ p \in scene.workers
  /\ crashes < scene.crashes
  /\ Crash(p)
  /\ push' = [push EXCEPT ![p] = {}]
  /\ Account(sched[p].cand \cup push[p], {})
  /\ UNCHANGED <<scene, list, reread, faults>>

\* The rows _redis_sync_queued_jobs finds.
Restorable == {j \in Queued : ~qpaused[QueueOf[j]]}

RestartWorker(p) ==
  /\ Restart(p)
  /\ push' = [push EXCEPT ![p] = Restorable]
  /\ Account({}, Restorable)
  /\ UNCHANGED <<scene, list, reread, faults>>

-----------------------------------------------------------------------------
(* The administrative requests that push, or that empty the lists.         *)

\* request_job_pause looks at the committed row again; request_job_stop and
\* the cleanups push nothing.
JobControl(a) ==
  /\ \E j \in Jobs :
       \/ \E op \in JobOps \cap scene.ops : ControlRead(a, op, j) /\ UNCHANGED reread
       \/ /\ ControlWrite(a, j)
          /\ reread' = IF ctl[a].op = "stop" THEN reread
                       ELSE reread \cup {<<a, j>>}
  /\ Account({}, {})
  /\ UNCHANGED <<scene, list, push, faults>>

Cleanup(a) ==
  /\ \/ "cleanup_all" \in scene.ops /\ CleanupAll(a)
     \/ "cleanup_recent" \in scene.ops /\ CleanupRead(a)
     \/ CleanupWrite(a)
  /\ Account({}, {})
  /\ UNCHANGED <<scene, list, push, reread, faults>>

Reread(a, j) ==
  /\ <<a, j>> \in reread
  /\ reread' = reread \ {<<a, j>>}
  /\ push' = [push EXCEPT ![a] = IF row[j].st = "queued" THEN {j} ELSE {}]
  /\ UNCHANGED vars /\ Account({}, push'[a])
  /\ UNCHANGED <<scene, list, faults>>

\* set_queue_pause: resuming a queue pushes what is queued in it.
Waiting(q, b) == IF b THEN {} ELSE RowsOf(q, "queued")

PauseQueue(a, q, b) ==
  /\ (IF b THEN "queue_pause" ELSE "queue_resume") \in scene.ops
  /\ QueuePause(a, q, b)
  /\ push' = [push EXCEPT ![a] = Waiting(q, b)]
  /\ Account({}, Waiting(q, b))
  /\ UNCHANGED <<scene, list, reread, faults>>

\* The admin page deletes every key of the namespace.
FlushNamespace(a) ==
  /\ ctl[a].op = "idle"
  /\ "flush" \in scene.ops
  /\ list' = [q \in Queues |-> <<>>]
  /\ SetCtl(a, Answered)
  /\ UNCHANGED <<row, qpaused>> /\ CtlUnchanged
  /\ Account(UNION {Range(list[q]) : q \in Queues}, {})
  /\ UNCHANGED <<scene, push, reread, faults>>

AdminStep(a) ==
  \/ JobControl(a) \/ Cleanup(a) \/ FlushNamespace(a)
  \/ \E j \in Jobs : Reread(a, j)
  \/ \E q \in Queues, b \in BOOLEAN : PauseQueue(a, q, b)

-----------------------------------------------------------------------------

\* What happens whatever the jobs are for.
RedisStep ==
  \/ \E x \in Pushers, j \in Jobs : Push(x, j) \/ PushFails(x, j)
  \/ \E p \in Procs : \/ LoopStep(p) \/ LoopFails(p)
                      \/ CrashWorker(p) \/ RestartWorker(p)
  \/ \E a \in Admins : AdminStep(a)

RedisNext == RedisStep \/ ThreadStep \/ \E j \in Jobs : EnqueueJob(j)

RedisSpec == RedisInit /\ [][RedisNext]_allVars

-----------------------------------------------------------------------------
(* Properties.                                                             *)

\* A worker that popped the id, and has not yet claimed or dropped it.
InHand(j) == \E p \in Procs : /\ sched[p].pc \in {"claim", "write", "putback"}
                              /\ j \in sched[p].cand

\* A queued job is not forgotten: its id is on its queue's list, in a worker's
\* hand or about to be pushed, unless a fault or a retry took it out and no
\* start or resume has brought it back (enqueue_job, _worker_loop_redis,
\* _redis_sync_queued_jobs, set_queue_pause, request_job_pause).
NoneForgotten ==
  \A j \in Queued \ lost :
    \/ j \in Range(list[QueueOf[j]])
    \/ InHand(j)
    \/ \E x \in Pushers : j \in push[x]
    \/ \E a \in Admins : <<a, j>> \in reread

\* A queue runs no more than its concurrency, and one more for each other
\* worker that counts at the same time and for each job control answered
\* (_mark_job_running with enforce_capacity, request_job_pause).
CapacityBounded ==
  \A q \in Queues :
    Cardinality(RowsOf(q, "running"))
      <= Concurrency[q] + Cardinality(Procs) - 1
           + Cardinality({a \in Admins : ctl[a].op = "done"})
=============================================================================
