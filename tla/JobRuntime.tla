----------------------------- MODULE JobRuntime -----------------------------
(***************************************************************************)
(* The background job runtime of app/services/job_service.py on its        *)
(* database backend: the processes that each run a scheduler thread, the   *)
(* job threads and handler threads they start, the web requests that       *)
(* enqueue jobs, and the administrative controls (pause, resume, stop,     *)
(* queue pause, cleanup).                                                  *)
(*                                                                         *)
(* All of them meet in two PostgreSQL tables, job_runs (variable row) and  *)
(* job_queues (variable qpaused).  A transaction reads a row, computes in  *)
(* Python and commits; under READ COMMITTED, and with no row lock and no   *)
(* version column, any other commit may come between the read and the      *)
(* write.  So an access that decides on what it read is two actions here,  *)
(* the read (which keeps the row it saw) and the write (operator Flush).   *)
(*                                                                         *)
(* An operator marked "mutant" is a plausible mistake in the code that the *)
(* operator after it models; no specification uses it.                     *)
(***************************************************************************)
EXTENDS Integers, FiniteSets

CONSTANTS
  Jobs,        \* job ids; a smaller id has an earlier created_at, and may
               \* all the same be committed after it
  Queues,      \* queue ids
  Procs,       \* operating-system processes that call init_job_runtime
  Admins,      \* bound: administrative requests, one operation each
  QueueOf,     \* the queue of each job
  Concurrency, \* JobQueue.concurrency
  MaxRetries,  \* max_retries the job's handler was registered with
  Timed,       \* jobs whose handler has timeout_sec > 0
  Pollers,     \* jobs whose handler polls _job_control while it works
  Overwriters, \* jobs whose handler assigns job.result when it ends
  Known,       \* the jobs each process has a registered handler for
  Controls,    \* the administrative operations that may be requested
  MaxStarts,   \* bound: attempts of a job that are explored
  MaxCrashes   \* bound: process crashes that are explored

JobOps     == {"pause", "resume", "stop"}
ControlOps == JobOps \cup {"cleanup_recent", "cleanup_all", "queue_pause",
                          "queue_resume"}

ASSUME JobsAssumption        == Jobs \subseteq Nat /\ IsFiniteSet(Jobs)
ASSUME NonEmptyAssumption    == Queues # {} /\ Procs # {}
ASSUME QueueAssumption       == QueueOf \in [Jobs -> Queues]
ASSUME ConcurrencyAssumption == Concurrency \in [Queues -> Nat \ {0}]
ASSUME RetriesAssumption     == MaxRetries \in [Jobs -> Nat]
ASSUME KnownAssumption       == Known \in [Procs -> SUBSET Jobs]
ASSUME KindsAssumption       ==
  /\ Timed \subseteq Jobs
  /\ Pollers \subseteq Jobs
  /\ Overwriters \subseteq Jobs
  /\ Controls \subseteq ControlOps
ASSUME BoundsAssumption      == MaxStarts \in Nat \ {0} /\ MaxCrashes \in Nat

VARIABLES
  row,      \* row[j]: the job_runs row of j
  qpaused,  \* qpaused[q]: job_queues.paused
  up,       \* the processes that are running
  sched,    \* sched[p]: the scheduler thread of p (_worker_loop / _tick)
  inflight, \* inflight[p]: _Runtime.inflight_job_ids
  runner,   \* runner[p][j]: the thread _run_job_thread of j in p
  handler,  \* handler[j][n]: the n-th execution of j's handler
  starts,   \* starts[j]: executions of j's handler begun so far
  ctl,      \* ctl[a]: an administrative request between its read and write
  crashes   \* crashes so far

vars == <<row, qpaused, up, sched, inflight, runner, handler, starts, ctl,
          crashes>>

-----------------------------------------------------------------------------
(* The job_runs row, reduced to the columns that decide anything.  "none"  *)
(* is a row not inserted yet, "gone" one deleted by a cleanup.             *)

TerminalStatuses == {"completed", "failed", "stopped"}
LiveStatuses     == {"queued", "running", "paused"}
Absent           == {"none", "gone"}
Statuses         == TerminalStatuses \cup LiveStatuses \cup Absent

Row == [st       : Statuses,   \* status
        stop     : BOOLEAN,    \* stop_requested
        started  : BOOLEAN,    \* started_at is not null
        finished : BOOLEAN,    \* finished_at is not null
        att      : Nat]        \* result["_runtime"]["attempt"]

NoRow == [st |-> "none", stop |-> FALSE, started |-> FALSE,
          finished |-> FALSE, att |-> 0]

Exists(r) == r.st \notin Absent

\* What a flush leaves in the table: the unit of work emits the columns
\* whose value differs from the one it loaded, and only those.  The columns
\* of stamped hold a new time, which differs from any loaded value.
Flushed(current, loaded, new, stamped) ==
  IF Exists(current)
  THEN [c \in DOMAIN current |->
          IF new[c] # loaded[c] \/ c \in stamped THEN new[c] ELSE current[c]]
  ELSE current

SetRow(j, r) == row' = [row EXCEPT ![j] = r]

Flush(j, loaded, new, stamped) ==
  SetRow(j, Flushed(row[j], loaded, new, stamped))

-----------------------------------------------------------------------------
(* The threads.                                                            *)

Starts == 1..MaxStarts

Sched == [pc    : {"idle", "count", "query", "claim", "write", "spawn"},
          todo  : SUBSET Queues,   \* queues of this tick still to serve
          queue : Queues,          \* the queue being served
          slots : Nat,             \* its free slots, until they are used
          cand  : SUBSET Jobs,     \* its queued jobs, still to claim
          fresh : BOOLEAN,         \* the session has committed in this tick
          held  : {"open", "paused", "expired"}, \* its copy of that queue
          seen  : Row]             \* the row the claim was decided on

Idle == [pc |-> "idle", todo |-> {}, queue |-> CHOOSE q \in Queues : TRUE,
         slots |-> 0, cand |-> {}, fresh |-> FALSE, held |-> "open", seen |-> NoRow]

Runner == [pc   : {"none", "start", "number", "join", "final", "finalw",
                   "fail", "failw", "exit"},
           n    : Nat,             \* its handler execution, 0 if none
           att  : Nat,             \* its local variable attempt
           seen : Row]

NoRunner == [pc |-> "none", n |-> 0, att |-> 0, seen |-> NoRow]

Handler == [pc   : {"none", "poll", "wait", "halt", "work", "done", "err"},
            proc : Procs,
            late : BOOLEAN]        \* its runner gave up on it (timeout)

NoHandler == [pc |-> "none", proc |-> CHOOSE p \in Procs : TRUE,
              late |-> FALSE]

Ctl == [op : ControlOps \cup {"idle", "done"}, ids : SUBSET Jobs, seen : Row]

Request(op, ids, seen) == [op |-> op, ids |-> ids, seen |-> seen]
NoRequest == Request("idle", {}, NoRow)
Answered  == Request("done", {}, NoRow)

SetSched(p, s)     == sched' = [sched EXCEPT ![p] = s]
SetRunner(p, j, r) == runner' = [runner EXCEPT ![p][j] = r]
RunnerAt(p, j, pc) == SetRunner(p, j, [runner[p][j] EXCEPT !.pc = pc])
SetHandler(j, n, h) == handler' = [handler EXCEPT ![j][n] = h]
HandlerAt(j, n, pc) == SetHandler(j, n, [handler[j][n] EXCEPT !.pc = pc])
SetCtl(a, c)       == ctl' = [ctl EXCEPT ![a] = c]

Executing(h) == h.pc \in {"poll", "wait", "halt", "work"}

TypeOK ==
  /\ row \in [Jobs -> Row]
  /\ qpaused \in [Queues -> BOOLEAN]
  /\ up \in SUBSET Procs
  /\ sched \in [Procs -> Sched]
  /\ inflight \in [Procs -> SUBSET Jobs]
  /\ runner \in [Procs -> [Jobs -> Runner]]
  /\ handler \in [Jobs -> [Starts -> Handler]]
  /\ starts \in [Jobs -> 0..MaxStarts]
  /\ ctl \in [Admins -> Ctl]
  /\ crashes \in 0..MaxCrashes

Init ==
  /\ row = [j \in Jobs |-> NoRow]
  /\ qpaused = [q \in Queues |-> FALSE]
  /\ up = Procs
  /\ sched = [p \in Procs |-> Idle]
  /\ inflight = [p \in Procs |-> {}]
  /\ runner = [p \in Procs |-> [j \in Jobs |-> NoRunner]]
  /\ handler = [j \in Jobs |-> [n \in Starts |-> NoHandler]]
  /\ starts = [j \in Jobs |-> 0]
  /\ ctl = [a \in Admins |-> NoRequest]
  /\ crashes = 0

-----------------------------------------------------------------------------
(* Enqueueing, from a web request.                                         *)

Enqueue(j) ==
  /\ row[j].st = "none"
  /\ SetRow(j, [row[j] EXCEPT !.st = "queued"])
  /\ UNCHANGED <<qpaused, up, sched, inflight, runner, handler, starts, ctl,
                 crashes>>

-----------------------------------------------------------------------------
(* The scheduler thread: _worker_loop runs _tick for ever.                 *)

SchedUnchanged == UNCHANGED <<qpaused, up, handler, starts, ctl, crashes>>

RowsOf(q, status) == {j \in Jobs : QueueOf[j] = q /\ row[j].st = status}

\* The enabled, unpaused queues are read once per tick.
TickStart(p) ==
  /\ p \in up
  /\ sched[p].pc = "idle"
  /\ SetSched(p, [Idle EXCEPT !.pc = "count",
                               !.todo = {q \in Queues : ~qpaused[q]}])
  /\ UNCHANGED <<row, inflight, runner>> /\ SchedUnchanged

\* What the session holds of q when it counts: what it read for this tick, or,
\* as a commit expires all it holds, what it reads again.
QueueCopy(p, q) == IF sched[p].fresh /\ qpaused[q] THEN "paused" ELSE "open"

\* slots = max(0, concurrency - running); a queue without slots is skipped.
TickCount(p, q) ==
  LET running == Cardinality(RowsOf(q, "running"))
  IN /\ sched[p].pc = "count"
     /\ q \in sched[p].todo
     /\ SetSched(p, IF running < Concurrency[q]
          THEN [sched[p] EXCEPT !.pc = "query", !.todo = @ \ {q}, !.queue = q,
                                !.slots = Concurrency[q] - running,
                                !.held = QueueCopy(p, q)]
          ELSE [sched[p] EXCEPT !.todo = @ \ {q}])
     /\ UNCHANGED <<row, inflight, runner>> /\ SchedUnchanged

TickEnd(p) ==
  /\ sched[p].pc = "count"
  /\ sched[p].todo = {}
  /\ SetSched(p, Idle)
  /\ UNCHANGED <<row, inflight, runner>> /\ SchedUnchanged

\* Mutant: order_by(created_at.desc()).
Newest(js, n) == {j \in js : Cardinality({k \in js : k > j}) < n}

\* Mutant: no limit(slots).
OldestUnlimited(js, n) == js

\* The oldest queued jobs of the queue, at most slots of them.
Oldest(js, n) == {j \in js : Cardinality({k \in js : k < j}) < n}

TickQuery(p) ==
  /\ sched[p].pc = "query"
  /\ SetSched(p, [sched[p] EXCEPT
       !.pc = "claim",
       !.cand = Oldest(RowsOf(sched[p].queue, "queued"), sched[p].slots),
       !.slots = 0])
  /\ UNCHANGED <<row, inflight, runner>> /\ SchedUnchanged

QueueDone(p) ==
  /\ sched[p].pc = "claim"
  /\ sched[p].cand = {}
  /\ SetSched(p, [sched[p] EXCEPT !.pc = "count"])
  /\ UNCHANGED <<row, inflight, runner>> /\ SchedUnchanged

IsNext(p, j) == j \in sched[p].cand /\ \A k \in sched[p].cand : j <= k

\* Mutant: the queue's pause is only looked at when the tick starts.
ClaimableAtTick(p, j) == row[j].st = "queued"

\* The queue is checked again, on the copy the session holds, which it has to
\* read if a commit has expired it.
Loaded(p, j) ==
  IF sched[p].held # "expired" THEN sched[p].held
  ELSE IF qpaused[QueueOf[j]] THEN "paused" ELSE "open"

Claimable(p, j) == row[j].st = "queued" /\ Loaded(p, j) = "open"

\* _mark_job_running: the decision, on a freshly read row ...
ClaimRead(p, j) ==
  /\ sched[p].pc = "claim"
  /\ IsNext(p, j)
  /\ Claimable(p, j)
  /\ SetSched(p, [sched[p] EXCEPT !.pc = "write", !.seen = row[j]])
  /\ UNCHANGED <<row, inflight, runner>> /\ SchedUnchanged

ClaimSkip(p, j) ==
  /\ sched[p].pc = "claim"
  /\ IsNext(p, j)
  /\ ~Claimable(p, j)
  /\ \/ SetSched(p, [sched[p] EXCEPT
            !.cand = @ \ {j},
            !.held = IF row[j].st = "queued" THEN Loaded(p, j) ELSE @])
     \* a candidate deleted meanwhile may raise and end the tick
     \/ row[j].st = "gone" /\ SetSched(p, Idle)
  /\ UNCHANGED <<row, inflight, runner>> /\ SchedUnchanged

\* ... and the commit of status "running".
ClaimWrite(p, j) ==
  /\ sched[p].pc = "write"
  /\ IsNext(p, j)
  /\ Flush(j, sched[p].seen,
           [sched[p].seen EXCEPT !.st = "running", !.started = TRUE],
           {"started"})
  /\ SetSched(p, IF Exists(row[j])
                 THEN [sched[p] EXCEPT !.pc = "spawn", !.fresh = TRUE,
                                       !.held = "expired", !.seen = NoRow]
                 ELSE Idle)
  /\ UNCHANGED <<inflight, runner>> /\ SchedUnchanged

\* Mutant: no inflight_job_ids.
NeverInFlight(p, j) == FALSE

\* _spawn_job returns without a thread if the id is still in flight here.
InFlight(p, j) == j \in inflight[p]

Spawn(p, j) ==
  /\ sched[p].pc = "spawn"
  /\ IsNext(p, j)
  /\ SetSched(p, [sched[p] EXCEPT !.pc = "claim", !.cand = @ \ {j}])
  /\ IF InFlight(p, j)
     THEN UNCHANGED <<inflight, runner>>
     ELSE /\ inflight' = [inflight EXCEPT ![p] = @ \cup {j}]
          /\ RunnerAt(p, j, "start")
  /\ UNCHANGED row /\ SchedUnchanged

SchedStep(p) ==
  \/ TickStart(p) \/ TickEnd(p) \/ TickQuery(p) \/ QueueDone(p)
  \/ \E q \in Queues : TickCount(p, q)
  \/ \E j \in Jobs : \/ ClaimRead(p, j) \/ ClaimSkip(p, j)
                     \/ ClaimWrite(p, j) \/ Spawn(p, j)

-----------------------------------------------------------------------------
(* The job thread: _run_job_thread.                                        *)

RunnerUnchanged == UNCHANGED <<qpaused, up, sched, ctl, crashes>>

\* The thread opens, and the row has been deleted, or is when the attempt is to
\* be recorded.
RunGone(p, j) ==
  /\ runner[p][j].pc \in {"start", "number"}
  /\ ~Exists(row[j])
  /\ SetRunner(p, j, [runner[p][j] EXCEPT !.pc = "exit", !.seen = NoRow])
  /\ UNCHANGED <<row, inflight, handler, starts>> /\ RunnerUnchanged

\* No handler is registered.
Failed(r) == [r EXCEPT !.st = "failed", !.finished = TRUE]

RunUnknown(p, j) ==
  /\ runner[p][j].pc = "start"
  /\ Exists(row[j])
  /\ j \notin Known[p]
  /\ SetRow(j, Failed(row[j]))
  /\ RunnerAt(p, j, "exit")
  /\ UNCHANGED <<inflight, handler, starts>> /\ RunnerUnchanged

\* The number of the attempt follows the one in the row as it is read, ...
RunOpen(p, j) ==
  /\ runner[p][j].pc = "start"
  /\ Exists(row[j])
  /\ j \in Known[p]
  /\ SetRunner(p, j, [runner[p][j] EXCEPT !.pc = "number", !.seen = row[j]])
  /\ UNCHANGED <<row, inflight, handler, starts>> /\ RunnerUnchanged

\* ... and is committed; then the handler is called.
RunStart(p, j) ==
  LET n       == starts[j] + 1
      seen    == runner[p][j].seen
      attempt == seen.att + 1
  IN /\ runner[p][j].pc = "number"
     /\ Exists(row[j])
     /\ starts[j] < MaxStarts
     /\ Flush(j, seen, [seen EXCEPT !.att = attempt], {})
     /\ starts' = [starts EXCEPT ![j] = n]
     /\ SetHandler(j, n, [pc |-> IF j \in Pollers THEN "poll" ELSE "work",
                          proc |-> p, late |-> FALSE])
     /\ SetRunner(p, j, [pc |-> "join", n |-> n, att |-> attempt,
                         seen |-> NoRow])
     /\ UNCHANGED inflight /\ RunnerUnchanged

\* _run_handler_with_timeout: the handler returned or raised ...
RunJoin(p, j) ==
  /\ runner[p][j].pc = "join"
  /\ LET n == runner[p][j].n
     IN /\ \/ handler[j][n].pc = "done" /\ RunnerAt(p, j, "final")
           \/ handler[j][n].pc = "err" /\ RunnerAt(p, j, "fail")
        /\ SetHandler(j, n, NoHandler)
  /\ UNCHANGED <<row, inflight, starts>> /\ RunnerUnchanged

\* ... or it is still running at the deadline: a stop is requested, and the
\* handler's thread is left behind.
\* Mutant: the timeout does not mark a stop request.
NoStopAsked(r) == r

StopAsked(r) == IF Exists(r) THEN [r EXCEPT !.stop = TRUE] ELSE r

RunTimeout(p, j) ==
  LET n == runner[p][j].n
  IN /\ runner[p][j].pc = "join"
     /\ j \in Timed
     /\ Executing(handler[j][n])
     /\ SetRow(j, StopAsked(row[j]))
     /\ SetHandler(j, n, [handler[j][n] EXCEPT !.late = TRUE])
     /\ RunnerAt(p, j, "fail")
     /\ UNCHANGED <<inflight, starts>> /\ RunnerUnchanged

\* Both ways out re-read the row, decide on what they saw, and write.  The
\* failure path may sleep in between (retry_backoff_sec).
RunReread(p, j) ==
  /\ runner[p][j].pc \in {"final", "fail"}
  /\ IF ~Exists(row[j])
     THEN RunnerAt(p, j, "exit")
     ELSE SetRunner(p, j, [runner[p][j] EXCEPT
            !.pc = IF @ = "final" THEN "finalw" ELSE "failw",
            !.seen = row[j]])
  /\ UNCHANGED <<row, inflight, handler, starts>> /\ RunnerUnchanged

\* Mutant: the job thread leaves it to the handler to set "completed".
OutcomeByHandler(r) ==
  IF r.stop /\ r.st \notin TerminalStatuses THEN "stopped" ELSE r.st

\* The outcome of a handler that returned, from the row as re-read.
Outcome(r) ==
  IF r.stop /\ r.st \notin TerminalStatuses THEN "stopped"
  ELSE IF r.st = "running" THEN "completed"
  ELSE r.st

RunFinalWrite(p, j) ==
  LET seen == runner[p][j].seen
      st   == Outcome(seen)
  IN /\ runner[p][j].pc = "finalw"
     /\ Flush(j, seen, [seen EXCEPT !.st = st,
                          !.finished = @ \/ st \in TerminalStatuses], {})
     /\ RunnerAt(p, j, "exit")
     /\ UNCHANGED <<inflight, handler, starts>> /\ RunnerUnchanged

\* _try_requeue_failed_job, or the failure of the job.  Either one stamps the
\* result with last_failed_at, and so writes the attempt number back.
Requeued(r) == [r EXCEPT !.st = "queued", !.stop = FALSE,
                         !.started = FALSE, !.finished = FALSE]

\* Mutant: if attempt > max_retries + 1.
MayRetryOnceMore(p, j) == runner[p][j].att <= MaxRetries[j] + 1

MayRetry(p, j) == runner[p][j].att <= MaxRetries[j]

RunFailWrite(p, j) ==
  LET seen == [runner[p][j].seen EXCEPT !.att = runner[p][j].att]
  IN /\ runner[p][j].pc = "failw"
     /\ IF MayRetry(p, j)
        THEN Flush(j, runner[p][j].seen, Requeued(seen), {"att"})
        ELSE Flush(j, runner[p][j].seen, Failed(seen), {"att", "finished"})
     /\ RunnerAt(p, j, "exit")
     /\ UNCHANGED <<inflight, handler, starts>> /\ RunnerUnchanged

\* The finally block.
RunExit(p, j) ==
  /\ runner[p][j].pc = "exit"
  /\ inflight' = [inflight EXCEPT ![p] = @ \ {j}]
  /\ SetRunner(p, j, NoRunner)
  /\ UNCHANGED <<row, handler, starts>> /\ RunnerUnchanged

RunnerStep(p, j) ==
  \/ RunGone(p, j) \/ RunUnknown(p, j) \/ RunOpen(p, j) \/ RunStart(p, j)
  \/ RunJoin(p, j) \/ RunTimeout(p, j) \/ RunReread(p, j)
  \/ RunFinalWrite(p, j) \/ RunFailWrite(p, j) \/ RunExit(p, j)

-----------------------------------------------------------------------------
(* The handlers: bounded loops that call _job_control before each piece of *)
(* work (simulate_delay, log_batch, the broadcast batch), or a single      *)
(* piece of work (the others).                                             *)

HandlerUnchanged ==
  UNCHANGED <<qpaused, up, sched, inflight, runner, starts, ctl, crashes>>

\* How a handler ended is kept for the job thread that waits for it, if one does.
Ended(h, how) == IF h.late THEN NoHandler ELSE [h EXCEPT !.pc = how]

\* Mutant: a loop that takes the status for the verdict.
PolledStatus(r) == IF r.stop THEN "halt" ELSE r.st

\* _job_control, and what the loop does with it; a missing row reads as stop.
Polled(r) == IF ~Exists(r) \/ r.stop THEN "halt"
             ELSE IF r.st = "paused" THEN "wait" ELSE "work"

HandlerPoll(j, n) ==
  /\ handler[j][n].pc = "poll"
  /\ HandlerAt(j, n, Polled(row[j]))
  /\ UNCHANGED row /\ HandlerUnchanged

\* _wait_while_paused goes round until the job is resumed or stopped.
HandlerWait(j, n) ==
  /\ handler[j][n].pc = "wait"
  /\ Polled(row[j]) # "wait"
  /\ HandlerAt(j, n, Polled(row[j]))
  /\ UNCHANGED row /\ HandlerUnchanged

\* It obeys: status "stopped", and an ordinary return.
HandlerHalt(j, n) ==
  /\ handler[j][n].pc = "halt"
  /\ IF Exists(row[j]) THEN SetRow(j, [row[j] EXCEPT !.st = "stopped"])
                       ELSE UNCHANGED row
  /\ SetHandler(j, n, Ended(handler[j][n], "done"))
  /\ HandlerUnchanged

\* A piece of work with another one to follow.
HandlerWork(j, n) ==
  /\ handler[j][n].pc = "work"
  /\ j \in Pollers
  /\ HandlerAt(j, n, "poll")
  /\ UNCHANGED row /\ HandlerUnchanged

\* The last one.  A handler that reports a result replaces job.result, and
\* with it the attempt number kept under "_runtime".
HandlerReturn(j, n) ==
  /\ handler[j][n].pc = "work"
  /\ IF Exists(row[j]) /\ j \in Overwriters
     THEN SetRow(j, [row[j] EXCEPT !.att = 0])
     ELSE UNCHANGED row
  /\ SetHandler(j, n, Ended(handler[j][n], "done"))
  /\ HandlerUnchanged

HandlerRaise(j, n) ==
  /\ handler[j][n].pc = "work"
  /\ SetHandler(j, n, Ended(handler[j][n], "err"))
  /\ UNCHANGED row /\ HandlerUnchanged

HandlerStep(j, n) ==
  \/ HandlerPoll(j, n) \/ HandlerWait(j, n) \/ HandlerHalt(j, n)
  \/ HandlerWork(j, n) \/ HandlerReturn(j, n) \/ HandlerRaise(j, n)

-----------------------------------------------------------------------------
(* Processes stop and start: a deploy, a restart from the admin page, a    *)
(* gunicorn reload, a crash.  Every thread is a daemon thread, so all die  *)
(* with the process; only the tables survive.                              *)

Crash(p) ==
  /\ p \in up
  /\ crashes < MaxCrashes
  /\ crashes' = crashes + 1
  /\ up' = up \ {p}
  /\ sched' = [sched EXCEPT ![p] = Idle]
  /\ inflight' = [inflight EXCEPT ![p] = {}]
  /\ runner' = [runner EXCEPT ![p] = [j \in Jobs |-> NoRunner]]
  /\ handler' = [j \in Jobs |-> [n \in Starts |->
       IF handler[j][n].proc = p THEN NoHandler ELSE handler[j][n]]]
  /\ UNCHANGED <<row, qpaused, starts, ctl>>

Restart(p) ==
  /\ p \notin up
  /\ up' = up \cup {p}
  /\ UNCHANGED <<row, qpaused, sched, inflight, runner, handler, starts, ctl,
                 crashes>>

-----------------------------------------------------------------------------
(* The administrative controls.                                            *)

CtlUnchanged ==
  UNCHANGED <<up, sched, inflight, runner, handler, starts, crashes>>

\* request_job_pause and request_job_stop read the row ...
ControlRead(a, op, j) ==
  /\ ctl[a].op = "idle"
  /\ op \in Controls
  /\ Exists(row[j])
  /\ SetCtl(a, Request(op, {j}, row[j]))
  /\ UNCHANGED <<row, qpaused>> /\ CtlUnchanged

\* ... and write what they decided on it.
Controlled(op, r) ==
  CASE op = "pause" ->
         IF r.st \in {"queued", "running"} THEN [r EXCEPT !.st = "paused"] ELSE r
    [] op = "resume" ->
         IF r.st # "paused" THEN r
         ELSE IF r.started /\ ~r.finished THEN [r EXCEPT !.st = "running"]
         ELSE [r EXCEPT !.st = "queued"]
    [] op = "stop" ->
         IF r.st \in {"queued", "paused"}
         THEN [r EXCEPT !.st = "stopped", !.stop = TRUE, !.finished = TRUE]
         ELSE [r EXCEPT !.stop = TRUE]

Stamps(op, r) == IF op = "stop" /\ r.st \in {"queued", "paused"}
                 THEN {"finished"} ELSE {}

ControlWrite(a, j) ==
  /\ ctl[a].op \in JobOps
  /\ j \in ctl[a].ids
  /\ LET op == ctl[a].op  seen == ctl[a].seen
     IN Flush(j, seen, Controlled(op, seen), Stamps(op, seen))
  /\ SetCtl(a, Answered)
  /\ UNCHANGED qpaused /\ CtlUnchanged

Deleted == [NoRow EXCEPT !.st = "gone"]

TerminalRows == {j \in Jobs : row[j].st \in TerminalStatuses}

Delete(js) == row' = [j \in Jobs |->
                        IF j \in js /\ Exists(row[j]) THEN Deleted
                        ELSE row[j]]

\* cleanup_terminal_jobs(scope="all"): one DELETE.
CleanupAll(a) ==
  /\ ctl[a].op = "idle"
  /\ "cleanup_all" \in Controls
  /\ Delete(TerminalRows)
  /\ SetCtl(a, Answered)
  /\ UNCHANGED qpaused /\ CtlUnchanged

\* cleanup_terminal_jobs(scope="recent"): the terminal ids among the most
\* recent jobs are collected, then deleted by id.
CleanupRead(a) ==
  /\ ctl[a].op = "idle"
  /\ "cleanup_recent" \in Controls
  /\ TerminalRows # {}
  /\ SetCtl(a, Request("cleanup_recent", TerminalRows, NoRow))
  /\ UNCHANGED <<row, qpaused>> /\ CtlUnchanged

CleanupWrite(a) ==
  /\ ctl[a].op = "cleanup_recent"
  /\ Delete(ctl[a].ids)
  /\ SetCtl(a, Answered)
  /\ UNCHANGED qpaused /\ CtlUnchanged

\* set_queue_pause.
QueuePause(a, q, b) ==
  /\ ctl[a].op = "idle"
  /\ (IF b THEN "queue_pause" ELSE "queue_resume") \in Controls
  /\ qpaused' = [qpaused EXCEPT ![q] = b]
  /\ SetCtl(a, Answered)
  /\ UNCHANGED row /\ CtlUnchanged

ControlStep(a) ==
  \/ CleanupAll(a) \/ CleanupRead(a) \/ CleanupWrite(a)
  \/ \E j \in Jobs : \/ ControlWrite(a, j)
                     \/ \E op \in JobOps : ControlRead(a, op, j)
  \/ \E q \in Queues, b \in BOOLEAN : QueuePause(a, q, b)

-----------------------------------------------------------------------------

Next ==
  \/ \E j \in Jobs : Enqueue(j)
  \/ \E p \in Procs : SchedStep(p) \/ Crash(p) \/ Restart(p)
  \/ \E p \in Procs, j \in Jobs : RunnerStep(p, j)
  \/ \E j \in Jobs, n \in Starts : HandlerStep(j, n)
  \/ \E a \in Admins : ControlStep(a)

Spec == Init /\ [][Next]_vars

\* The threads of a running process are scheduled, and their waits on the
\* database end.  Nothing is assumed of a handler, which may hang; of a
\* request, which may never come; or of a crash.
Fairness ==
  /\ \A p \in Procs : WF_vars(SchedStep(p))
  /\ \A p \in Procs, j \in Jobs : WF_vars(RunnerStep(p, j))

FairSpec == Spec /\ Fairness

-----------------------------------------------------------------------------
(* Properties.                                                             *)

Underway(h) == Executing(h) /\ ~h.late

\* A process never has two attempts of one job under way: inflight_job_ids
\* admits one job thread per id, and the thread waits for its handler
\* (_spawn_job, _run_job_thread).  An attempt given up on by a timeout is
\* no longer waited for, and not counted.
OneAttemptPerProcess ==
  \A j \in Jobs : \A m \in Starts :
    Underway(handler[j][m]) =>
      \A n \in Starts : /\ Underway(handler[j][n])
                        /\ handler[j][n].proc = handler[j][m].proc
                        => m = n

\* A row in status "running" has a thread that will end it: a claim about to
\* spawn one, or a live job thread (_mark_job_running, _spawn_job).
Attended(j) ==
  \/ \E p \in Procs : sched[p].pc = "spawn" /\ IsNext(p, j)
  \/ \E p \in Procs : runner[p][j].pc \notin {"none", "exit"}

NoLostJob == \A j \in Jobs : row[j].st = "running" => Attended(j)

\* Each process counts the running jobs of a queue and claims on its own, so
\* that several may fill the same slots; yet a queue never runs more jobs than
\* its concurrency for each of them (_tick, _mark_job_running).
FleetBounded ==
  \A q \in Queues :
    Cardinality(RowsOf(q, "running")) <= Cardinality(Procs) * Concurrency[q]

\* A stop that was asked of a job without retries is never lost: no later
\* write, by any process or request, takes it back (request_job_stop,
\* _run_handler_with_timeout, _try_requeue_failed_job).
StopKept ==
  [][\A j \in Jobs : MaxRetries[j] = 0 /\ row[j].stop
       => row'[j].stop \/ ~Exists(row'[j])]_vars

\* A handler its job thread gave up on exits at its next poll: the timeout
\* has marked a stop request for it (_run_handler_with_timeout: "handlers
\* that poll control can exit").
LateHandlerExits ==
  [][\A j \in Jobs : \A n \in Starts :
       /\ handler[j][n].pc \in {"poll", "wait"}
       /\ handler[j][n].late
       => handler'[j][n].pc # "work"]_vars

\* Every job that is queued ends, and stays ended (_tick, _run_job_thread,
\* request_job_stop).
EveryJobEnds ==
  \A j \in Jobs :
    row[j].st = "queued" ~> [](row[j].st \in TerminalStatuses)
=============================================================================
