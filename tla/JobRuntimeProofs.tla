-------------------------- MODULE JobRuntimeProofs --------------------------
(***************************************************************************)
(* Theorems about the job runtime, for any jobs, queues, processes and     *)
(* administrative requests.                                                *)
(***************************************************************************)
EXTENDS JobRuntime, FiniteSetTheorems, TLAPS

-----------------------------------------------------------------------------
(* Type correctness.                                                       *)

\* A flush writes a row of the table's type.
LEMMA FlushedType ==
  ASSUME NEW current \in Row, NEW loaded \in Row, NEW new \in Row, NEW stamped
  PROVE  Flushed(current, loaded, new, stamped) \in Row
<1>1. CASE ~Exists(current)
  BY <1>1 DEF Flushed
<1>2. CASE Exists(current)
  <2> DEFINE f == [c \in DOMAIN current |->
                     IF new[c] # loaded[c] \/ c \in stamped THEN new[c]
                     ELSE current[c]]
  <2>1. DOMAIN current = {"st", "stop", "started", "finished", "att"}
    BY DEF Row
  <2>2. f = [st |-> f["st"], stop |-> f["stop"], started |-> f["started"],
             finished |-> f["finished"], att |-> f["att"]]
    BY <2>1
  <2>3. /\ f["st"] \in Statuses
        /\ f["stop"] \in BOOLEAN /\ f["started"] \in BOOLEAN
        /\ f["finished"] \in BOOLEAN /\ f["att"] \in Nat
    BY <2>1 DEF Row
  <2>4. f \in Row
    BY <2>2, <2>3 DEF Row
  <2> QED
    BY <1>2, <2>4 DEF Flushed
<1> QED
  BY <1>1, <1>2

LEMMA CountType ==
  ASSUME NEW q, NEW status
  PROVE  Cardinality(RowsOf(q, status)) \in Nat
<1>1. RowsOf(q, status) \subseteq Jobs
  BY DEF RowsOf
<1>2. IsFiniteSet(RowsOf(q, status))
  BY <1>1, JobsAssumption, FS_Subset
<1> QED
  BY <1>2, FS_CardinalityType

LEMMA InitialTypes ==
  /\ NoRow \in Row
  /\ Idle \in Sched
  /\ NoRunner \in Runner
  /\ NoHandler \in Handler
  /\ NoRequest \in Ctl
  /\ Answered \in Ctl
<1>1. NoRow \in Row
  BY DEF NoRow, Row, Statuses, Absent
<1>2. Idle \in Sched
  BY <1>1, NonEmptyAssumption DEF Idle, Sched
<1>3. NoRunner \in Runner
  BY <1>1 DEF NoRunner, Runner
<1>4. NoHandler \in Handler
  BY NonEmptyAssumption DEF NoHandler, Handler
<1>5. NoRequest \in Ctl /\ Answered \in Ctl
  BY <1>1 DEF NoRequest, Answered, Request, Ctl
<1> QED
  BY <1>1, <1>2, <1>3, <1>4, <1>5

\* The rows the code computes are rows.
LEMMA ComputedRows ==
  ASSUME NEW r \in Row
  PROVE  /\ Requeued(r) \in Row
         /\ Failed(r) \in Row
         /\ StopAsked(r) \in Row
         /\ Outcome(r) \in Statuses
         /\ \A op \in JobOps : Controlled(op, r) \in Row
<1> USE DEF Row, Statuses, LiveStatuses, TerminalStatuses
<1>1. Requeued(r) \in Row
  BY DEF Requeued
<1>2. Failed(r) \in Row
  BY DEF Failed
<1>3. StopAsked(r) \in Row
  BY DEF StopAsked
<1>4. Outcome(r) \in Statuses
  BY DEF Outcome
<1>5. \A op \in JobOps : Controlled(op, r) \in Row
  BY DEF Controlled, JobOps
<1> QED
  BY <1>1, <1>2, <1>3, <1>4, <1>5

\* The types of what the two backends of the runtime share: all but the
\* scheduler threads.
SharedTypes ==
  /\ row \in [Jobs -> Row]
  /\ qpaused \in [Queues -> BOOLEAN]
  /\ up \in SUBSET Procs
  /\ inflight \in [Procs -> SUBSET Jobs]
  /\ runner \in [Procs -> [Jobs -> Runner]]
  /\ handler \in [Jobs -> [Starts -> Handler]]
  /\ starts \in [Jobs -> 0..MaxStarts]
  /\ ctl \in [Admins -> Ctl]
  /\ crashes \in 0..MaxCrashes

LEMMA TypeParts == TypeOK <=> SharedTypes /\ sched \in [Procs -> Sched]
  BY DEF TypeOK, SharedTypes

\* An assignment of a value of the right type keeps a variable's type.
LEMMA AssignedTypes ==
  ASSUME SharedTypes, NEW p \in Procs, NEW j \in Jobs
  PROVE  /\ \A r \in Row : SetRow(j, r) => row' \in [Jobs -> Row]
         /\ \A r \in Runner :
              SetRunner(p, j, r) => runner' \in [Procs -> [Jobs -> Runner]]
         /\ \A n : \A h \in Handler :
              SetHandler(j, n, h) => handler' \in [Jobs -> [Starts -> Handler]]
<1>1. \A r \in Row : SetRow(j, r) => row' \in [Jobs -> Row]
  BY DEF SharedTypes, SetRow
<1>3. ASSUME NEW r \in Runner, SetRunner(p, j, r)
      PROVE  runner' \in [Procs -> [Jobs -> Runner]]
  <2>1. [runner[p] EXCEPT ![j] = r] \in [Jobs -> Runner]
    BY DEF SharedTypes
  <2>2. runner' = [runner EXCEPT ![p] = [runner[p] EXCEPT ![j] = r]]
    BY <1>3 DEF SetRunner
  <2> QED
    BY <2>1, <2>2 DEF SharedTypes
<1>4. ASSUME NEW n, NEW h \in Handler, SetHandler(j, n, h)
      PROVE  handler' \in [Jobs -> [Starts -> Handler]]
  <2>1. [handler[j] EXCEPT ![n] = h] \in [Starts -> Handler]
    BY DEF SharedTypes
  <2>2. handler' = [handler EXCEPT ![j] = [handler[j] EXCEPT ![n] = h]]
    BY <1>4 DEF SetHandler
  <2> QED
    BY <2>1, <2>2 DEF SharedTypes
<1> QED
  BY <1>1, <1>3, <1>4

LEMMA EnqueueType ==
  ASSUME SharedTypes, NEW j \in Jobs, Enqueue(j)
  PROVE  SharedTypes'
<1> DEFINE new == [row[j] EXCEPT !.st = "queued"]
<1>0. row[j] \in Row
  BY DEF SharedTypes
<1>1. new \in Row
  BY <1>0 DEF Row, Statuses, LiveStatuses
<1>2. SetRow(j, new)
  BY DEF Enqueue
<1> HIDE DEF new
<1>3. row' \in [Jobs -> Row]
  BY <1>1, <1>2 DEF SetRow, SharedTypes
<1> QED
  BY <1>3 DEF Enqueue, SharedTypes

LEMMA SchedStepType ==
  ASSUME TypeOK, NEW p \in Procs, SchedStep(p)
  PROVE  TypeOK'
<1>0. /\ sched[p] \in Sched
      /\ \A s \in Sched : SetSched(p, s) => sched' \in [Procs -> Sched]
  BY DEF TypeOK, SetSched
<1>1. CASE TickStart(p)
  <2>1. [Idle EXCEPT !.pc = "count", !.todo = {q \in Queues : ~qpaused[q]}] \in Sched
    BY InitialTypes DEF Sched
  <2> QED
    BY <1>0, <1>1, <2>1 DEF TickStart, TypeOK, SchedUnchanged
<1>2. CASE \E q \in Queues : TickCount(p, q)
  <2>1. PICK q \in Queues : TickCount(p, q)
    BY <1>2
  <2> DEFINE running == Cardinality(RowsOf(q, "running"))
             held    == QueueCopy(p, q)
             served  == [sched[p] EXCEPT !.pc = "query", !.todo = @ \ {q},
                           !.queue = q, !.slots = Concurrency[q] - running,
                           !.held = held]
             skipped == [sched[p] EXCEPT !.todo = @ \ {q}]
  <2>2. running < Concurrency[q] => Concurrency[q] - running \in Nat
    BY CountType, ConcurrencyAssumption
  <2>7. held \in {"open", "paused"}
    BY DEF QueueCopy
  <2>3. SetSched(p, IF running < Concurrency[q] THEN served ELSE skipped)
    BY <2>1 DEF TickCount
  <2> HIDE DEF running, held
  <2>4. running < Concurrency[q] => served \in Sched
    BY <1>0, <2>2, <2>7 DEF Sched
  <2>5. skipped \in Sched
    BY <1>0 DEF Sched
  <2> HIDE DEF served, skipped
  <2>6. sched' \in [Procs -> Sched]
    BY <1>0, <2>3, <2>4, <2>5
  <2> QED
    BY <2>1, <2>6 DEF TickCount, TypeOK, SchedUnchanged
<1>3. CASE TickEnd(p)
  BY <1>0, <1>3, InitialTypes DEF TickEnd, TypeOK, SchedUnchanged
<1>4. CASE TickQuery(p)
  <2> DEFINE cand == Oldest(RowsOf(sched[p].queue, "queued"), sched[p].slots)
             s    == [sched[p] EXCEPT !.pc = "claim", !.cand = cand, !.slots = 0]
  <2>1. cand \in SUBSET Jobs
    BY DEF Oldest, RowsOf
  <2>2. SetSched(p, s)
    BY <1>4 DEF TickQuery
  <2> HIDE DEF cand
  <2>3. s \in Sched
    BY <1>0, <2>1 DEF Sched
  <2> QED
    BY <1>0, <1>4, <2>2, <2>3 DEF TickQuery, TypeOK, SchedUnchanged
<1>5. CASE QueueDone(p)
  <2>1. [sched[p] EXCEPT !.pc = "count"] \in Sched
    BY <1>0 DEF Sched
  <2> QED
    BY <1>0, <1>5, <2>1 DEF QueueDone, TypeOK, SchedUnchanged
<1>6. ASSUME NEW j \in Jobs, ClaimRead(p, j)
      PROVE  TypeOK'
  <2>1. [sched[p] EXCEPT !.pc = "write", !.seen = row[j]] \in Sched
    BY <1>0 DEF Sched, TypeOK
  <2> QED
    BY <1>0, <1>6, <2>1 DEF ClaimRead, TypeOK, SchedUnchanged
<1>7. ASSUME NEW j \in Jobs, ClaimSkip(p, j)
      PROVE  TypeOK'
  <2> DEFINE held == IF row[j].st = "queued" THEN Loaded(p, j) ELSE sched[p].held
             s    == [sched[p] EXCEPT !.cand = @ \ {j}, !.held = held]
  <2>1. held \in {"open", "paused", "expired"}
    BY <1>0 DEF Loaded, Sched
  <2>2. SetSched(p, s) \/ SetSched(p, Idle)
    BY <1>7 DEF ClaimSkip
  <2> HIDE DEF held
  <2>3. s \in Sched
    BY <1>0, <2>1 DEF Sched
  <2> HIDE DEF s
  <2> QED
    BY <1>0, <1>7, <2>2, <2>3, InitialTypes DEF ClaimSkip, TypeOK, SchedUnchanged
<1>8. ASSUME NEW j \in Jobs, ClaimWrite(p, j)
      PROVE  TypeOK'
  <2> DEFINE seen == sched[p].seen
             new  == [seen EXCEPT !.st = "running", !.started = TRUE]
             s    == [sched[p] EXCEPT !.pc = "spawn", !.fresh = TRUE,
                                      !.held = "expired", !.seen = NoRow]
  <2>1. seen \in Row /\ row[j] \in Row
    BY <1>0 DEF Sched, TypeOK
  <2>2. new \in Row
    BY <2>1 DEF Row, Statuses, LiveStatuses
  <2>3. SetRow(j, Flushed(row[j], seen, new, {"started"}))
    BY <1>8 DEF ClaimWrite, Flush
  <2>4. s \in Sched
    BY <1>0, InitialTypes DEF Sched
  <2>5. SetSched(p, IF Exists(row[j]) THEN s ELSE Idle)
    BY <1>8 DEF ClaimWrite
  <2> HIDE DEF seen, new, s
  <2>6. row' \in [Jobs -> Row]
    BY <2>1, <2>2, <2>3, FlushedType, AssignedTypes, TypeParts
  <2>7. sched' \in [Procs -> Sched]
    BY <1>0, <2>4, <2>5, InitialTypes
  <2> QED
    BY <1>8, <2>6, <2>7 DEF ClaimWrite, TypeOK, SchedUnchanged
<1>9. ASSUME NEW j \in Jobs, Spawn(p, j)
      PROVE  TypeOK'
  <2>1. [sched[p] EXCEPT !.pc = "claim", !.cand = @ \ {j}] \in Sched
    BY <1>0 DEF Sched
  <2>2. sched' \in [Procs -> Sched]
    BY <1>0, <1>9, <2>1 DEF Spawn
  <2>3. inflight' \in [Procs -> SUBSET Jobs]
    BY <1>9 DEF Spawn, TypeOK
  <2>0. runner[p][j] \in Runner
    BY DEF TypeOK
  <2>4. [runner[p][j] EXCEPT !.pc = "start"] \in Runner
    BY <2>0 DEF Runner
  <2>5. runner' \in [Procs -> [Jobs -> Runner]]
    <3>1. CASE UNCHANGED runner
      BY <3>1 DEF TypeOK
    <3>2. CASE SetRunner(p, j, [runner[p][j] EXCEPT !.pc = "start"])
      BY <3>2, <2>4, AssignedTypes, TypeParts
    <3> QED
      BY <1>9, <3>1, <3>2 DEF Spawn, RunnerAt
  <2> QED
    BY <1>9, <2>2, <2>3, <2>5 DEF Spawn, TypeOK, SchedUnchanged
<1> QED
  BY <1>1, <1>2, <1>3, <1>4, <1>5, <1>6, <1>7, <1>8, <1>9 DEF SchedStep

\* The counter of a runner never leaves its type when the runner moves on.
LEMMA RunnerAtType ==
  ASSUME SharedTypes, NEW p \in Procs, NEW j \in Jobs,
         NEW pc \in {"start", "final", "fail", "exit"}, RunnerAt(p, j, pc)
  PROVE  runner' \in [Procs -> [Jobs -> Runner]]
<1>0. runner[p][j] \in Runner
  BY DEF SharedTypes
<1>1. [runner[p][j] EXCEPT !.pc = pc] \in Runner
  BY <1>0 DEF Runner
<1> QED
  BY <1>1, AssignedTypes DEF RunnerAt

LEMMA RunnerStepType ==
  ASSUME SharedTypes, NEW p \in Procs, NEW j \in Jobs, RunnerStep(p, j)
  PROVE  SharedTypes'
<1>0. row[j] \in Row /\ runner[p][j] \in Runner
  BY DEF SharedTypes
<1>1. CASE RunGone(p, j)
  <2>1. [runner[p][j] EXCEPT !.pc = "exit", !.seen = NoRow] \in Runner
    BY <1>0, InitialTypes DEF Runner
  <2> QED
    BY <1>1, <2>1, AssignedTypes DEF RunGone, SharedTypes, RunnerUnchanged
<1>10. CASE RunOpen(p, j)
  <2>1. [runner[p][j] EXCEPT !.pc = "number", !.seen = row[j]] \in Runner
    BY <1>0 DEF Runner
  <2> QED
    BY <1>10, <2>1, AssignedTypes DEF RunOpen, SharedTypes, RunnerUnchanged
<1>2. CASE RunUnknown(p, j)
  <2>1. row' \in [Jobs -> Row]
    BY <1>0, <1>2, ComputedRows, AssignedTypes DEF RunUnknown
  <2> QED
    BY <1>2, <2>1, RunnerAtType DEF RunUnknown, SharedTypes, RunnerUnchanged
<1>3. CASE RunStart(p, j)
  <2> DEFINE n       == starts[j] + 1
             seen    == runner[p][j].seen
             attempt == seen.att + 1
             new     == [seen EXCEPT !.att = attempt]
             h == [pc |-> IF j \in Pollers THEN "poll" ELSE "work",
                   proc |-> p, late |-> FALSE]
             r == [pc |-> "join", n |-> n, att |-> attempt, seen |-> NoRow]
  <2>0. seen \in Row
    BY <1>0 DEF Runner
  <2>1. n \in Starts /\ attempt \in Nat
    BY <2>0, <1>3, BoundsAssumption DEF RunStart, SharedTypes, Row, Starts
  <2>2. /\ SetRow(j, Flushed(row[j], seen, new, {}))
        /\ starts' = [starts EXCEPT ![j] = n]
        /\ SetHandler(j, n, h)
        /\ SetRunner(p, j, r)
    BY <1>3 DEF RunStart, Flush
  <2> HIDE DEF n, seen, attempt
  <2>7. new \in Row
    BY <2>0, <2>1 DEF Row
  <2> HIDE DEF new
  <2>3. Flushed(row[j], seen, new, {}) \in Row
    BY <1>0, <2>0, <2>7, FlushedType
  <2>4. h \in Handler /\ r \in Runner
    BY <2>1, InitialTypes, BoundsAssumption DEF Handler, Runner, Starts
  <2>5. starts' \in [Jobs -> 0..MaxStarts]
    BY <2>1, <2>2 DEF Starts, SharedTypes
  <2> HIDE DEF h, r
  <2>6. /\ row' \in [Jobs -> Row]
        /\ handler' \in [Jobs -> [Starts -> Handler]]
        /\ runner' \in [Procs -> [Jobs -> Runner]]
    BY <2>2, <2>3, <2>4, AssignedTypes
  <2> QED
    BY <1>3, <2>5, <2>6 DEF RunStart, SharedTypes, RunnerUnchanged
<1>4. CASE RunJoin(p, j)
  <2>1. runner' \in [Procs -> [Jobs -> Runner]]
    BY <1>4, RunnerAtType DEF RunJoin
  <2>2. handler' \in [Jobs -> [Starts -> Handler]]
    BY <1>4, InitialTypes, AssignedTypes DEF RunJoin
  <2> QED
    BY <1>4, <2>1, <2>2 DEF RunJoin, SharedTypes, RunnerUnchanged
<1>5. CASE RunTimeout(p, j)
  <2> DEFINE n == runner[p][j].n
  <2>1. row' \in [Jobs -> Row]
    BY <1>0, <1>5, ComputedRows, AssignedTypes DEF RunTimeout
  <2>2. handler' \in [Jobs -> [Starts -> Handler]]
    <3>1. SetHandler(j, n, [handler[j][n] EXCEPT !.late = TRUE])
      BY <1>5 DEF RunTimeout
    <3>2. CASE n \in Starts
      <4>0. handler[j][n] \in Handler
        BY <3>2 DEF SharedTypes
      <4>1. [handler[j][n] EXCEPT !.late = TRUE] \in Handler
        BY <4>0 DEF Handler
      <4> QED
        BY <3>1, <4>1, AssignedTypes
    <3>3. CASE n \notin Starts
      <4>1. handler' = handler
        BY <3>1, <3>3 DEF SetHandler, SharedTypes
      <4> QED
        BY <4>1 DEF SharedTypes
    <3> QED
      BY <3>2, <3>3
  <2>3. runner' \in [Procs -> [Jobs -> Runner]]
    BY <1>5, RunnerAtType DEF RunTimeout
  <2> QED
    BY <1>5, <2>1, <2>2, <2>3 DEF RunTimeout, SharedTypes, RunnerUnchanged
<1>6. CASE RunReread(p, j)
  <2> DEFINE r == [runner[p][j] EXCEPT
                     !.pc = IF @ = "final" THEN "finalw" ELSE "failw",
                     !.seen = row[j]]
  <2>1. r \in Runner
    BY <1>0 DEF Runner
  <2>2. RunnerAt(p, j, "exit") \/ SetRunner(p, j, r)
    BY <1>6 DEF RunReread
  <2> HIDE DEF r
  <2>3. runner' \in [Procs -> [Jobs -> Runner]]
    BY <2>1, <2>2, RunnerAtType, AssignedTypes
  <2> QED
    BY <1>6, <2>3 DEF RunReread, SharedTypes, RunnerUnchanged
<1>7. CASE RunFinalWrite(p, j)
  <2> DEFINE seen == runner[p][j].seen
             st   == Outcome(seen)
             new  == [seen EXCEPT !.st = st,
                        !.finished = @ \/ st \in TerminalStatuses]
  <2>1. seen \in Row
    BY <1>0 DEF Runner
  <2>2. st \in Statuses
    BY <2>1, ComputedRows
  <2>3. SetRow(j, Flushed(row[j], seen, new, {}))
    BY <1>7 DEF RunFinalWrite, Flush
  <2> HIDE DEF seen, st
  <2>4. new \in Row
    BY <2>1, <2>2 DEF Row
  <2> HIDE DEF new
  <2>5. row' \in [Jobs -> Row]
    BY <1>0, <2>1, <2>3, <2>4, FlushedType, AssignedTypes
  <2> QED
    BY <1>7, <2>5, RunnerAtType DEF RunFinalWrite, SharedTypes, RunnerUnchanged
<1>8. CASE RunFailWrite(p, j)
  <2> DEFINE seen == runner[p][j].seen
             new  == [seen EXCEPT !.att = runner[p][j].att]
  <2>1. seen \in Row /\ runner[p][j].att \in Nat
    BY <1>0 DEF Runner
  <2>2. \/ SetRow(j, Flushed(row[j], seen, Requeued(new), {"att"}))
        \/ SetRow(j, Flushed(row[j], seen, Failed(new), {"att", "finished"}))
    BY <1>8 DEF RunFailWrite, Flush
  <2>3. new \in Row
    BY <2>1 DEF Row
  <2> HIDE DEF seen, new
  <2>4. Requeued(new) \in Row /\ Failed(new) \in Row
    BY <2>3, ComputedRows
  <2>5. row' \in [Jobs -> Row]
    BY <1>0, <2>1, <2>2, <2>4, FlushedType, AssignedTypes
  <2> QED
    BY <1>8, <2>5, RunnerAtType DEF RunFailWrite, SharedTypes, RunnerUnchanged
<1>9. CASE RunExit(p, j)
  <2>1. runner' \in [Procs -> [Jobs -> Runner]]
    BY <1>9, InitialTypes, AssignedTypes DEF RunExit
  <2> QED
    BY <1>9, <2>1 DEF RunExit, SharedTypes, RunnerUnchanged
<1> QED
  BY <1>1, <1>2, <1>3, <1>4, <1>5, <1>6, <1>7, <1>8, <1>9, <1>10 DEF RunnerStep

LEMMA HandlerStepType ==
  ASSUME SharedTypes, NEW j \in Jobs, NEW n \in Starts, HandlerStep(j, n)
  PROVE  SharedTypes'
<1>0. row[j] \in Row /\ handler[j][n] \in Handler
  BY DEF SharedTypes
<1>a. \A pc \in {"poll", "wait", "halt", "work"} :
        HandlerAt(j, n, pc) => handler' \in [Jobs -> [Starts -> Handler]]
  <2> SUFFICES ASSUME NEW pc \in {"poll", "wait", "halt", "work"},
                      HandlerAt(j, n, pc)
               PROVE  handler' \in [Jobs -> [Starts -> Handler]]
    OBVIOUS
  <2>1. [handler[j][n] EXCEPT !.pc = pc] \in Handler
    BY <1>0 DEF Handler
  <2> QED
    BY <2>1, AssignedTypes, NonEmptyAssumption DEF HandlerAt
<1>b. \A how \in {"done", "err"} :
        SetHandler(j, n, Ended(handler[j][n], how))
          => handler' \in [Jobs -> [Starts -> Handler]]
  <2> SUFFICES ASSUME NEW how \in {"done", "err"},
                      SetHandler(j, n, Ended(handler[j][n], how))
               PROVE  handler' \in [Jobs -> [Starts -> Handler]]
    OBVIOUS
  <2>1. [handler[j][n] EXCEPT !.pc = how] \in Handler
    BY <1>0 DEF Handler
  <2>2. Ended(handler[j][n], how) \in Handler
    BY <2>1, InitialTypes DEF Ended
  <2> QED
    BY <2>2, AssignedTypes, NonEmptyAssumption
<1>c. Polled(row[j]) \in {"wait", "halt", "work"}
  BY DEF Polled
<1>1. CASE HandlerPoll(j, n)
  BY <1>1, <1>a, <1>c DEF HandlerPoll, SharedTypes, HandlerUnchanged
<1>2. CASE HandlerWait(j, n)
  BY <1>2, <1>a, <1>c DEF HandlerWait, SharedTypes, HandlerUnchanged
<1>3. CASE HandlerHalt(j, n)
  <2>1. [row[j] EXCEPT !.st = "stopped"] \in Row
    BY <1>0 DEF Row, Statuses, TerminalStatuses
  <2>2. CASE UNCHANGED row
    BY <1>3, <1>b, <2>2 DEF HandlerHalt, SharedTypes, HandlerUnchanged
  <2>3. CASE SetRow(j, [row[j] EXCEPT !.st = "stopped"])
    <3>1. row' \in [Jobs -> Row]
      BY <2>1, <2>3, AssignedTypes, NonEmptyAssumption
    <3> QED
      BY <1>3, <1>b, <3>1 DEF HandlerHalt, SharedTypes, HandlerUnchanged
  <2> QED
    BY <1>3, <2>2, <2>3 DEF HandlerHalt
<1>4. CASE HandlerWork(j, n)
  BY <1>4, <1>a DEF HandlerWork, SharedTypes, HandlerUnchanged
<1>5. CASE HandlerReturn(j, n)
  <2>1. [row[j] EXCEPT !.att = 0] \in Row
    BY <1>0 DEF Row
  <2>2. CASE UNCHANGED row
    BY <1>5, <1>b, <2>2 DEF HandlerReturn, SharedTypes, HandlerUnchanged
  <2>3. CASE SetRow(j, [row[j] EXCEPT !.att = 0])
    <3>1. row' \in [Jobs -> Row]
      BY <2>1, <2>3, AssignedTypes, NonEmptyAssumption
    <3> QED
      BY <1>5, <1>b, <3>1 DEF HandlerReturn, SharedTypes, HandlerUnchanged
  <2> QED
    BY <1>5, <2>2, <2>3 DEF HandlerReturn
<1>6. CASE HandlerRaise(j, n)
  BY <1>6, <1>b DEF HandlerRaise, SharedTypes, HandlerUnchanged
<1> QED
  BY <1>1, <1>2, <1>3, <1>4, <1>5, <1>6 DEF HandlerStep

LEMMA ProcessStepType ==
  ASSUME SharedTypes, NEW p \in Procs, Crash(p) \/ Restart(p)
  PROVE  SharedTypes'
<1>1. CASE Crash(p)
  <2>1. crashes' \in 0..MaxCrashes
    BY <1>1, BoundsAssumption DEF Crash, SharedTypes
  <2>2. /\ up' \in SUBSET Procs
        /\ inflight' \in [Procs -> SUBSET Jobs]
    BY <1>1, InitialTypes DEF Crash, SharedTypes
  <2>3. runner' \in [Procs -> [Jobs -> Runner]]
    BY <1>1, InitialTypes DEF Crash, SharedTypes
  <2>4. handler' \in [Jobs -> [Starts -> Handler]]
    BY <1>1, InitialTypes DEF Crash, SharedTypes
  <2> QED
    BY <1>1, <2>1, <2>2, <2>3, <2>4 DEF Crash, SharedTypes
<1>2. CASE Restart(p)
  BY <1>2 DEF Restart, SharedTypes
<1> QED
  BY <1>1, <1>2

LEMMA ControlStepType ==
  ASSUME SharedTypes, NEW a \in Admins, ControlStep(a)
  PROVE  SharedTypes'
<1>0. \A c \in Ctl : SetCtl(a, c) => ctl' \in [Admins -> Ctl]
  BY DEF SetCtl, SharedTypes
<1>a. \A js : Delete(js) => row' \in [Jobs -> Row]
  <2>1. Deleted \in Row
    BY InitialTypes DEF Deleted, Row, Statuses, Absent
  <2> QED
    BY <2>1 DEF Delete, SharedTypes
<1>1. CASE CleanupAll(a)
  BY <1>0, <1>1, <1>a, InitialTypes DEF CleanupAll, SharedTypes, CtlUnchanged
<1>2. CASE CleanupRead(a)
  <2>1. Request("cleanup_recent", TerminalRows, NoRow) \in Ctl
    BY InitialTypes DEF Request, Ctl, ControlOps, TerminalRows
  <2> QED
    BY <1>0, <1>2, <2>1 DEF CleanupRead, SharedTypes, CtlUnchanged
<1>3. CASE CleanupWrite(a)
  BY <1>0, <1>3, <1>a, InitialTypes DEF CleanupWrite, SharedTypes, CtlUnchanged
<1>4. ASSUME NEW j \in Jobs, ControlWrite(a, j)
      PROVE  SharedTypes'
  <2> DEFINE op   == ctl[a].op
             seen == ctl[a].seen
  <2>1. op \in JobOps /\ seen \in Row /\ row[j] \in Row
    BY <1>4 DEF ControlWrite, SharedTypes, Ctl
  <2>2. SetRow(j, Flushed(row[j], seen, Controlled(op, seen), Stamps(op, seen)))
    BY <1>4 DEF ControlWrite, Flush
  <2> HIDE DEF op, seen
  <2>3. row' \in [Jobs -> Row]
    BY <2>1, <2>2, ComputedRows, FlushedType, AssignedTypes, NonEmptyAssumption
  <2> QED
    BY <1>0, <1>4, <2>3, InitialTypes DEF ControlWrite, SharedTypes, CtlUnchanged
<1>5. ASSUME NEW j \in Jobs, NEW op \in JobOps, ControlRead(a, op, j)
      PROVE  SharedTypes'
  <2>1. Request(op, {j}, row[j]) \in Ctl
    BY DEF Request, Ctl, ControlOps, SharedTypes
  <2> QED
    BY <1>0, <1>5, <2>1 DEF ControlRead, SharedTypes, CtlUnchanged
<1>6. ASSUME NEW q \in Queues, NEW b \in BOOLEAN, QueuePause(a, q, b)
      PROVE  SharedTypes'
  BY <1>0, <1>6, InitialTypes DEF QueuePause, SharedTypes, CtlUnchanged
<1> QED
  BY <1>1, <1>2, <1>3, <1>4, <1>5, <1>6 DEF ControlStep

\* Nothing but a scheduler and the end of its process moves it.
LEMMA SchedKept ==
  ASSUME \/ \E j \in Jobs : Enqueue(j)
         \/ \E p \in Procs : Restart(p)
         \/ \E p \in Procs, j \in Jobs : RunnerStep(p, j)
         \/ \E j \in Jobs, n \in Starts : HandlerStep(j, n)
         \/ \E a \in Admins : ControlStep(a)
  PROVE  UNCHANGED sched
<1>1. ASSUME NEW p \in Procs, NEW j \in Jobs, RunnerStep(p, j)
      PROVE  UNCHANGED sched
  BY <1>1 DEF RunnerStep, RunGone, RunUnknown, RunOpen, RunStart, RunJoin, RunTimeout,
              RunReread, RunFinalWrite, RunFailWrite, RunExit, RunnerUnchanged
<1>2. ASSUME NEW j \in Jobs, NEW n \in Starts, HandlerStep(j, n)
      PROVE  UNCHANGED sched
  BY <1>2 DEF HandlerStep, HandlerPoll, HandlerWait, HandlerHalt, HandlerWork,
              HandlerReturn, HandlerRaise, HandlerUnchanged
<1>3. ASSUME NEW a \in Admins, ControlStep(a)
      PROVE  UNCHANGED sched
  BY <1>3 DEF ControlStep, ControlRead, ControlWrite, CleanupAll, CleanupRead,
              CleanupWrite, QueuePause, CtlUnchanged
<1> QED
  BY <1>1, <1>2, <1>3 DEF Enqueue, Restart

\* Every reachable state of the runtime has the types its tables, threads and
\* requests are declared with.
THEOREM TypeCorrect == Spec => []TypeOK
<1>1. Init => TypeOK
  BY InitialTypes, BoundsAssumption DEF Init, TypeOK
<1>2. TypeOK /\ [Next]_vars => TypeOK'
  <2> SUFFICES ASSUME TypeOK, [Next]_vars
               PROVE  TypeOK'
    OBVIOUS
  <2>0. SharedTypes /\ sched \in [Procs -> Sched]
    BY TypeParts
  <2>1. CASE \E p \in Procs : SchedStep(p)
    BY <2>1, SchedStepType
  <2>3. CASE \/ \E j \in Jobs : Enqueue(j)
             \/ \E p \in Procs : Crash(p) \/ Restart(p)
             \/ \E p \in Procs, j \in Jobs : RunnerStep(p, j)
             \/ \E j \in Jobs, n \in Starts : HandlerStep(j, n)
             \/ \E a \in Admins : ControlStep(a)
    <3>1. SharedTypes'
      BY <2>0, <2>3, EnqueueType, ProcessStepType, RunnerStepType,
         HandlerStepType, ControlStepType
    <3>2. sched' \in [Procs -> Sched]
      BY <2>0, <2>3, SchedKept, InitialTypes DEF Crash
    <3> QED
      BY <3>1, <3>2 DEF TypeOK, SharedTypes
  <2>2. CASE UNCHANGED vars
    BY <2>2 DEF vars, TypeOK
  <2> QED
    BY <2>1, <2>2, <2>3 DEF Next
<1> QED
  BY <1>1, <1>2, PTL DEF Spec

-----------------------------------------------------------------------------
(* One attempt per process.  The inductive invariant says who owns what: a *)
(* job is in flight in a process exactly while it has a job thread there,  *)
(* and a handler under way is the one its job thread waits for.            *)

Owned(p, j) ==
  /\ runner[p][j].pc # "none" <=> j \in inflight[p]
  /\ \A n \in Starts :
       handler[j][n].proc = p /\ Underway(handler[j][n])
         => runner[p][j].pc = "join" /\ runner[p][j].n = n

ThreadsInv == \A p \in Procs, j \in Jobs : Owned(p, j)

LEMMA ThreadsSchedStep ==
  ASSUME TypeOK, ThreadsInv, NEW p \in Procs, SchedStep(p)
  PROVE  ThreadsInv'
<1>1. UNCHANGED handler
  BY DEF SchedStep, TickStart, TickCount, TickEnd, TickQuery, QueueDone,
         ClaimRead, ClaimSkip, ClaimWrite, Spawn, SchedUnchanged
<1>2. CASE UNCHANGED <<inflight, runner>>
  BY <1>1, <1>2 DEF ThreadsInv, Owned
<1>3. ASSUME NEW j \in Jobs, Spawn(p, j), j \notin inflight[p]
      PROVE  ThreadsInv'
  <2>1. /\ inflight' = [inflight EXCEPT ![p] = @ \cup {j}]
        /\ RunnerAt(p, j, "start")
    BY <1>3 DEF Spawn, InFlight
  <2>2. runner[p][j].pc = "none"
    BY <1>3 DEF ThreadsInv, Owned
  <2>3. runner'[p][j].pc = "start"
    BY <2>1 DEF RunnerAt, SetRunner, TypeOK, Runner
  <2>4. ASSUME NEW x \in Procs, NEW y \in Jobs, x # p \/ y # j
        PROVE  runner'[x][y] = runner[x][y] /\ (y \in inflight'[x] <=> y \in inflight[x])
    BY <2>1, <2>4 DEF RunnerAt, SetRunner, TypeOK
  <2>5. j \in inflight'[p]
    BY <2>1 DEF TypeOK
  <2>6. Owned(p, j)'
    BY <1>1, <2>2, <2>3, <2>5 DEF ThreadsInv, Owned
  <2>7. ASSUME NEW x \in Procs, NEW y \in Jobs, x # p \/ y # j
        PROVE  Owned(x, y)'
    BY <1>1, <2>4, <2>7 DEF ThreadsInv, Owned
  <2> QED
    BY <2>6, <2>7 DEF ThreadsInv
<1> QED
  BY <1>2, <1>3
  DEF SchedStep, TickStart, TickCount, TickEnd, TickQuery, QueueDone,
      ClaimRead, ClaimSkip, ClaimWrite, Spawn, InFlight

\* A step of one job thread leaves the others and their handlers alone.
LEMMA ThreadsRunnerStep ==
  ASSUME TypeOK, ThreadsInv, NEW p \in Procs, NEW j \in Jobs, RunnerStep(p, j)
  PROVE  ThreadsInv'
<1> DEFINE n == runner[p][j].n
<1>0. runner[p][j] \in Runner
  BY DEF TypeOK
<1>1. CASE \/ RunGone(p, j) \/ RunUnknown(p, j) \/ RunOpen(p, j)
           \/ RunReread(p, j) \/ RunFinalWrite(p, j) \/ RunFailWrite(p, j)
  <2>1. UNCHANGED <<inflight, handler>>
    BY <1>1 DEF RunGone, RunUnknown, RunOpen, RunReread, RunFinalWrite, RunFailWrite
  <2>2. runner[p][j].pc \notin {"none", "join"}
    BY <1>1 DEF RunGone, RunUnknown, RunOpen, RunReread, RunFinalWrite, RunFailWrite
  <2>3. \E r : r.pc \notin {"none", "join"} /\ SetRunner(p, j, r)
    <3>1. \A pc \in {"exit", "finalw", "failw"} :
            [runner[p][j] EXCEPT !.pc = pc].pc = pc
      BY <1>0 DEF Runner
    <3>2. CASE RunnerAt(p, j, "exit")
      BY <3>1, <3>2 DEF RunnerAt
    <3>3. CASE RunReread(p, j) /\ Exists(row[j])
      <4> DEFINE r == [runner[p][j] EXCEPT
                         !.pc = IF @ = "final" THEN "finalw" ELSE "failw",
                         !.seen = row[j]]
      <4>1. SetRunner(p, j, r)
        BY <3>3 DEF RunReread
      <4>2. r.pc \in {"finalw", "failw"}
        BY <1>0 DEF Runner
      <4> QED
        BY <4>1, <4>2
    <3>4. CASE RunGone(p, j)
      <4> DEFINE r == [runner[p][j] EXCEPT !.pc = "exit", !.seen = NoRow]
      <4>1. r.pc = "exit"
        BY <1>0 DEF Runner
      <4>2. SetRunner(p, j, r)
        BY <3>4 DEF RunGone
      <4> QED
        BY <4>1, <4>2
    <3>5. CASE RunOpen(p, j)
      <4> DEFINE r == [runner[p][j] EXCEPT !.pc = "number", !.seen = row[j]]
      <4>1. r.pc = "number"
        BY <1>0 DEF Runner
      <4>2. SetRunner(p, j, r)
        BY <3>5 DEF RunOpen
      <4> QED
        BY <4>1, <4>2
    <3> QED
      BY <1>1, <3>2, <3>3, <3>4, <3>5
      DEF RunUnknown, RunReread, RunFinalWrite, RunFailWrite
  <2>4. PICK r : r.pc \notin {"none", "join"} /\ SetRunner(p, j, r)
    BY <2>3
  <2>5. runner'[p][j] = r
    BY <2>4 DEF SetRunner, TypeOK
  <2>6. Owned(p, j)'
    BY <2>1, <2>2, <2>4, <2>5 DEF ThreadsInv, Owned
  <2>7. ASSUME NEW x \in Procs, NEW y \in Jobs, x # p \/ y # j
        PROVE  Owned(x, y)'
    <3>1. runner'[x][y] = runner[x][y]
      BY <2>4, <2>7 DEF SetRunner, TypeOK
    <3> QED
      BY <2>1, <3>1 DEF ThreadsInv, Owned
  <2> QED
    BY <2>6, <2>7 DEF ThreadsInv
<1>2. CASE RunStart(p, j)
  <2> DEFINE m == starts[j] + 1
             h == [pc |-> IF j \in Pollers THEN "poll" ELSE "work",
                   proc |-> p, late |-> FALSE]
             attempt == runner[p][j].seen.att + 1
             r == [pc |-> "join", n |-> m, att |-> attempt, seen |-> NoRow]
  <2>1. /\ runner[p][j].pc = "number"
        /\ UNCHANGED inflight
        /\ SetHandler(j, m, h)
        /\ SetRunner(p, j, r)
    BY <1>2 DEF RunStart
  <2> HIDE DEF m, attempt
  <2>2. runner'[p][j] = r
    BY <2>1 DEF SetRunner, TypeOK
  <2>3. \A k \in Starts : handler'[j][k] = IF k = m THEN h ELSE handler[j][k]
    BY <2>1 DEF SetHandler, TypeOK
  <2>4. \A y \in Jobs : y # j => handler'[y] = handler[y]
    BY <2>1 DEF SetHandler, TypeOK
  <2>5. Owned(p, j)'
    BY <2>1, <2>2, <2>3 DEF ThreadsInv, Owned
  <2>6. ASSUME NEW x \in Procs, NEW y \in Jobs, x # p \/ y # j
        PROVE  Owned(x, y)'
    <3>1. runner'[x][y] = runner[x][y]
      BY <2>1, <2>6 DEF SetRunner, TypeOK
    <3> QED
      BY <2>1, <2>3, <2>4, <2>6, <3>1 DEF ThreadsInv, Owned
  <2> QED
    BY <2>5, <2>6 DEF ThreadsInv
<1>3. CASE RunJoin(p, j) \/ RunTimeout(p, j)
  <2>1. /\ runner[p][j].pc = "join"
        /\ UNCHANGED inflight
        /\ \E h : ~Underway(h) /\ SetHandler(j, n, h)
        /\ \E pc \in {"final", "fail"} : RunnerAt(p, j, pc)
    <3>1. CASE RunJoin(p, j)
      <4>1. ~Underway(NoHandler)
        BY DEF Underway, Executing, NoHandler
      <4> QED
        BY <3>1, <4>1 DEF RunJoin
    <3>2. CASE RunTimeout(p, j)
      <4> DEFINE h == [handler[j][n] EXCEPT !.late = TRUE]
      <4>1. SetHandler(j, n, IF n \in Starts THEN h ELSE NoHandler)
        <5>1. SetHandler(j, n, h)
          BY <3>2 DEF RunTimeout
        <5> QED
          BY <5>1 DEF SetHandler, TypeOK
      <4>2. n \in Starts => ~Underway(h)
        <5>1. n \in Starts => handler[j][n] \in Handler
          BY DEF TypeOK
        <5>2. n \in Starts => h.late = TRUE
          BY <5>1 DEF Handler
        <5> QED
          BY <5>2 DEF Underway
      <4>3. ~Underway(NoHandler)
        BY DEF Underway, Executing, NoHandler
      <4> HIDE DEF h
      <4>4. ~Underway(IF n \in Starts THEN h ELSE NoHandler)
        BY <4>2, <4>3
      <4>5. RunnerAt(p, j, "fail")
        BY <3>2 DEF RunTimeout
      <4>6. runner[p][j].pc = "join" /\ UNCHANGED inflight
        BY <3>2 DEF RunTimeout
      <4> QED
        BY <4>1, <4>4, <4>5, <4>6
    <3> QED
      BY <1>3, <3>1, <3>2
  <2>2. PICK h : ~Underway(h) /\ SetHandler(j, n, h)
    BY <2>1
  <2>3. PICK pc \in {"final", "fail"} : RunnerAt(p, j, pc)
    BY <2>1
  <2>4. runner'[p][j].pc = pc
    BY <1>0, <2>3 DEF RunnerAt, SetRunner, TypeOK, Runner
  <2>5. \A k \in Starts : handler'[j][k] = IF k = n THEN h ELSE handler[j][k]
    BY <2>2 DEF SetHandler, TypeOK
  <2>6. \A y \in Jobs : y # j => handler'[y] = handler[y]
    BY <2>2 DEF SetHandler, TypeOK
  <2>7. Owned(p, j)'
    BY <2>1, <2>2, <2>4, <2>5 DEF ThreadsInv, Owned
  <2>8. ASSUME NEW x \in Procs, NEW y \in Jobs, x # p \/ y # j
        PROVE  Owned(x, y)'
    <3>1. runner'[x][y] = runner[x][y]
      BY <2>3, <2>8 DEF RunnerAt, SetRunner, TypeOK
    <3> QED
      BY <2>1, <2>2, <2>5, <2>6, <2>8, <3>1 DEF ThreadsInv, Owned
  <2> QED
    BY <2>7, <2>8 DEF ThreadsInv
<1>4. CASE RunExit(p, j)
  <2>1. /\ runner[p][j].pc = "exit"
        /\ inflight' = [inflight EXCEPT ![p] = @ \ {j}]
        /\ SetRunner(p, j, NoRunner)
        /\ UNCHANGED handler
    BY <1>4 DEF RunExit
  <2>2. runner'[p][j].pc = "none" /\ j \notin inflight'[p]
    BY <2>1 DEF SetRunner, TypeOK, NoRunner
  <2>3. Owned(p, j)'
    BY <2>1, <2>2 DEF ThreadsInv, Owned
  <2>4. ASSUME NEW x \in Procs, NEW y \in Jobs, x # p \/ y # j
        PROVE  Owned(x, y)'
    <3>1. /\ runner'[x][y] = runner[x][y]
          /\ y \in inflight'[x] <=> y \in inflight[x]
      BY <2>1, <2>4 DEF SetRunner, TypeOK
    <3> QED
      BY <2>1, <3>1 DEF ThreadsInv, Owned
  <2> QED
    BY <2>3, <2>4 DEF ThreadsInv
<1> QED
  BY <1>1, <1>2, <1>3, <1>4 DEF RunnerStep

\* A handler's own steps start no attempt and revive none.
LEMMA ThreadsHandlerStep ==
  ASSUME TypeOK, ThreadsInv, NEW j \in Jobs, NEW n \in Starts, HandlerStep(j, n)
  PROVE  ThreadsInv'
<1>0. handler[j][n] \in Handler
  BY DEF TypeOK
<1>1. UNCHANGED <<inflight, runner>>
  BY DEF HandlerStep, HandlerPoll, HandlerWait, HandlerHalt, HandlerWork,
         HandlerReturn, HandlerRaise, HandlerUnchanged
<1>2. PICK h : /\ SetHandler(j, n, h)
               /\ Underway(h) => /\ Underway(handler[j][n])
                                 /\ h.proc = handler[j][n].proc
  <2>1. CASE \E pc : HandlerAt(j, n, pc) /\ Executing(handler[j][n])
    <3>1. PICK pc : HandlerAt(j, n, pc) /\ Executing(handler[j][n])
      BY <2>1
    <3> DEFINE h == [handler[j][n] EXCEPT !.pc = pc]
    <3>2. h.proc = handler[j][n].proc /\ h.late = handler[j][n].late
      BY <1>0 DEF Handler
    <3>3. SetHandler(j, n, h)
      BY <3>1 DEF HandlerAt
    <3> QED
      BY <3>1, <3>2, <3>3 DEF Underway
  <2>2. CASE \E how \in {"done", "err"} :
               SetHandler(j, n, Ended(handler[j][n], how))
    <3>1. PICK how \in {"done", "err"} :
                 SetHandler(j, n, Ended(handler[j][n], how))
      BY <2>2
    <3>2. [handler[j][n] EXCEPT !.pc = how].pc = how
      BY <1>0 DEF Handler
    <3>3. ~Underway(Ended(handler[j][n], how))
      BY <3>2 DEF Underway, Executing, Ended, NoHandler
    <3> QED
      BY <3>1, <3>3
  <2>3. \/ \E pc : HandlerAt(j, n, pc) /\ Executing(handler[j][n])
        \/ \E how \in {"done", "err"} : SetHandler(j, n, Ended(handler[j][n], how))
    BY DEF HandlerStep, HandlerPoll, HandlerWait, HandlerHalt, HandlerWork,
           HandlerReturn, HandlerRaise, Executing
  <2> QED
    BY <2>1, <2>2, <2>3
<1>3. \A k \in Starts : handler'[j][k] = IF k = n THEN h ELSE handler[j][k]
  BY <1>2 DEF SetHandler, TypeOK
<1>4. \A y \in Jobs : y # j => handler'[y] = handler[y]
  BY <1>2 DEF SetHandler, TypeOK
<1>5. ASSUME NEW x \in Procs, NEW y \in Jobs
      PROVE  Owned(x, y)'
  BY <1>1, <1>2, <1>3, <1>4 DEF ThreadsInv, Owned
<1> QED
  BY <1>5 DEF ThreadsInv

LEMMA ThreadsCrash ==
  ASSUME TypeOK, ThreadsInv, NEW p \in Procs, Crash(p)
  PROVE  ThreadsInv'
<1>1. ASSUME NEW x \in Procs, NEW y \in Jobs
      PROVE  Owned(x, y)'
  <2>1. \A k \in Starts :
          handler'[y][k] = IF handler[y][k].proc = p THEN NoHandler
                           ELSE handler[y][k]
    BY DEF Crash
  <2>2. ~Underway(NoHandler)
    BY DEF Underway, Executing, NoHandler
  <2>3. CASE x = p
    <3>1. runner'[x][y].pc = "none" /\ y \notin inflight'[x]
      BY <2>3 DEF Crash, TypeOK, NoRunner
    <3> QED
      BY <2>1, <2>2, <2>3, <3>1 DEF Owned
  <2>4. CASE x # p
    <3>1. runner'[x][y] = runner[x][y] /\ inflight'[x] = inflight[x]
      BY <2>4 DEF Crash, TypeOK
    <3> QED
      BY <2>1, <2>2, <3>1 DEF Owned, ThreadsInv
  <2> QED
    BY <2>3, <2>4
<1> QED
  BY <1>1 DEF ThreadsInv

LEMMA ThreadsStep ==
  ASSUME TypeOK, ThreadsInv, [Next]_vars
  PROVE  ThreadsInv'
<1>1. CASE UNCHANGED <<inflight, runner, handler>>
  BY <1>1 DEF ThreadsInv, Owned
<1>2. ASSUME NEW j \in Jobs, Enqueue(j)
      PROVE  UNCHANGED <<inflight, runner, handler>>
  BY <1>2 DEF Enqueue
<1>3. ASSUME NEW p \in Procs, Restart(p)
      PROVE  UNCHANGED <<inflight, runner, handler>>
  BY <1>3 DEF Restart
<1>4. ASSUME NEW a \in Admins, ControlStep(a)
      PROVE  UNCHANGED <<inflight, runner, handler>>
  BY <1>4 DEF ControlStep, ControlRead, ControlWrite, CleanupAll, CleanupRead,
              CleanupWrite, QueuePause, CtlUnchanged
<1>5. CASE UNCHANGED vars
  BY <1>1, <1>5 DEF vars
<1> QED
  BY <1>1, <1>2, <1>3, <1>4, <1>5, ThreadsSchedStep, ThreadsRunnerStep,
     ThreadsHandlerStep, ThreadsCrash DEF Next

\* However the processes, their threads, the requests and the crashes
\* interleave, no process has two attempts of one job under way.
THEOREM OneAttempt == Spec => []OneAttemptPerProcess
<1>1. Init => ThreadsInv
  BY DEF Init, ThreadsInv, Owned, NoRunner, NoHandler, Underway, Executing
<1>2. ThreadsInv /\ TypeOK => OneAttemptPerProcess
  <2> SUFFICES ASSUME ThreadsInv, TypeOK,
                      NEW j \in Jobs, NEW m \in Starts, NEW n \in Starts,
                      Underway(handler[j][m]), Underway(handler[j][n]),
                      handler[j][m].proc = handler[j][n].proc
               PROVE  m = n
    BY DEF OneAttemptPerProcess
  <2>1. handler[j][m].proc \in Procs
    <3>1. handler[j][m] \in Handler
      BY DEF TypeOK
    <3> QED
      BY <3>1 DEF Handler
  <2>2. /\ runner[handler[j][m].proc][j].n = m
        /\ runner[handler[j][m].proc][j].n = n
    BY <2>1 DEF ThreadsInv, Owned
  <2> QED
    BY <2>2
<1> QED
  BY <1>1, <1>2, TypeCorrect, ThreadsStep, PTL DEF Spec

-----------------------------------------------------------------------------
(* A stop is kept.  The invariant is that an attempt under way is numbered *)
(* from one, so that a job without retries is never put back in its queue. *)

WithAttempt == {"join", "final", "finalw", "fail", "failw"}

Numbered ==
  \A p \in Procs, j \in Jobs :
    runner[p][j].pc \in WithAttempt => runner[p][j].att > 0

\* The number of an attempt is all its job thread writes when it starts.
LEMMA NumberWrite ==
  ASSUME SharedTypes, NEW p \in Procs, NEW j \in Jobs, RunStart(p, j)
  PROVE  \E seen \in Row, new \in Row :
           /\ Flush(j, seen, new, {})
           /\ new.st = seen.st /\ new.stop = seen.stop
<1> DEFINE seen == runner[p][j].seen
           attempt == seen.att + 1
           new == [seen EXCEPT !.att = attempt]
<1>1. seen \in Row
  BY DEF SharedTypes, Runner
<1>2. Flush(j, seen, new, {})
  BY DEF RunStart
<1>3. attempt \in Nat
  BY <1>1 DEF Row
<1> HIDE DEF seen, attempt
<1>4. new \in Row /\ new.st = seen.st /\ new.stop = seen.stop
  BY <1>1, <1>3 DEF Row
<1> QED
  BY <1>1, <1>2, <1>4

LEMMA NumberedStep ==
  ASSUME TypeOK, Numbered, [Next]_vars
  PROVE  Numbered'
<1>1. CASE UNCHANGED runner
  BY <1>1 DEF Numbered
<1>2. ASSUME NEW p \in Procs, NEW j \in Jobs, NEW r, SetRunner(p, j, r),
             r.pc \in WithAttempt => r.att > 0
      PROVE  Numbered'
  BY <1>2 DEF Numbered, SetRunner, TypeOK
<1>3. ASSUME NEW p \in Procs, NEW j \in Jobs,
             NEW pc \in {"start", "final", "fail", "exit"}, RunnerAt(p, j, pc),
             pc \in WithAttempt => runner[p][j].pc \in WithAttempt
      PROVE  Numbered'
  <2>1. runner[p][j] \in Runner
    BY DEF TypeOK
  <2> DEFINE r == [runner[p][j] EXCEPT !.pc = pc]
  <2>2. r.pc = pc /\ r.att = runner[p][j].att
    BY <2>1 DEF Runner
  <2>3. SetRunner(p, j, r)
    BY <1>3 DEF RunnerAt
  <2>4. r.pc \in WithAttempt => r.att > 0
    BY <1>3, <2>2 DEF Numbered
  <2> HIDE DEF r
  <2> QED
    BY <1>2, <2>3, <2>4
<1>4. ASSUME NEW p \in Procs, SchedStep(p)
      PROVE  Numbered'
  <2>1. ASSUME NEW j \in Jobs, Spawn(p, j)
        PROVE  Numbered'
    <3>1. "start" \notin WithAttempt
      BY DEF WithAttempt
    <3> QED
      BY <1>1, <1>3, <2>1, <3>1 DEF Spawn
  <2> QED
    BY <1>1, <1>4, <2>1
    DEF SchedStep, TickStart, TickCount, TickEnd, TickQuery, QueueDone,
        ClaimRead, ClaimSkip, ClaimWrite
<1>5. ASSUME NEW p \in Procs, NEW j \in Jobs, RunnerStep(p, j)
      PROVE  Numbered'
  <2>0. runner[p][j] \in Runner /\ row[j] \in Row
    BY DEF TypeOK
  <2>1. CASE RunnerAt(p, j, "exit")
    <3>1. "exit" \notin WithAttempt
      BY DEF WithAttempt
    <3> QED
      BY <1>3, <2>1, <3>1
  <2>2. CASE RunStart(p, j)
    <3> DEFINE attempt == runner[p][j].seen.att + 1
               r == [pc |-> "join", n |-> starts[j] + 1, att |-> attempt,
                     seen |-> NoRow]
    <3>1. SetRunner(p, j, r)
      BY <2>2 DEF RunStart
    <3>2. r.att > 0
      BY <2>0 DEF Runner, Row
    <3> QED
      BY <1>2, <3>1, <3>2
  <2>3. CASE RunJoin(p, j) \/ RunTimeout(p, j)
    BY <1>3, <2>3 DEF RunJoin, RunTimeout, WithAttempt
  <2>4. CASE RunReread(p, j) /\ Exists(row[j])
    <3> DEFINE r == [runner[p][j] EXCEPT
                       !.pc = IF @ = "final" THEN "finalw" ELSE "failw",
                       !.seen = row[j]]
    <3>1. SetRunner(p, j, r) /\ runner[p][j].pc \in WithAttempt
      BY <2>4 DEF RunReread, WithAttempt
    <3>2. r.att = runner[p][j].att
      BY <2>0 DEF Runner
    <3>3. r.pc \in WithAttempt => r.att > 0
      BY <3>1, <3>2 DEF Numbered
    <3> HIDE DEF r
    <3> QED
      BY <1>2, <3>1, <3>3
  <2>5. CASE RunExit(p, j)
    <3>1. NoRunner.pc \notin WithAttempt
      BY DEF NoRunner, WithAttempt
    <3> QED
      BY <1>2, <2>5, <3>1 DEF RunExit
  <2>6. CASE RunGone(p, j)
    <3> DEFINE r == [runner[p][j] EXCEPT !.pc = "exit", !.seen = NoRow]
    <3>1. SetRunner(p, j, r)
      BY <2>6 DEF RunGone
    <3>2. r.pc \notin WithAttempt
      BY <2>0 DEF Runner, WithAttempt
    <3> HIDE DEF r
    <3> QED
      BY <1>2, <3>1, <3>2
  <2>7. CASE RunOpen(p, j)
    <3> DEFINE r == [runner[p][j] EXCEPT !.pc = "number", !.seen = row[j]]
    <3>1. SetRunner(p, j, r)
      BY <2>7 DEF RunOpen
    <3>2. r.pc \notin WithAttempt
      BY <2>0 DEF Runner, WithAttempt
    <3> HIDE DEF r
    <3> QED
      BY <1>2, <3>1, <3>2
  <2> QED
    BY <1>5, <2>1, <2>2, <2>3, <2>4, <2>5, <2>6, <2>7
    DEF RunnerStep, RunUnknown, RunReread, RunFinalWrite, RunFailWrite
<1>6. ASSUME NEW p \in Procs, Crash(p)
      PROVE  Numbered'
  <2>1. NoRunner.pc \notin WithAttempt
    BY DEF NoRunner, WithAttempt
  <2> QED
    BY <1>6, <2>1 DEF Crash, Numbered, TypeOK
<1>7. ASSUME \/ \E j \in Jobs : Enqueue(j)
             \/ \E p \in Procs : Restart(p)
             \/ \E j \in Jobs, n \in Starts : HandlerStep(j, n)
             \/ \E a \in Admins : ControlStep(a)
             \/ UNCHANGED vars
      PROVE  UNCHANGED runner
  BY <1>7 DEF Enqueue, Restart, HandlerStep, HandlerPoll, HandlerWait,
              HandlerHalt, HandlerWork, HandlerReturn, HandlerRaise,
              HandlerUnchanged, ControlStep, ControlRead, ControlWrite,
              CleanupAll, CleanupRead, CleanupWrite, QueuePause, CtlUnchanged,
              vars
<1> QED
  BY <1>1, <1>4, <1>5, <1>6, <1>7 DEF Next

\* A flush takes a stop back only if its transaction cleared it itself.
LEMMA FlushKeepsStop ==
  ASSUME NEW current \in Row, NEW loaded \in Row, NEW new \in Row,
         NEW stamped, "stop" \notin stamped,
         new.stop = loaded.stop \/ new.stop = TRUE,
         current.stop
  PROVE  Flushed(current, loaded, new, stamped).stop
<1>1. CASE Exists(current)
  <2>1. Flushed(current, loaded, new, stamped).stop =
          IF new["stop"] # loaded["stop"] \/ "stop" \in stamped
          THEN new["stop"] ELSE current["stop"]
    BY <1>1 DEF Flushed, Row
  <2> QED
    BY <2>1
<1>2. CASE ~Exists(current)
  BY <1>2 DEF Flushed
<1> QED
  BY <1>1, <1>2

\* The stop of job j is still there, or its row is not.
StopStays(j) == row'[j].stop \/ ~Exists(row'[j])

LEMMA StopStep ==
  ASSUME TypeOK, Numbered, [Next]_vars,
         NEW j \in Jobs, MaxRetries[j] = 0, row[j].stop
  PROVE  StopStays(j)
<1>0. \A k \in Jobs : row[k] \in Row
  BY DEF TypeOK
<1>1. CASE UNCHANGED row
  BY <1>1 DEF StopStays
<1>2. ASSUME NEW k \in Jobs, NEW r, SetRow(k, r), k = j => r.stop
      PROVE  StopStays(j)
  BY <1>2 DEF SetRow, StopStays, TypeOK
<1>3. ASSUME NEW k \in Jobs, NEW loaded \in Row, NEW new \in Row, NEW stamped,
             Flush(k, loaded, new, stamped), "stop" \notin stamped,
             k = j => new.stop = loaded.stop \/ new.stop = TRUE
      PROVE  StopStays(j)
  <2>1. k = j => Flushed(row[k], loaded, new, stamped).stop
    BY <1>0, <1>3, FlushKeepsStop
  <2> QED
    BY <1>2, <1>3, <2>1 DEF Flush
<1>4. ASSUME NEW k \in Jobs, Enqueue(k)
      PROVE  StopStays(j)
  <2>1. [row[k] EXCEPT !.st = "queued"].stop = row[k].stop
    BY <1>0 DEF Row
  <2> QED
    BY <1>2, <1>4, <2>1 DEF Enqueue
<1>5. ASSUME NEW p \in Procs, SchedStep(p)
      PROVE  StopStays(j)
  <2>1. ASSUME NEW k \in Jobs, ClaimWrite(p, k)
        PROVE  StopStays(j)
    <3> DEFINE seen == sched[p].seen
               new  == [seen EXCEPT !.st = "running", !.started = TRUE]
    <3>1. sched[p] \in Sched
      BY DEF TypeOK
    <3>2. seen \in Row
      BY <3>1 DEF Sched
    <3>3. new \in Row /\ new.stop = seen.stop
      BY <3>2 DEF Row, Statuses, LiveStatuses
    <3>4. Flush(k, seen, new, {"started"})
      BY <2>1 DEF ClaimWrite
    <3> HIDE DEF seen, new
    <3> QED
      BY <1>3, <3>2, <3>3, <3>4
  <2> QED
    BY <1>1, <1>5, <2>1
    DEF SchedStep, TickStart, TickCount, TickEnd, TickQuery, QueueDone,
        ClaimRead, ClaimSkip, Spawn
<1>6. ASSUME NEW p \in Procs, NEW k \in Jobs, RunnerStep(p, k)
      PROVE  StopStays(j)
  <2>0. runner[p][k] \in Runner
    BY DEF TypeOK
  <2>1. CASE RunUnknown(p, k)
    <3>1. Failed(row[k]).stop = row[k].stop
      BY <1>0 DEF Failed, Row
    <3> QED
      BY <1>2, <2>1, <3>1 DEF RunUnknown
  <2>2. CASE RunStart(p, k)
    <3>1. PICK seen \in Row, new \in Row :
                 Flush(k, seen, new, {}) /\ new.stop = seen.stop
      BY <2>2, TypeParts, NumberWrite
    <3> QED
      BY <1>3, <3>1
  <2>3. CASE RunTimeout(p, k)
    <3>1. k = j => StopAsked(row[k]).stop
      BY <1>0 DEF StopAsked, Row
    <3> QED
      BY <1>2, <2>3, <3>1 DEF RunTimeout
  <2>4. CASE RunFinalWrite(p, k)
    <3> DEFINE seen == runner[p][k].seen
               st   == Outcome(seen)
               new  == [seen EXCEPT !.st = st,
                          !.finished = @ \/ st \in TerminalStatuses]
    <3>1. seen \in Row
      BY <2>0 DEF Runner
    <3>2. st \in Statuses
      BY <3>1, ComputedRows
    <3>3. Flush(k, seen, new, {})
      BY <2>4 DEF RunFinalWrite
    <3> HIDE DEF seen, st
    <3>4. new \in Row /\ new.stop = seen.stop
      BY <3>1, <3>2 DEF Row
    <3> HIDE DEF new
    <3> QED
      BY <1>3, <3>1, <3>3, <3>4
  <2>5. CASE RunFailWrite(p, k)
    <3> DEFINE seen == runner[p][k].seen
               new  == [seen EXCEPT !.att = runner[p][k].att]
    <3>1. seen \in Row /\ runner[p][k].att \in Nat
      BY <2>0 DEF Runner
    <3>2. k = j => ~MayRetry(p, k)
      BY <2>5, <3>1 DEF RunFailWrite, Numbered, WithAttempt, MayRetry
    <3>3. /\ MayRetry(p, k) => Flush(k, seen, Requeued(new), {"att"})
          /\ ~MayRetry(p, k) => Flush(k, seen, Failed(new), {"att", "finished"})
      BY <2>5 DEF RunFailWrite
    <3> HIDE DEF seen
    <3>4. new \in Row /\ new.stop = seen.stop
      BY <3>1 DEF Row
    <3> HIDE DEF new
    <3>5. Failed(new).stop = new.stop
      BY <3>4 DEF Failed, Row
    <3> QED
      BY <1>3, <3>1, <3>2, <3>3, <3>4, <3>5, ComputedRows
  <2> QED
    BY <1>1, <1>6, <2>1, <2>2, <2>3, <2>4, <2>5
    DEF RunnerStep, RunGone, RunOpen, RunJoin, RunReread, RunExit
<1>7. ASSUME NEW k \in Jobs, NEW n \in Starts, HandlerStep(k, n)
      PROVE  StopStays(j)
  <2>1. /\ [row[k] EXCEPT !.st = "stopped"].stop = row[k].stop
        /\ [row[k] EXCEPT !.att = 0].stop = row[k].stop
    BY <1>0 DEF Row
  <2>2. CASE HandlerHalt(k, n)
    BY <1>1, <1>2, <2>1, <2>2 DEF HandlerHalt
  <2>3. CASE HandlerReturn(k, n)
    BY <1>1, <1>2, <2>1, <2>3 DEF HandlerReturn
  <2> QED
    BY <1>1, <1>7, <2>2, <2>3
    DEF HandlerStep, HandlerPoll, HandlerWait, HandlerWork, HandlerRaise
<1>8. ASSUME NEW a \in Admins, ControlStep(a)
      PROVE  StopStays(j)
  <2>1. ASSUME NEW js, Delete(js)
        PROVE  StopStays(j)
    BY <2>1 DEF Delete, Deleted, NoRow, Exists, Absent, StopStays
  <2>2. ASSUME NEW k \in Jobs, ControlWrite(a, k)
        PROVE  StopStays(j)
    <3> DEFINE op   == ctl[a].op
               seen == ctl[a].seen
    <3>1. op \in JobOps /\ seen \in Row
      BY <2>2 DEF ControlWrite, TypeOK, Ctl
    <3>2. Flush(k, seen, Controlled(op, seen), Stamps(op, seen))
      BY <2>2 DEF ControlWrite
    <3> HIDE DEF op, seen
    <3>3. \/ Controlled(op, seen).stop = seen.stop
          \/ Controlled(op, seen).stop = TRUE
      BY <3>1 DEF Controlled, JobOps, Row
    <3>4. "stop" \notin Stamps(op, seen)
      BY DEF Stamps
    <3> QED
      BY <1>3, <3>1, <3>2, <3>3, <3>4, ComputedRows
  <2> QED
    BY <1>1, <1>8, <2>1, <2>2
    DEF ControlStep, ControlRead, CleanupAll, CleanupRead, CleanupWrite,
        QueuePause
<1>9. ASSUME \/ \E p \in Procs : Crash(p) \/ Restart(p)
             \/ UNCHANGED vars
      PROVE  UNCHANGED row
  BY <1>9 DEF Crash, Restart, vars
<1> QED
  BY <1>1, <1>4, <1>5, <1>6, <1>7, <1>8, <1>9 DEF Next

\* Whatever the threads, the requests and the crashes do between the reads
\* and the writes of one another, the stop of a job without retries stands
\* until its row is deleted.
THEOREM StopIsKept == Spec => StopKept
<1>1. Init => Numbered
  BY DEF Init, Numbered, NoRunner, WithAttempt
<1>2. TypeOK /\ Numbered /\ [Next]_vars
        => [\A j \in Jobs : MaxRetries[j] = 0 /\ row[j].stop
              => row'[j].stop \/ ~Exists(row'[j])]_vars
  BY StopStep DEF StopStays
<1> QED
  BY <1>1, <1>2, TypeCorrect, NumberedStep, PTL DEF Spec, StopKept

-----------------------------------------------------------------------------
(* What each kind of step may make of the status of a row.                 *)

LEMMA FlushStatus ==
  ASSUME SharedTypes, NEW j \in Jobs, NEW loaded, NEW new, NEW stamped,
         "st" \notin stamped, Flush(j, loaded, new, stamped)
  PROVE  \A k \in Jobs :
           row'[k].st = IF k = j /\ Exists(row[j]) /\ new.st # loaded.st
                        THEN new.st ELSE row[k].st
<1>1. row[j] \in Row
  BY DEF SharedTypes
<1>2. row' = [row EXCEPT ![j] = Flushed(row[j], loaded, new, stamped)]
  BY DEF Flush, SetRow
<1>3. Flushed(row[j], loaded, new, stamped).st =
        IF Exists(row[j]) /\ new.st # loaded.st THEN new.st ELSE row[j].st
  <2>1. CASE Exists(row[j])
    <3>1. Flushed(row[j], loaded, new, stamped).st =
            IF new["st"] # loaded["st"] \/ "st" \in stamped
            THEN new["st"] ELSE row[j]["st"]
      BY <1>1, <2>1 DEF Flushed, Row
    <3> QED
      BY <2>1, <3>1
  <2>2. CASE ~Exists(row[j])
    BY <2>2 DEF Flushed
  <2> QED
    BY <2>1, <2>2
<1> QED
  BY <1>2, <1>3 DEF SharedTypes

\* A row that is set to r.
LEMMA SetRowStatus ==
  ASSUME SharedTypes, NEW j \in Jobs, NEW r, SetRow(j, r)
  PROVE  \A k \in Jobs : row'[k].st = IF k = j THEN r.st ELSE row[k].st
BY DEF SharedTypes, SetRow

\* What the two last writes make of the status.
Verdict(p, j) ==
  IF runner[p][j].pc = "finalw" THEN Outcome(runner[p][j].seen)
  ELSE IF MayRetry(p, j) THEN "queued" ELSE "failed"

LEMMA VerdictStatus ==
  ASSUME SharedTypes, NEW p \in Procs, NEW j \in Jobs,
         RunFinalWrite(p, j) \/ RunFailWrite(p, j)
  PROVE  row'[j].st = IF Exists(row[j]) /\ Verdict(p, j) # runner[p][j].seen.st
                      THEN Verdict(p, j) ELSE row[j].st
<1> DEFINE seen == runner[p][j].seen
<1>0. runner[p][j] \in Runner
  BY DEF SharedTypes
<1>1. seen \in Row
  BY <1>0 DEF Runner
<1>2. CASE RunFinalWrite(p, j)
  <2> DEFINE st  == Outcome(seen)
             new == [seen EXCEPT !.st = st,
                       !.finished = @ \/ st \in TerminalStatuses]
  <2>1. Flush(j, seen, new, {}) /\ Verdict(p, j) = st
    BY <1>2 DEF RunFinalWrite, Verdict
  <2> HIDE DEF seen, st
  <2>2. new.st = st
    BY <1>1 DEF Row
  <2> HIDE DEF new
  <2> QED
    BY <2>1, <2>2, FlushStatus DEF seen
<1>3. CASE RunFailWrite(p, j)
  <2> DEFINE new == [seen EXCEPT !.att = runner[p][j].att]
             end == IF MayRetry(p, j) THEN Requeued(new) ELSE Failed(new)
             set == IF MayRetry(p, j) THEN {"att"} ELSE {"att", "finished"}
  <2>1. Flush(j, seen, end, set) /\ "st" \notin set
    BY <1>3 DEF RunFailWrite
  <2>2. Verdict(p, j) = IF MayRetry(p, j) THEN "queued" ELSE "failed"
    BY <1>3 DEF RunFailWrite, Verdict
  <2> HIDE DEF seen
  <2>3. new \in Row
    BY <1>0, <1>1 DEF Row, Runner
  <2> HIDE DEF new
  <2>4. Requeued(new).st = "queued" /\ Failed(new).st = "failed"
    BY <2>3 DEF Requeued, Failed, Row
  <2>5. end.st = Verdict(p, j)
    BY <2>2, <2>4
  <2> HIDE DEF end, set
  <2> QED
    BY <2>1, <2>5, FlushStatus DEF seen
<1> QED
  BY <1>2, <1>3
\* A job thread ends an attempt; it completes a job only after its handler
\* returned.
LEMMA RunnerStatus ==
  ASSUME SharedTypes, NEW p \in Procs, NEW j \in Jobs, RunnerStep(p, j)
  PROVE  \A k \in Jobs :
           \/ row'[k].st = row[k].st
           \/ /\ k = j
              /\ Exists(row[j])
              /\ \/ row'[k].st \in {"queued", "failed", "stopped"}
                 \/ runner[p][j].pc = "finalw" /\ row'[k].st = "completed"
<1>0. row[j] \in Row /\ runner[p][j] \in Runner
  BY DEF SharedTypes
<1>1. CASE RunUnknown(p, j)
  <2>1. Failed(row[j]).st = "failed"
    BY <1>0 DEF Failed, Row
  <2> QED
    BY <1>1, <2>1, SetRowStatus DEF RunUnknown
<1>2. CASE RunStart(p, j)
  <2>1. PICK seen \in Row, new \in Row :
               Flush(j, seen, new, {}) /\ new.st = seen.st
    BY <1>2, NumberWrite
  <2> QED
    BY <2>1, FlushStatus
<1>3. CASE RunTimeout(p, j)
  <2>1. StopAsked(row[j]).st = row[j].st
    BY <1>0 DEF StopAsked, Row
  <2> QED
    BY <1>3, <2>1, SetRowStatus DEF RunTimeout
<1>4. CASE RunFinalWrite(p, j) \/ RunFailWrite(p, j)
  <2>1. \A k \in Jobs : k # j => row'[k].st = row[k].st
    BY <1>4 DEF RunFinalWrite, RunFailWrite, Flush, SetRow, SharedTypes
  <2>2. \/ Verdict(p, j) \in {"stopped", "queued", "failed", runner[p][j].seen.st}
        \/ runner[p][j].pc = "finalw" /\ Verdict(p, j) = "completed"
    BY DEF Verdict, Outcome
  <2> QED
    BY <1>4, <2>1, <2>2, VerdictStatus
<1> QED
  BY <1>1, <1>2, <1>3, <1>4
  DEF RunnerStep, RunGone, RunOpen, RunJoin, RunReread, RunExit

\* A handler that is told to stop writes so.
LEMMA HandlerStatus ==
  ASSUME SharedTypes, NEW j \in Jobs, NEW n \in Starts, HandlerStep(j, n)
  PROVE  \A k \in Jobs :
           \/ row'[k].st = row[k].st
           \/ k = j /\ Exists(row[j]) /\ row'[k].st = "stopped"
<1>0. row[j] \in Row
  BY DEF SharedTypes
<1>1. /\ [row[j] EXCEPT !.st = "stopped"].st = "stopped"
      /\ [row[j] EXCEPT !.att = 0].st = row[j].st
  BY <1>0 DEF Row
<1>2. CASE HandlerHalt(j, n)
  BY <1>1, <1>2, SetRowStatus DEF HandlerHalt
<1>3. CASE HandlerReturn(j, n)
  BY <1>1, <1>3, SetRowStatus DEF HandlerReturn
<1> QED
  BY <1>2, <1>3 DEF HandlerStep, HandlerPoll, HandlerWait, HandlerWork, HandlerRaise

\* A control on a job writes what its request is for.
LEMMA ControlStatus ==
  ASSUME SharedTypes, NEW a \in Admins, NEW j \in Jobs, ControlWrite(a, j)
  PROVE  \A k \in Jobs :
           \/ row'[k].st = row[k].st
           \/ /\ k = j
              /\ Exists(row[j])
              /\ \/ ctl[a].op = "stop" /\ row'[k].st = "stopped"
                 \/ ctl[a].op # "stop" /\ row'[k].st \in LiveStatuses
<1> DEFINE op   == ctl[a].op
           seen == ctl[a].seen
           new  == Controlled(op, seen)
<1>1. op \in JobOps /\ seen \in Row
  BY DEF ControlWrite, SharedTypes, Ctl
<1>2. Flush(j, seen, new, Stamps(op, seen)) /\ "st" \notin Stamps(op, seen)
  BY DEF ControlWrite, Stamps
<1>3. \/ new.st = seen.st
      \/ op = "stop" /\ new.st = "stopped"
      \/ op # "stop" /\ new.st \in LiveStatuses
  <2> HIDE DEF op, seen
  <2> QED
    BY <1>1 DEF Controlled, JobOps, Row, LiveStatuses
<1> HIDE DEF new
<1> QED
  BY <1>2, <1>3, FlushStatus

LEMMA DeleteStatus ==
  ASSUME NEW js, Delete(js)
  PROVE  \A k \in Jobs : \/ row'[k].st = row[k].st
                         \/ Exists(row[k]) /\ row'[k].st = "gone"
BY DEF Delete, Deleted, NoRow

\* The commit of a claim.
LEMMA ClaimStatus ==
  ASSUME TypeOK, NEW p \in Procs, NEW j \in Jobs, ClaimWrite(p, j)
  PROVE  \A k \in Jobs :
           row'[k].st = IF k = j /\ Exists(row[j]) /\ sched[p].seen.st # "running"
                        THEN "running" ELSE row[k].st
<1> DEFINE seen == sched[p].seen
           new  == [seen EXCEPT !.st = "running", !.started = TRUE]
<1>1. SharedTypes /\ sched[p] \in Sched
  BY TypeParts
<1>2. seen \in Row
  BY <1>1 DEF Sched
<1>3. Flush(j, seen, new, {"started"})
  BY DEF ClaimWrite
<1> HIDE DEF seen
<1>4. new.st = "running"
  BY <1>2 DEF Row
<1> HIDE DEF new
<1> QED
  BY <1>1, <1>3, <1>4, FlushStatus DEF seen

\* A row is inserted once, by its request, and a deleted one stays deleted.
Inserted(k) == row[k].st = "none" /\ row'[k].st = "queued"
Updated(k)  == Exists(row[k]) /\ row'[k].st # "none"

LEMMA StatusStep ==
  ASSUME TypeOK, [Next]_vars, NEW k \in Jobs
  PROVE  row'[k].st = row[k].st \/ Inserted(k) \/ Updated(k)
<1>0. SharedTypes
  BY TypeParts
<1>1. ASSUME NEW j \in Jobs, Enqueue(j)
      PROVE  row'[k].st = row[k].st \/ Inserted(k)
  <2>1. [row[j] EXCEPT !.st = "queued"].st = "queued"
    BY DEF TypeOK, Row
  <2> QED
    BY <1>0, <1>1, <2>1, SetRowStatus DEF Enqueue, Inserted
<1>2. ASSUME NEW p \in Procs, SchedStep(p)
      PROVE  row'[k].st = row[k].st \/ Updated(k)
  BY <1>2, ClaimStatus
  DEF SchedStep, TickStart, TickCount, TickEnd, TickQuery, QueueDone,
      ClaimRead, ClaimSkip, Spawn, Updated
<1>3. ASSUME NEW p \in Procs, NEW j \in Jobs, RunnerStep(p, j)
      PROVE  row'[k].st = row[k].st \/ Updated(k)
  BY <1>0, <1>3, RunnerStatus DEF Updated
<1>4. ASSUME NEW j \in Jobs, NEW n \in Starts, HandlerStep(j, n)
      PROVE  row'[k].st = row[k].st \/ Updated(k)
  BY <1>0, <1>4, HandlerStatus DEF Updated
<1>5. ASSUME NEW a \in Admins, ControlStep(a)
      PROVE  row'[k].st = row[k].st \/ Updated(k)
  BY <1>0, <1>5, ControlStatus, DeleteStatus
  DEF ControlStep, ControlRead, CleanupAll, CleanupRead, CleanupWrite,
      QueuePause, Updated, LiveStatuses
<1>6. ASSUME \/ \E p \in Procs : Crash(p) \/ Restart(p)
             \/ UNCHANGED vars
      PROVE  row' = row
  BY <1>6 DEF Crash, Restart, vars
<1> QED
  BY <1>1, <1>2, <1>3, <1>4, <1>5, <1>6 DEF Next

-----------------------------------------------------------------------------
(* Handlers left behind.  The timeout marks a stop for them, and without   *)
(* retries nothing takes it back before they poll.                         *)

Begun(h) == h.pc # "none" \/ h.late

Left(j, n) ==
  /\ Begun(handler[j][n]) => row[j].st # "none" /\ n <= starts[j]
  /\ MaxRetries[j] = 0 /\ handler[j][n].late
       => row[j].stop \/ row[j].st = "gone"

LateInv == \A j \in Jobs, n \in Starts : Left(j, n)

\* What a step makes of a handler execution: it begins, is given up on,
\* polls, goes on otherwise, or ends.
Begins(j, n)     == Exists(row[j]) /\ n = starts[j] + 1 /\ n = starts'[j]
                    /\ ~handler'[j][n].late
Abandoned(j, n)  == /\ Executing(handler[j][n])
                    /\ handler'[j][n].pc = handler[j][n].pc
                    /\ row' = [row EXCEPT ![j] = StopAsked(row[j])]
Polls(j, n)      == /\ handler[j][n].pc \in {"poll", "wait"}
                    /\ handler'[j][n].pc = Polled(row[j])
                    /\ handler'[j][n].late = handler[j][n].late
GoesOn(j, n)     == /\ Begun(handler'[j][n]) => Begun(handler[j][n])
                    /\ handler'[j][n].late => handler[j][n].late
                    /\ \/ handler'[j][n] = handler[j][n]
                       \/ handler[j][n].pc \notin {"poll", "wait"}
                       \/ handler'[j][n].pc # "work"

\* One step begins, abandons or advances one execution at most.
LEMMA ExecutionSet ==
  ASSUME TypeOK, NEW j \in Jobs, NEW n \in Starts, NEW i \in Jobs, NEW m, NEW h,
         SetHandler(i, m, h)
  PROVE  handler'[j][n] = IF i = j /\ m = n THEN h ELSE handler[j][n]
BY DEF TypeOK, SetHandler

LEMMA RunnerExecution ==
  ASSUME TypeOK, NEW j \in Jobs, NEW n \in Starts,
         NEW p \in Procs, NEW i \in Jobs, RunnerStep(p, i)
  PROVE  Begins(j, n) \/ Abandoned(j, n) \/ GoesOn(j, n)
<1>0. handler[j][n] \in Handler /\ starts[i] \in Nat
  BY DEF TypeOK
<1>1. CASE RunStart(p, i)
  <2> DEFINE m == starts[i] + 1
             h == [pc |-> IF i \in Pollers THEN "poll" ELSE "work",
                   proc |-> p, late |-> FALSE]
  <2>1. /\ Exists(row[i]) /\ SetHandler(i, m, h)
        /\ starts' = [starts EXCEPT ![i] = m]
    BY <1>1 DEF RunStart
  <2>2. handler'[j][n] = IF i = j /\ m = n THEN h ELSE handler[j][n]
    BY <2>1, ExecutionSet
  <2>3. starts'[i] = m
    BY <2>1 DEF TypeOK
  <2> QED
    BY <2>1, <2>2, <2>3 DEF Begins, GoesOn
<1>2. CASE RunJoin(p, i)
  <2>1. SetHandler(i, runner[p][i].n, NoHandler)
    BY <1>2 DEF RunJoin
  <2> QED
    BY <2>1, ExecutionSet DEF GoesOn, Begun, NoHandler
<1>3. CASE RunTimeout(p, i)
  <2> DEFINE m == runner[p][i].n
             h == [handler[i][m] EXCEPT !.late = TRUE]
  <2>1. /\ SetHandler(i, m, h) /\ Executing(handler[i][m])
        /\ row' = [row EXCEPT ![i] = StopAsked(row[i])]
    BY <1>3 DEF RunTimeout, SetRow
  <2> HIDE DEF m
  <2>2. CASE i = j /\ m = n
    <3>1. h.pc = handler[j][n].pc
      BY <1>0, <2>2 DEF Handler
    <3>2. handler'[j][n] = h
      BY <2>1, <2>2, ExecutionSet
    <3> QED
      BY <2>1, <2>2, <3>1, <3>2 DEF Abandoned
  <2>3. CASE ~(i = j /\ m = n)
    <3>1. handler'[j][n] = handler[j][n]
      BY <2>1, <2>3, ExecutionSet
    <3> QED
      BY <3>1 DEF GoesOn
  <2> QED
    BY <2>2, <2>3
<1>4. CASE UNCHANGED handler
  BY <1>4 DEF GoesOn
<1> QED
  BY <1>1, <1>2, <1>3, <1>4
  DEF RunnerStep, RunGone, RunUnknown, RunOpen, RunReread, RunFinalWrite,
      RunFailWrite, RunExit

LEMMA HandlerExecution ==
  ASSUME TypeOK, NEW j \in Jobs, NEW n \in Starts,
         NEW i \in Jobs, NEW m \in Starts, HandlerStep(i, m)
  PROVE  Polls(j, n) \/ GoesOn(j, n)
<1>0. handler[j][n] \in Handler
  BY DEF TypeOK
<1>1. ASSUME NEW pc, HandlerAt(i, m, pc)
      PROVE  \/ /\ i = j /\ m = n
                /\ handler'[j][n].pc = pc
                /\ handler'[j][n].late = handler[j][n].late
             \/ handler'[j][n] = handler[j][n]
  <2> DEFINE h == [handler[i][m] EXCEPT !.pc = pc]
  <2>1. SetHandler(i, m, h)
    BY <1>1 DEF HandlerAt
  <2>2. i = j /\ m = n => h.pc = pc /\ h.late = handler[j][n].late
    BY <1>0 DEF Handler
  <2> HIDE DEF h
  <2> QED
    BY <2>1, <2>2, ExecutionSet
<1>2. ASSUME NEW how \in {"done", "err"}, handler[i][m].pc \in {"halt", "work"},
             SetHandler(i, m, Ended(handler[i][m], how))
      PROVE  GoesOn(j, n)
  <2>1. \/ i = j /\ m = n /\ handler'[j][n] = Ended(handler[j][n], how)
        \/ handler'[j][n] = handler[j][n]
    BY <1>2, ExecutionSet
  <2>2. [handler[j][n] EXCEPT !.pc = how].late = handler[j][n].late
    BY <1>0 DEF Handler
  <2>3. Ended(handler[j][n], how).late => handler[j][n].late
    BY <2>2 DEF Ended, NoHandler
  <2> QED
    BY <1>2, <2>1, <2>3 DEF GoesOn, Begun
<1>3. CASE HandlerPoll(i, m) \/ HandlerWait(i, m)
  <2>1. HandlerAt(i, m, Polled(row[i])) /\ handler[i][m].pc \in {"poll", "wait"}
    BY <1>3 DEF HandlerPoll, HandlerWait
  <2> QED
    BY <1>1, <2>1 DEF Polls, GoesOn
<1>4. CASE HandlerWork(i, m)
  BY <1>1, <1>4 DEF HandlerWork, GoesOn, Begun
<1>5. CASE HandlerHalt(i, m) \/ HandlerReturn(i, m) \/ HandlerRaise(i, m)
  BY <1>2, <1>5 DEF HandlerHalt, HandlerReturn, HandlerRaise
<1> QED
  BY <1>3, <1>4, <1>5 DEF HandlerStep

LEMMA ExecutionStep ==
  ASSUME TypeOK, [Next]_vars, NEW j \in Jobs, NEW n \in Starts
  PROVE  \/ Begins(j, n) \/ Abandoned(j, n) \/ Polls(j, n) \/ GoesOn(j, n)
<1>1. CASE UNCHANGED handler
  BY <1>1 DEF GoesOn
<1>2. ASSUME NEW p \in Procs, Crash(p)
      PROVE  GoesOn(j, n)
  <2>1. handler'[j][n] \in {NoHandler, handler[j][n]}
    BY <1>2 DEF Crash
  <2> QED
    BY <2>1 DEF GoesOn, Begun, NoHandler
<1>3. ASSUME \/ \E i \in Jobs : Enqueue(i)
             \/ \E p \in Procs : SchedStep(p) \/ Restart(p)
             \/ \E a \in Admins : ControlStep(a)
             \/ UNCHANGED vars
      PROVE  UNCHANGED handler
  BY <1>3 DEF Enqueue, Restart, SchedStep, TickStart, TickCount, TickEnd,
              TickQuery, QueueDone, ClaimRead, ClaimSkip, ClaimWrite, Spawn,
              SchedUnchanged, ControlStep, ControlRead, ControlWrite,
              CleanupAll, CleanupRead, CleanupWrite, QueuePause, CtlUnchanged,
              vars
<1> QED
  BY <1>1, <1>2, <1>3, RunnerExecution, HandlerExecution DEF Next

\* The calls of a job are counted up.
LEMMA StartsGrow ==
  ASSUME TypeOK, [Next]_vars, NEW j \in Jobs
  PROVE  starts'[j] \in Nat /\ starts[j] \in Nat /\ starts'[j] >= starts[j]
<1>0. starts[j] \in Nat
  BY DEF TypeOK
<1>1. ASSUME NEW p \in Procs, NEW i \in Jobs, RunnerStep(p, i)
      PROVE  UNCHANGED starts \/ starts' = [starts EXCEPT ![i] = starts[i] + 1]
  BY <1>1 DEF RunnerStep, RunGone, RunUnknown, RunOpen, RunStart, RunJoin, RunTimeout,
              RunReread, RunFinalWrite, RunFailWrite, RunExit
<1>2. ASSUME \/ \E i \in Jobs : Enqueue(i)
             \/ \E p \in Procs : SchedStep(p) \/ Crash(p) \/ Restart(p)
             \/ \E i \in Jobs, n \in Starts : HandlerStep(i, n)
             \/ \E a \in Admins : ControlStep(a)
             \/ UNCHANGED vars
      PROVE  UNCHANGED starts
  BY <1>2 DEF Enqueue, SchedStep, TickStart, TickCount, TickEnd, TickQuery,
              QueueDone, ClaimRead, ClaimSkip, ClaimWrite, Spawn,
              SchedUnchanged, Crash, Restart, HandlerStep, HandlerPoll,
              HandlerWait, HandlerHalt, HandlerWork, HandlerReturn,
              HandlerRaise, HandlerUnchanged, ControlStep, ControlRead,
              ControlWrite, CleanupAll, CleanupRead, CleanupWrite, QueuePause,
              CtlUnchanged, vars
<1>3. UNCHANGED starts
        \/ \E i \in Jobs : starts' = [starts EXCEPT ![i] = starts[i] + 1]
  BY <1>1, <1>2 DEF Next
<1> QED
  BY <1>0, <1>3 DEF TypeOK

LEMMA LateStep ==
  ASSUME TypeOK, Numbered, LateInv, [Next]_vars,
         NEW j \in Jobs, NEW n \in Starts
  PROVE  Left(j, n)'
<1>0. row[j] \in Row /\ Left(j, n)
  BY DEF TypeOK, LateInv
<1>1. Begun(handler'[j][n]) => row'[j].st # "none" /\ n <= starts'[j]
  <2>1. Begun(handler'[j][n]) => Begun(handler[j][n]) \/ Begins(j, n)
    BY ExecutionStep
    DEF Abandoned, Polls, GoesOn, Begun, Executing
  <2>2. Begun(handler'[j][n]) => row[j].st # "none" /\ n <= starts'[j]
    <3>1. n \in Nat
      BY BoundsAssumption DEF Starts
    <3> QED
      BY <1>0, <2>1, <3>1, StartsGrow DEF Left, Begins, Exists, Absent
  <2> QED
    BY <2>2, StatusStep DEF Inserted, Updated
<1>2. ASSUME MaxRetries[j] = 0, handler'[j][n].late
      PROVE  row'[j].stop \/ row'[j].st = "gone"
  <2>1. CASE handler[j][n].late
    <3>1. row[j].st # "none" /\ (row[j].stop \/ row[j].st = "gone")
      BY <1>0, <1>2, <2>1 DEF Left, Begun
    <3>2. CASE row[j].st = "gone"
      BY <3>2, StatusStep DEF Inserted, Updated, Exists, Absent
    <3>3. CASE row[j].stop
      <4>1. row'[j].stop \/ ~Exists(row'[j])
        BY <1>2, <3>3, StopStep DEF StopStays
      <4> QED
        BY <3>1, <4>1, StatusStep DEF Inserted, Updated, Exists, Absent
    <3> QED
      BY <3>1, <3>2, <3>3
  <2>2. CASE Abandoned(j, n)
    <3>1. row'[j] = StopAsked(row[j])
      BY <2>2 DEF Abandoned, TypeOK
    <3>2. row[j].st # "none"
      BY <1>0, <2>2 DEF Left, Begun, Abandoned, Executing
    <3> QED
      BY <1>0, <3>1, <3>2 DEF StopAsked, Row, Exists, Absent
  <2> QED
    BY <1>2, <2>1, <2>2, ExecutionStep DEF Begins, Polls, GoesOn
<1> QED
  BY <1>1, <1>2 DEF Left

\* With no retries to clear the stop that a timeout marks, a handler its job
\* thread gave up on exits at its next poll, whatever other processes,
\* requests and stale writes do in between (_run_handler_with_timeout).
THEOREM LateHandlersExit ==
  ASSUME \A j \in Jobs : MaxRetries[j] = 0
  PROVE  Spec => LateHandlerExits
<1>1. Init => Numbered /\ LateInv
  BY DEF Init, Numbered, NoRunner, WithAttempt, LateInv, Left, Begun, NoHandler
<1>2. TypeOK /\ Numbered /\ LateInv /\ [Next]_vars => Numbered' /\ LateInv'
  BY NumberedStep, LateStep DEF LateInv
<1>3. TypeOK /\ LateInv /\ [Next]_vars
        => [\A j \in Jobs : \A n \in Starts :
              /\ handler[j][n].pc \in {"poll", "wait"}
              /\ handler[j][n].late
              => handler'[j][n].pc # "work"]_vars
  <2> SUFFICES ASSUME TypeOK, LateInv, [Next]_vars,
                      NEW j \in Jobs, NEW n \in Starts,
                      handler[j][n].pc \in {"poll", "wait"}, handler[j][n].late
               PROVE  handler'[j][n].pc # "work"
    OBVIOUS
  <2>1. Left(j, n) /\ starts[j] \in Nat
    BY DEF LateInv, TypeOK
  <2>2. /\ n <= starts[j]
        /\ row[j].stop \/ ~Exists(row[j])
    BY <2>1 DEF Left, Begun, Exists, Absent
  <2>3. Polled(row[j]) = "halt"
    BY <2>2 DEF Polled
  <2> QED
    BY <2>1, <2>2, <2>3, ExecutionStep DEF Begins, Abandoned, Polls, GoesOn
<1> QED
  BY <1>1, <1>2, <1>3, TypeCorrect, PTL DEF Spec, LateHandlerExits

-----------------------------------------------------------------------------
(* The scheduler thread, field by field.                                   *)

\* What the steps within a tick leave as it is.
SameTick(s, t) == t.todo = s.todo /\ t.fresh = s.fresh
SameQueue(s, t) == SameTick(s, t) /\ t.queue = s.queue /\ t.held = s.held

Ticks(p) ==
  LET s == sched[p]  t == sched'[p]
  IN \/ /\ TickStart(p)
        /\ t.pc = "count" /\ t.cand = {} /\ ~t.fresh
        /\ t.todo = {q \in Queues : ~qpaused[q]}
     \/ \E q \in Queues :
          /\ TickCount(p, q)
          /\ s.pc = "count" /\ t.fresh = s.fresh
          /\ q \in s.todo /\ t.todo = s.todo \ {q}
          /\ \/ t.pc = "count"
             \/ /\ t.pc = "query" /\ t.queue = q /\ t.held = QueueCopy(p, q)
                /\ t.slots = Concurrency[q] - Cardinality(RowsOf(q, "running"))
     \/ /\ TickQuery(p)
        /\ s.pc = "query" /\ t.pc = "claim" /\ SameQueue(s, t)
        /\ t.cand = Oldest(RowsOf(s.queue, "queued"), s.slots)
     \/ /\ QueueDone(p)
        /\ s.pc = "claim" /\ t.pc = "count" /\ SameTick(s, t)
     \/ TickEnd(p) /\ t.pc = "idle"

Claims(p, j) ==
  LET s == sched[p]  t == sched'[p]
  IN \/ /\ ClaimRead(p, j)
        /\ s.pc = "claim" /\ t.pc = "write" /\ SameQueue(s, t)
        /\ t.cand = s.cand /\ t.seen = row[j]
     \/ /\ ClaimSkip(p, j)
        /\ s.pc = "claim"
        /\ \/ /\ t.pc = "claim" /\ SameTick(s, t) /\ t.queue = s.queue
              /\ t.cand = s.cand \ {j}
              /\ t.held = IF row[j].st = "queued" THEN Loaded(p, j) ELSE s.held
           \/ t.pc = "idle" /\ row[j].st = "gone"
     \/ /\ ClaimWrite(p, j)
        /\ s.pc = "write"
        /\ \/ /\ t.pc = "spawn" /\ t.fresh /\ t.held = "expired"
              /\ t.todo = s.todo /\ t.queue = s.queue /\ t.cand = s.cand /\ Exists(row[j])
           \/ t.pc = "idle" /\ ~Exists(row[j])
     \/ /\ Spawn(p, j)
        /\ s.pc = "spawn" /\ t.pc = "claim" /\ SameQueue(s, t)
        /\ t.cand = s.cand \ {j}

LEMMA SchedFields ==
  ASSUME TypeOK, NEW p \in Procs, SchedStep(p)
  PROVE  /\ Ticks(p) \/ \E j \in Jobs : Claims(p, j)
         /\ \A x \in Procs : x # p => sched'[x] = sched[x]
<1>0. sched[p] \in Sched
  BY DEF TypeOK
<1>1. ASSUME NEW t, SetSched(p, t)
      PROVE  /\ sched'[p] = t
             /\ \A x \in Procs : x # p => sched'[x] = sched[x]
  BY <1>1 DEF SetSched, TypeOK
<1>2. Idle.pc = "idle"
  BY DEF Idle
<1> USE DEF SameTick, SameQueue
<1>3. CASE TickStart(p)
  <2> DEFINE t == [Idle EXCEPT !.pc = "count",
                               !.todo = {q \in Queues : ~qpaused[q]}]
  <2>1. SetSched(p, t)
    BY <1>3 DEF TickStart
  <2>2. /\ t.pc = "count" /\ t.cand = {} /\ ~t.fresh
        /\ t.todo = {q \in Queues : ~qpaused[q]}
    BY DEF Idle
  <2> HIDE DEF t
  <2> QED
    BY <1>1, <1>3, <2>1, <2>2 DEF Ticks
<1>4. ASSUME NEW q \in Queues, TickCount(p, q)
      PROVE  Ticks(p) /\ \A x \in Procs : x # p => sched'[x] = sched[x]
  <2> DEFINE n == Concurrency[q] - Cardinality(RowsOf(q, "running"))
             held == QueueCopy(p, q)
             t == [sched[p] EXCEPT !.pc = "query", !.todo = @ \ {q},
                                   !.queue = q, !.slots = n, !.held = held]
             u == [sched[p] EXCEPT !.todo = @ \ {q}]
  <2>1. \/ SetSched(p, t)
        \/ SetSched(p, u)
    BY <1>4 DEF TickCount
  <2>2. sched[p].pc = "count" /\ q \in sched[p].todo
    BY <1>4 DEF TickCount
  <2> HIDE DEF n, held
  <2>3. /\ t.pc = "query" /\ t.queue = q /\ t.slots = n /\ t.held = held
        /\ t.todo = sched[p].todo \ {q} /\ t.fresh = sched[p].fresh
        /\ u.pc = sched[p].pc
        /\ u.todo = sched[p].todo \ {q} /\ u.fresh = sched[p].fresh
    BY <1>0 DEF Sched
  <2> HIDE DEF t, u
  <2> QED
    BY <1>1, <1>4, <2>1, <2>2, <2>3 DEF Ticks, n, held
<1>5. CASE TickQuery(p)
  <2> DEFINE c == Oldest(RowsOf(sched[p].queue, "queued"), sched[p].slots)
             t == [sched[p] EXCEPT !.pc = "claim", !.cand = c, !.slots = 0]
  <2>1. SetSched(p, t) /\ sched[p].pc = "query"
    BY <1>5 DEF TickQuery
  <2> HIDE DEF c
  <2>2. t.pc = "claim" /\ SameQueue(sched[p], t) /\ t.cand = c
    BY <1>0 DEF Sched
  <2> HIDE DEF t
  <2> QED
    BY <1>1, <1>5, <2>1, <2>2 DEF Ticks, c
<1>6. CASE QueueDone(p)
  <2> DEFINE t == [sched[p] EXCEPT !.pc = "count"]
  <2>1. SetSched(p, t) /\ sched[p].pc = "claim"
    BY <1>6 DEF QueueDone
  <2>2. t.pc = "count" /\ SameTick(sched[p], t)
    BY <1>0 DEF Sched
  <2> HIDE DEF t
  <2> QED
    BY <1>1, <1>6, <2>1, <2>2 DEF Ticks
<1>7. CASE TickEnd(p)
  BY <1>1, <1>2, <1>7 DEF TickEnd, Ticks
<1>8. ASSUME NEW j \in Jobs, ClaimRead(p, j)
      PROVE  Claims(p, j) /\ \A x \in Procs : x # p => sched'[x] = sched[x]
  <2> DEFINE t == [sched[p] EXCEPT !.pc = "write", !.seen = row[j]]
  <2>1. SetSched(p, t) /\ sched[p].pc = "claim"
    BY <1>8 DEF ClaimRead
  <2>2. /\ t.pc = "write" /\ SameQueue(sched[p], t)
        /\ t.cand = sched[p].cand /\ t.seen = row[j]
    BY <1>0 DEF Sched
  <2> HIDE DEF t
  <2> QED
    BY <1>1, <1>8, <2>1, <2>2 DEF Claims
<1>9. ASSUME NEW j \in Jobs, ClaimSkip(p, j)
      PROVE  Claims(p, j) /\ \A x \in Procs : x # p => sched'[x] = sched[x]
  <2> DEFINE held == IF row[j].st = "queued" THEN Loaded(p, j) ELSE sched[p].held
             t == [sched[p] EXCEPT !.cand = @ \ {j}, !.held = held]
  <2>1. /\ sched[p].pc = "claim"
        /\ \/ SetSched(p, t)
           \/ row[j].st = "gone" /\ SetSched(p, Idle)
    BY <1>9 DEF ClaimSkip
  <2> HIDE DEF held
  <2>2. /\ t.pc = sched[p].pc /\ SameTick(sched[p], t)
        /\ t.queue = sched[p].queue /\ t.held = held
        /\ t.cand = sched[p].cand \ {j}
    BY <1>0 DEF Sched
  <2> HIDE DEF t
  <2> QED
    BY <1>1, <1>2, <1>9, <2>1, <2>2 DEF Claims, held
<1>10. ASSUME NEW j \in Jobs, ClaimWrite(p, j)
       PROVE  Claims(p, j) /\ \A x \in Procs : x # p => sched'[x] = sched[x]
  <2> DEFINE t == [sched[p] EXCEPT !.pc = "spawn", !.fresh = TRUE,
                                   !.held = "expired", !.seen = NoRow]
  <2>1. /\ sched[p].pc = "write"
        /\ SetSched(p, IF Exists(row[j]) THEN t ELSE Idle)
    BY <1>10 DEF ClaimWrite
  <2>2. /\ t.pc = "spawn" /\ t.fresh /\ t.held = "expired"
        /\ t.todo = sched[p].todo
        /\ t.queue = sched[p].queue /\ t.cand = sched[p].cand
    BY <1>0 DEF Sched
  <2> HIDE DEF t
  <2> QED
    BY <1>1, <1>2, <1>10, <2>1, <2>2 DEF Claims
<1>11. ASSUME NEW j \in Jobs, Spawn(p, j)
       PROVE  Claims(p, j) /\ \A x \in Procs : x # p => sched'[x] = sched[x]
  <2> DEFINE t == [sched[p] EXCEPT !.pc = "claim", !.cand = @ \ {j}]
  <2>1. SetSched(p, t) /\ sched[p].pc = "spawn"
    BY <1>11 DEF Spawn
  <2>2. /\ t.pc = "claim" /\ SameQueue(sched[p], t)
        /\ t.cand = sched[p].cand \ {j}
    BY <1>0 DEF Sched
  <2> HIDE DEF t
  <2> QED
    BY <1>1, <1>11, <2>1, <2>2 DEF Claims
<1> HIDE DEF SameTick, SameQueue
<1> QED
  BY <1>3, <1>1, <1>4, <1>5, <1>6, <1>7, <1>8, <1>9, <1>10, <1>11
  DEF SchedStep, TickStart, TickQuery, QueueDone, TickEnd

-----------------------------------------------------------------------------
(* The job thread, field by field.  It opens, comes to the end of its      *)
(* attempt, or writes the outcome and leaves.                              *)

Opens(p, j) ==
  LET s == runner[p][j]  t == runner'[p][j]  r == row[j]  u == row'[j]
  IN \/ /\ s.pc \in {"start", "number"} /\ ~Exists(r)
        /\ t.pc = "exit" /\ u = r /\ UNCHANGED starts
     \/ /\ s.pc = "start" /\ Exists(r) /\ j \notin Known[p]
        /\ t.pc = "exit" /\ u = Failed(r) /\ UNCHANGED starts
     \/ /\ s.pc = "start" /\ Exists(r) /\ j \in Known[p]
        /\ t.pc = "number" /\ t.seen = r /\ u = r /\ UNCHANGED starts
     \/ /\ s.pc = "number" /\ Exists(r)
        /\ u.st = r.st /\ u.stop = r.stop /\ u.att = s.seen.att + 1
        /\ t.pc = "join" /\ t.att = s.seen.att + 1
        /\ starts' = [starts EXCEPT ![j] = @ + 1]

Ends(p, j) ==
  LET s == runner[p][j]  t == runner'[p][j]  r == row[j]  u == row'[j]
  IN /\ UNCHANGED starts
     /\ \/ /\ s.pc = "join" /\ t.pc \in {"final", "fail"} /\ t.att = s.att
           /\ u = r
        \/ /\ s.pc = "join" /\ t.pc = "fail" /\ t.att = s.att
           /\ j \in Timed /\ u = StopAsked(r)
        \/ /\ s.pc \in {"final", "fail"} /\ u = r
           /\ \/ ~Exists(r) /\ t.pc = "exit"
              \/ /\ Exists(r) /\ t.seen = r /\ t.att = s.att
                 /\ t.pc = IF s.pc = "final" THEN "finalw" ELSE "failw"

Leaves(p, j) ==
  LET s == runner[p][j]  t == runner'[p][j]
  IN /\ UNCHANGED starts
     /\ \/ s.pc = "finalw" /\ t.pc = "exit" /\ RunFinalWrite(p, j)
        \/ s.pc = "failw" /\ t.pc = "exit" /\ RunFailWrite(p, j)
        \/ s.pc = "exit" /\ t.pc = "none" /\ UNCHANGED row

LEMMA RunnerFields ==
  ASSUME SharedTypes, NEW p \in Procs, NEW j \in Jobs, RunnerStep(p, j)
  PROVE  /\ Opens(p, j) \/ Ends(p, j) \/ Leaves(p, j)
         /\ \A k \in Jobs : k # j => row'[k] = row[k]
         /\ \A x \in Procs, k \in Jobs :
              x # p \/ k # j => runner'[x][k] = runner[x][k]
         /\ UNCHANGED <<sched, qpaused, ctl>>
<1>0. /\ runner[p][j] \in Runner /\ row[j] \in Row
      /\ row \in [Jobs -> Row] /\ runner \in [Procs -> [Jobs -> Runner]]
  BY DEF SharedTypes
<1>1. UNCHANGED <<sched, qpaused, ctl>>
  BY DEF RunnerStep, RunGone, RunUnknown, RunOpen, RunStart, RunJoin, RunTimeout,
         RunReread, RunFinalWrite, RunFailWrite, RunExit, RunnerUnchanged
<1>2. \A k \in Jobs : k # j => row'[k] = row[k]
  BY <1>0 DEF RunnerStep, RunGone, RunUnknown, RunOpen, RunStart, RunJoin, RunTimeout,
         RunReread, RunFinalWrite, RunFailWrite, RunExit, SetRow, Flush
<1>3. \E r : SetRunner(p, j, r)
  BY DEF RunnerStep, RunGone, RunUnknown, RunOpen, RunStart, RunJoin, RunTimeout,
         RunReread, RunFinalWrite, RunFailWrite, RunExit, RunnerAt
<1>4. \A x \in Procs, k \in Jobs :
        x # p \/ k # j => runner'[x][k] = runner[x][k]
  BY <1>0, <1>3 DEF SetRunner
<1>5. ASSUME NEW r, SetRunner(p, j, r)
      PROVE  runner'[p][j] = r
  BY <1>0, <1>5 DEF SetRunner
<1>6. ASSUME NEW pc, RunnerAt(p, j, pc)
      PROVE  runner'[p][j].pc = pc /\ runner'[p][j].att = runner[p][j].att
  <2> DEFINE r == [runner[p][j] EXCEPT !.pc = pc]
  <2>1. SetRunner(p, j, r)
    BY <1>6 DEF RunnerAt
  <2>2. r.pc = pc /\ r.att = runner[p][j].att
    BY <1>0 DEF Runner
  <2> HIDE DEF r
  <2> QED
    BY <1>5, <2>1, <2>2
<1>7. ASSUME NEW r, SetRow(j, r)
      PROVE  row'[j] = r
  BY <1>0, <1>7 DEF SetRow
<1>8. Opens(p, j) \/ Ends(p, j) \/ Leaves(p, j)
  <2>1. CASE RunGone(p, j)
    <3> DEFINE t == [runner[p][j] EXCEPT !.pc = "exit", !.seen = NoRow]
    <3>1. /\ SetRunner(p, j, t) /\ UNCHANGED <<row, starts>>
          /\ runner[p][j].pc \in {"start", "number"} /\ ~Exists(row[j])
      BY <2>1 DEF RunGone
    <3>2. t.pc = "exit"
      BY <1>0 DEF Runner
    <3> HIDE DEF t
    <3> QED
      BY <1>5, <3>1, <3>2 DEF Opens
  <2>8. CASE RunUnknown(p, j)
    BY <1>6, <1>7, <2>8 DEF RunUnknown, Opens
  <2>9. CASE RunOpen(p, j)
    <3> DEFINE t == [runner[p][j] EXCEPT !.pc = "number", !.seen = row[j]]
    <3>1. /\ SetRunner(p, j, t) /\ UNCHANGED <<row, starts>>
          /\ runner[p][j].pc = "start" /\ Exists(row[j]) /\ j \in Known[p]
      BY <2>9 DEF RunOpen
    <3>2. t.pc = "number" /\ t.seen = row[j]
      BY <1>0 DEF Runner
    <3> HIDE DEF t
    <3> QED
      BY <1>5, <3>1, <3>2 DEF Opens
  <2>2. CASE RunStart(p, j)
    <3> DEFINE seen    == runner[p][j].seen
               attempt == seen.att + 1
               new     == [seen EXCEPT !.att = attempt]
               t == [pc |-> "join", n |-> starts[j] + 1, att |-> attempt,
                     seen |-> NoRow]
    <3>1. /\ SetRow(j, Flushed(row[j], seen, new, {})) /\ SetRunner(p, j, t)
          /\ runner[p][j].pc = "number" /\ Exists(row[j])
          /\ starts' = [starts EXCEPT ![j] = starts[j] + 1]
      BY <2>2 DEF RunStart, Flush
    <3>0. seen \in Row
      BY <1>0 DEF Runner
    <3>4. attempt \in Nat /\ attempt # seen.att /\ attempt = runner[p][j].seen.att + 1
      BY <3>0 DEF Row
    <3>3. t.pc = "join" /\ t.att = attempt
      OBVIOUS
    <3> HIDE DEF seen, attempt, t
    <3>2. /\ Flushed(row[j], seen, new, {}).st = row[j].st
          /\ Flushed(row[j], seen, new, {}).stop = row[j].stop
          /\ Flushed(row[j], seen, new, {}).att = attempt
      BY <1>0, <3>0, <3>1, <3>4 DEF Row, Flushed
    <3> QED
      BY <1>5, <1>7, <3>1, <3>2, <3>3, <3>4 DEF Opens
  <2>3. CASE RunJoin(p, j)
    BY <1>6, <2>3 DEF RunJoin, Ends
  <2>4. CASE RunTimeout(p, j)
    BY <1>6, <1>7, <2>4 DEF RunTimeout, Ends
  <2>5. CASE RunReread(p, j)
    <3>0. runner[p][j].pc \in {"final", "fail"} /\ UNCHANGED <<row, starts>>
      BY <2>5 DEF RunReread
    <3>1. CASE ~Exists(row[j])
      BY <1>6, <2>5, <3>0, <3>1 DEF RunReread, Ends
    <3>2. CASE Exists(row[j])
      <4> DEFINE t == [runner[p][j] EXCEPT
                         !.pc = IF @ = "final" THEN "finalw" ELSE "failw",
                         !.seen = row[j]]
      <4>1. SetRunner(p, j, t)
        BY <2>5, <3>2 DEF RunReread
      <4>2. /\ t.seen = row[j] /\ t.att = runner[p][j].att
            /\ t.pc = IF runner[p][j].pc = "final" THEN "finalw" ELSE "failw"
        BY <1>0 DEF Runner
      <4> HIDE DEF t
      <4> QED
        BY <1>5, <3>0, <3>2, <4>1, <4>2 DEF Ends
    <3> QED
      BY <3>1, <3>2
  <2>6. CASE RunFinalWrite(p, j) \/ RunFailWrite(p, j)
    BY <1>6, <2>6 DEF RunFinalWrite, RunFailWrite, Leaves
  <2>7. CASE RunExit(p, j)
    BY <1>5, <2>7 DEF RunExit, Leaves, NoRunner
  <2> QED
    BY <2>1, <2>2, <2>3, <2>4, <2>5, <2>6, <2>7, <2>8, <2>9 DEF RunnerStep
<1> QED
  BY <1>1, <1>2, <1>4, <1>8

-----------------------------------------------------------------------------
(* What a tick claims.                                                     *)

\* The candidates of a tick are jobs of the queue it serves.
OwnJobs(p) ==
  sched[p].pc \in {"claim", "write", "spawn"} =>
    \A j \in sched[p].cand : QueueOf[j] = sched[p].queue

LEMMA SchedMoves ==
  ASSUME TypeOK, [Next]_vars, NEW p \in Procs
  PROVE  \/ sched'[p] = sched[p]
         \/ sched'[p].pc = "idle"
         \/ Ticks(p) \/ \E j \in Jobs : Claims(p, j)
<1>1. ASSUME NEW x \in Procs, SchedStep(x)
      PROVE  sched'[p] = sched[p] \/ Ticks(p) \/ \E j \in Jobs : Claims(p, j)
  BY <1>1, SchedFields
<1>2. ASSUME NEW x \in Procs, Crash(x)
      PROVE  sched'[p] = sched[p] \/ sched'[p].pc = "idle"
  BY <1>2 DEF Crash, TypeOK, Idle
<1>3. CASE UNCHANGED sched
  BY <1>3
<1> QED
  BY <1>1, <1>2, <1>3, TypeParts, SchedKept DEF Next, vars

LEMMA OwnJobsStep ==
  ASSUME TypeOK, [Next]_vars, NEW p \in Procs, OwnJobs(p)
  PROVE  OwnJobs(p)'
<1>1. CASE Ticks(p)
  <2>1. Oldest(RowsOf(sched[p].queue, "queued"), sched[p].slots)
          \subseteq {j \in Jobs : QueueOf[j] = sched[p].queue}
    BY DEF Oldest, RowsOf
  <2> QED
    BY <1>1, <2>1 DEF Ticks, OwnJobs, SameQueue
<1>2. CASE \E j \in Jobs : Claims(p, j)
  BY <1>2 DEF Claims, OwnJobs, SameQueue
<1>3. CASE sched'[p] = sched[p] \/ sched'[p].pc = "idle"
  BY <1>3 DEF OwnJobs
<1> QED
  BY <1>1, <1>2, <1>3, SchedMoves

-----------------------------------------------------------------------------
(* A running row has its thread.  Without retries, pauses and crashes a    *)
(* row is queued once, before any thread knows it; a claim spawns its      *)
(* thread; and a thread whose last write would leave the row running has   *)
(* seen it otherwise, so that another process runs it.                     *)

Spawning(p, j) == sched[p].pc = "spawn" /\ IsNext(p, j)

WillEnd(p, j) ==
  /\ runner[p][j].pc \notin {"none", "exit"}
  /\ runner[p][j].pc \in {"finalw", "failw"} => runner[p][j].seen.st = "running"

Unpaused ==
  /\ \A j \in Jobs : row[j].st # "paused"
  /\ \A a \in Admins : ctl[a].op # "pause" /\ ctl[a].seen.st # "paused"

ClaimAlone(p, j) ==
  /\ row[j].st \in {"none", "queued"}
       => runner[p][j].pc = "none" /\ ~Spawning(p, j)
  /\ sched[p].pc \in {"write", "spawn"} /\ IsNext(p, j)
       => runner[p][j].pc = "none"
  /\ sched[p].pc = "write" /\ IsNext(p, j) => sched[p].seen.st = "queued"

Attending(j) == \E p \in Procs : Spawning(p, j) \/ WillEnd(p, j)

RunningInv ==
  /\ Unpaused
  /\ \A j \in Jobs : row[j].st = "running" => Attending(j)
  /\ \A p \in Procs, j \in Jobs : ClaimAlone(p, j)

\* Two jobs are not both the next one.
LEMMA OneNext ==
  ASSUME NEW p \in Procs, NEW i \in Jobs, NEW j \in Jobs,
         IsNext(p, i), IsNext(p, j)
  PROVE  i = j
BY JobsAssumption DEF IsNext

\* A control other than a pause, decided on a row that was not paused, stops
\* the job or leaves its status.
LEMMA UnpausedControl ==
  ASSUME SharedTypes, Unpaused, NEW a \in Admins, NEW j \in Jobs,
         ControlWrite(a, j)
  PROVE  \A k \in Jobs : row'[k].st \in {row[k].st, "stopped"}
<1> DEFINE op   == ctl[a].op
           seen == ctl[a].seen
           new  == Controlled(op, seen)
<1>1. /\ op \in JobOps /\ seen \in Row
      /\ op # "pause" /\ seen.st # "paused"
  BY DEF ControlWrite, SharedTypes, Ctl, Unpaused
<1>2. Flush(j, seen, new, Stamps(op, seen)) /\ "st" \notin Stamps(op, seen)
  BY DEF ControlWrite, Stamps
<1>3. new.st \in {seen.st, "stopped"}
  <2> HIDE DEF op, seen
  <2> QED
    BY <1>1 DEF Controlled, JobOps, Row
<1> HIDE DEF new
<1> QED
  BY <1>2, <1>3, FlushStatus

\* A status once left is not come back to, but for a claim's "running".
Onward(k) ==
  /\ row'[k].st = "none" => row[k].st = "none"
  /\ row'[k].st = "queued" => row[k].st \in {"none", "queued"}
  /\ row'[k].st # "paused"
  /\ row'[k].st = "running" => \/ row[k].st = "running"
                               \/ \E p \in Procs : Spawning(p, k)'

LEMMA OnwardStep ==
  ASSUME TypeOK, Numbered, Unpaused, [Next]_vars, NEW k \in Jobs,
         \A j \in Jobs : MaxRetries[j] = 0
  PROVE  Onward(k)
<1>0. SharedTypes /\ row[k].st # "paused"
  BY TypeParts DEF Unpaused
<1>1. CASE row'[k].st \in {row[k].st, "stopped", "failed", "completed", "gone"}
  BY <1>0, <1>1 DEF Onward
<1>2. ASSUME NEW j \in Jobs, Enqueue(j)
      PROVE  Onward(k)
  <2>1. \/ row'[k].st = row[k].st
        \/ row[k].st = "none" /\ row'[k].st = "queued"
    <3>1. [row[j] EXCEPT !.st = "queued"].st = "queued"
      BY DEF TypeOK, Row
    <3> QED
      BY <1>0, <1>2, <3>1, SetRowStatus DEF Enqueue
  <2> QED
    BY <1>1, <2>1 DEF Onward
<1>3. ASSUME NEW p \in Procs, SchedStep(p)
      PROVE  Onward(k)
  <2>1. ASSUME NEW j \in Jobs, ClaimWrite(p, j)
        PROVE  Onward(k)
    <3>1. CASE k = j /\ Exists(row[j]) /\ sched[p].seen.st # "running"
      <4>1. row'[k].st = "running"
        BY <2>1, <3>1, ClaimStatus
      <4>2. IsNext(p, k)
        BY <2>1, <3>1 DEF ClaimWrite
      <4>3. sched'[p].pc = "spawn" /\ sched'[p].cand = sched[p].cand
        <5> DEFINE t == [sched[p] EXCEPT !.pc = "spawn", !.fresh = TRUE,
                                         !.held = "expired", !.seen = NoRow]
        <5>1. SetSched(p, t)
          BY <2>1, <3>1 DEF ClaimWrite
        <5>2. t.pc = "spawn" /\ t.cand = sched[p].cand
          <6>1. sched[p] \in Sched
            BY DEF TypeOK
          <6> QED
            BY <6>1 DEF Sched
        <5> HIDE DEF t
        <5> QED
          BY <5>1, <5>2 DEF SetSched, TypeOK
      <4> QED
        BY <4>1, <4>2, <4>3 DEF Onward, Spawning, IsNext
    <3>2. CASE ~(k = j /\ Exists(row[j]) /\ sched[p].seen.st # "running")
      BY <1>1, <2>1, <3>2, ClaimStatus
    <3> QED
      BY <3>1, <3>2
  <2>2. CASE UNCHANGED row
    BY <1>1, <2>2
  <2> QED
    BY <1>3, <2>1, <2>2
    DEF SchedStep, TickStart, TickCount, TickEnd, TickQuery, QueueDone,
        ClaimRead, ClaimSkip, Spawn
<1>4. ASSUME NEW p \in Procs, NEW j \in Jobs, RunnerStep(p, j)
      PROVE  Onward(k)
  <2>1. CASE k # j
    BY <1>0, <1>1, <1>4, <2>1, RunnerFields
  <2>2. CASE k = j /\ (RunFinalWrite(p, j) \/ RunFailWrite(p, j))
    <3>1. Verdict(p, k) \in {"completed", "stopped", "failed", runner[p][k].seen.st}
      <4>1. RunFailWrite(p, k) => ~MayRetry(p, k)
        <5>1. runner[p][k].att \in Nat
          <6>1. runner[p][k] \in Runner
            BY DEF TypeOK
          <6> QED
            BY <6>1 DEF Runner
        <5> QED
          BY <5>1 DEF RunFailWrite, MayRetry, Numbered, WithAttempt
      <4> QED
        BY <2>2, <4>1 DEF Verdict, Outcome, RunFailWrite, RunFinalWrite
    <3> QED
      BY <1>0, <1>1, <2>2, <3>1, VerdictStatus
  <2>3. CASE k = j /\ ~(RunFinalWrite(p, j) \/ RunFailWrite(p, j))
    <3>1. row[j] \in Row
      BY DEF TypeOK
    <3>2. /\ Failed(row[j]).st = "failed"
          /\ StopAsked(row[j]).st = row[j].st
      BY <3>1 DEF Failed, StopAsked, Row
    <3> QED
      BY <1>0, <1>1, <1>4, <2>3, <3>2, RunnerFields DEF Opens, Ends, Leaves
  <2> QED
    BY <2>1, <2>2, <2>3
<1>5. ASSUME NEW j \in Jobs, NEW n \in Starts, HandlerStep(j, n)
      PROVE  Onward(k)
  BY <1>0, <1>1, <1>5, HandlerStatus
<1>6. ASSUME NEW a \in Admins, ControlStep(a)
      PROVE  Onward(k)
  BY <1>0, <1>1, <1>6, UnpausedControl, DeleteStatus
  DEF ControlStep, ControlRead, CleanupAll, CleanupRead, CleanupWrite,
      QueuePause
<1>7. ASSUME \/ \E p \in Procs : Crash(p) \/ Restart(p)
             \/ UNCHANGED vars
      PROVE  row' = row
  BY <1>7 DEF Crash, Restart, vars
<1> QED
  BY <1>1, <1>2, <1>3, <1>4, <1>5, <1>6, <1>7 DEF Next

LEMMA UnpausedStep ==
  ASSUME TypeOK, Numbered, Unpaused, [Next]_vars,
         \A j \in Jobs : MaxRetries[j] = 0, "pause" \notin Controls
  PROVE  Unpaused'
<1>1. \A k \in Jobs : row'[k].st # "paused"
  BY OnwardStep DEF Onward
<1>2. \A a \in Admins : ctl'[a].op # "pause" /\ ctl'[a].seen.st # "paused"
  <2>1. CASE UNCHANGED ctl
    BY <2>1 DEF Unpaused
  <2>2. ASSUME NEW a \in Admins, ControlStep(a)
        PROVE  \A b \in Admins : ctl'[b].op # "pause" /\ ctl'[b].seen.st # "paused"
    <3>1. ASSUME NEW c, SetCtl(a, c), c.op # "pause", c.seen.st # "paused"
          PROVE  \A b \in Admins : ctl'[b].op # "pause" /\ ctl'[b].seen.st # "paused"
      BY <3>1 DEF SetCtl, Unpaused, TypeOK
    <3>2. Answered.op # "pause" /\ Answered.seen.st # "paused"
      BY DEF Answered, Request, NoRow
    <3>3. ASSUME CleanupRead(a)
          PROVE  \A b \in Admins : ctl'[b].op # "pause" /\ ctl'[b].seen.st # "paused"
      <4>1. /\ Request("cleanup_recent", TerminalRows, NoRow).op # "pause"
            /\ Request("cleanup_recent", TerminalRows, NoRow).seen.st # "paused"
        BY DEF Request, NoRow
      <4> QED
        BY <3>1, <3>3, <4>1 DEF CleanupRead
    <3>4. ASSUME NEW op \in JobOps, NEW j \in Jobs, ControlRead(a, op, j)
          PROVE  \A b \in Admins : ctl'[b].op # "pause" /\ ctl'[b].seen.st # "paused"
      <4>1. /\ Request(op, {j}, row[j]).op # "pause"
            /\ Request(op, {j}, row[j]).seen.st # "paused"
        BY <3>4 DEF ControlRead, Request, Unpaused
      <4> QED
        BY <3>1, <3>4, <4>1 DEF ControlRead
    <3> QED
      BY <2>2, <3>1, <3>2, <3>3, <3>4
      DEF ControlStep, ControlWrite, CleanupAll, CleanupWrite, QueuePause
  <2>3. ASSUME NEW p \in Procs, NEW j \in Jobs, RunnerStep(p, j)
        PROVE  UNCHANGED ctl
    <3>1. SharedTypes
      BY TypeParts
    <3> QED
      BY <2>3, <3>1, RunnerFields
  <2>4. ASSUME \/ \E j \in Jobs : Enqueue(j)
               \/ \E p \in Procs : SchedStep(p) \/ Crash(p) \/ Restart(p)
               \/ \E j \in Jobs, n \in Starts : HandlerStep(j, n)
               \/ UNCHANGED vars
        PROVE  UNCHANGED ctl
    BY <2>4 DEF Enqueue, SchedStep, TickStart, TickCount, TickEnd, TickQuery,
                QueueDone, ClaimRead, ClaimSkip, ClaimWrite, Spawn,
                SchedUnchanged, Crash, Restart, HandlerStep, HandlerPoll,
                HandlerWait, HandlerHalt, HandlerWork, HandlerReturn,
                HandlerRaise, HandlerUnchanged, vars
  <2> QED
    BY <2>1, <2>2, <2>3, <2>4 DEF Next
<1> QED
  BY <1>1, <1>2 DEF Unpaused

\* A scheduler starts one job thread at most, of a job not in flight.
LEMMA SchedRunner ==
  ASSUME TypeOK, NEW x \in Procs, SchedStep(x), NEW p \in Procs, NEW j \in Jobs
  PROVE  \/ runner'[p][j] = runner[p][j]
         \/ /\ x = p /\ Spawn(p, j) /\ ~InFlight(p, j)
            /\ runner'[p][j].pc = "start"
<1>1. ASSUME NEW i \in Jobs, Spawn(x, i)
      PROVE  \/ runner'[p][j] = runner[p][j]
             \/ x = p /\ i = j /\ ~InFlight(p, j) /\ runner'[p][j].pc = "start"
  <2>1. CASE InFlight(x, i)
    BY <1>1, <2>1 DEF Spawn
  <2>2. CASE ~InFlight(x, i)
    <3> DEFINE r == [runner[x][i] EXCEPT !.pc = "start"]
    <3>1. runner' = [runner EXCEPT ![x][i] = r]
      BY <1>1, <2>2 DEF Spawn, RunnerAt, SetRunner
    <3>2. r.pc = "start"
      <4>1. runner[x][i] \in Runner
        BY DEF TypeOK
      <4> QED
        BY <4>1 DEF Runner
    <3> HIDE DEF r
    <3> QED
      BY <2>2, <3>1, <3>2 DEF TypeOK
  <2> QED
    BY <2>1, <2>2
<1> QED
  BY <1>1
  DEF SchedStep, TickStart, TickCount, TickEnd, TickQuery, QueueDone,
      ClaimRead, ClaimSkip, ClaimWrite

\* Without crashes only a scheduler and a job thread change either.
LEMMA ThreadsKept ==
  ASSUME TypeOK, [Next]_vars, MaxCrashes = 0
  PROVE  \/ \E p \in Procs : SchedStep(p)
         \/ \E p \in Procs, j \in Jobs : RunnerStep(p, j)
         \/ UNCHANGED <<sched, runner>>
<1>1. \A x \in Procs : ~Crash(x)
  BY BoundsAssumption DEF Crash, TypeOK
<1>2. ASSUME \/ \E i \in Jobs : Enqueue(i)
             \/ \E x \in Procs : Restart(x)
             \/ \E i \in Jobs, n \in Starts : HandlerStep(i, n)
             \/ \E a \in Admins : ControlStep(a)
             \/ UNCHANGED vars
      PROVE  UNCHANGED <<sched, runner>>
  BY <1>2
  DEF Enqueue, Restart, HandlerStep, HandlerPoll, HandlerWait, HandlerHalt,
      HandlerWork, HandlerReturn, HandlerRaise, HandlerUnchanged, ControlStep,
      ControlRead, ControlWrite, CleanupAll, CleanupRead, CleanupWrite,
      QueuePause, CtlUnchanged, vars
<1> QED
  BY <1>1, <1>2 DEF Next

\* A claim that commits has a thread at once, and no other thread in its
\* process does.
LEMMA AloneStep ==
  ASSUME TypeOK, RunningInv, [Next]_vars,
         NEW p \in Procs, NEW j \in Jobs, Onward(j), MaxCrashes = 0
  PROVE  ClaimAlone(p, j)'
<1>0. /\ ClaimAlone(p, j) /\ SharedTypes
      /\ row'[j].st \in {"none", "queued"} => row[j].st \in {"none", "queued"}
  BY TypeParts DEF RunningInv, Onward
<1>1. CASE sched'[p] = sched[p] /\ runner'[p][j] = runner[p][j]
  BY <1>0, <1>1 DEF ClaimAlone, Spawning, IsNext
<1>2. ASSUME NEW x \in Procs, NEW i \in Jobs, RunnerStep(x, i)
      PROVE  ClaimAlone(p, j)'
  <2>1. CASE x # p \/ i # j
    BY <1>0, <1>1, <1>2, <2>1, RunnerFields
  <2>2. CASE x = p /\ i = j
    <3>1. runner[p][j].pc # "none" /\ UNCHANGED sched
      BY <1>0, <1>2, <2>2, RunnerFields DEF Opens, Ends, Leaves
    <3> QED
      BY <1>0, <3>1 DEF ClaimAlone, Spawning, IsNext
  <2> QED
    BY <2>1, <2>2
<1>3. ASSUME NEW x \in Procs, SchedStep(x)
      PROVE  ClaimAlone(p, j)'
  <2>1. ASSUME x # p
        PROVE  ClaimAlone(p, j)'
    <3>1. sched'[p] = sched[p]
      BY <1>3, <2>1, SchedFields
    <3>2. runner'[p][j] = runner[p][j]
      BY <1>3, <2>1, SchedRunner
    <3> QED
      BY <1>1, <3>1, <3>2
  <2>2. ASSUME x = p, Ticks(p)
        PROVE  ClaimAlone(p, j)'
    <3>1. sched'[p].pc \notin {"write", "spawn"}
      BY <2>2 DEF Ticks
    <3>2. UNCHANGED runner
      BY <2>2 DEF Ticks, TickStart, TickCount, TickEnd, TickQuery, QueueDone
    <3> QED
      BY <1>0, <3>1, <3>2 DEF ClaimAlone, Spawning
  <2>3. ASSUME x = p, NEW i \in Jobs, Claims(p, i)
        PROVE  ClaimAlone(p, j)'
    <3>1. CASE ClaimRead(p, i)
      <4>1. /\ UNCHANGED runner
            /\ IsNext(p, i) /\ row[i].st = "queued"
            /\ sched'[p].pc = "write" /\ sched'[p].cand = sched[p].cand
            /\ sched'[p].seen = row[i]
        BY <2>3, <3>1 DEF Claims, ClaimRead, Claimable, ClaimSkip, ClaimWrite, Spawn
      <4>2. IsNext(p, j)' => i = j
        BY <4>1, OneNext DEF IsNext
      <4> QED
        BY <1>0, <4>1, <4>2 DEF ClaimAlone, Spawning
    <3>2. CASE ClaimSkip(p, i)
      <4>1. UNCHANGED runner /\ sched'[p].pc \in {"claim", "idle"}
        BY <2>3, <3>2 DEF Claims, ClaimRead, ClaimSkip, ClaimWrite, Spawn
      <4> QED
        BY <1>0, <4>1 DEF ClaimAlone, Spawning
    <3>3. CASE ClaimWrite(p, i)
      <4>1. /\ UNCHANGED runner /\ IsNext(p, i) /\ sched[p].pc = "write"
            /\ \/ /\ sched'[p].pc = "spawn" /\ Exists(row[i])
                  /\ sched'[p].cand = sched[p].cand
               \/ sched'[p].pc = "idle"
        BY <2>3, <3>3 DEF Claims, ClaimRead, ClaimSkip, ClaimWrite, Spawn
      <4>2. Spawning(p, j)' => i = j /\ row'[j].st = "running"
        <5>1. Spawning(p, j)' => i = j /\ Exists(row[j])
          BY <4>1, OneNext DEF IsNext, Spawning
        <5>2. i = j => sched[p].seen.st = "queued"
          BY <1>0, <4>1 DEF ClaimAlone
        <5> QED
          BY <3>3, <5>1, <5>2, ClaimStatus
      <4>3. sched'[p].pc \in {"write", "spawn"} /\ IsNext(p, j)' => IsNext(p, j)
        BY <4>1 DEF IsNext
      <4> QED
        BY <1>0, <4>1, <4>2, <4>3 DEF ClaimAlone
    <3>4. CASE Spawn(p, i)
      <4>1. /\ sched'[p].pc = "claim" /\ Spawning(p, i)
            /\ runner'[p][j] # runner[p][j] => i = j
        BY <2>3, <3>4 DEF Claims, ClaimRead, ClaimSkip, ClaimWrite, Spawn, Spawning,
           RunnerAt, SetRunner, TypeOK
      <4>2. i = j => row[j].st \notin {"none", "queued"}
        BY <1>0, <4>1 DEF ClaimAlone
      <4> QED
        BY <1>0, <4>1, <4>2 DEF ClaimAlone, Spawning
    <3> QED
      BY <2>3, <3>1, <3>2, <3>3, <3>4 DEF Claims
  <2> QED
    BY <1>3, <2>1, <2>2, <2>3, SchedFields
<1> QED
  BY <1>1, <1>2, <1>3, ThreadsKept

LEMMA AttendingStep ==
  ASSUME TypeOK, ThreadsInv, Numbered, RunningInv, [Next]_vars,
         NEW j \in Jobs, Onward(j), row'[j].st = "running",
         MaxRetries[j] = 0, MaxCrashes = 0
  PROVE  Attending(j)'
<1>0. SharedTypes
  BY TypeParts
<1>1. CASE row[j].st # "running"
  BY <1>1 DEF Onward, Attending
<1>2. CASE row[j].st = "running"
  <2>1. PICK p \in Procs : Spawning(p, j) \/ WillEnd(p, j)
    BY <1>2 DEF RunningInv, Attending
  <2> SUFFICES Spawning(p, j)' \/ WillEnd(p, j)'
    BY DEF Attending
  <2>2. CASE sched'[p] = sched[p] /\ runner'[p][j] = runner[p][j]
    BY <2>1, <2>2 DEF Spawning, IsNext, WillEnd
  <2>3. ASSUME NEW x \in Procs, NEW i \in Jobs, RunnerStep(x, i)
        PROVE  Spawning(p, j)' \/ WillEnd(p, j)'
    <3>1. CASE x # p \/ i # j
      BY <1>0, <2>2, <2>3, <3>1, RunnerFields
    <3>2. CASE Spawning(p, j)
      BY <1>0, <2>3, <3>2, RunnerFields DEF Spawning, IsNext
    <3>3. CASE x = p /\ i = j /\ WillEnd(p, j)
      <4>1. RunnerStep(p, j)
        BY <2>3, <3>3
      <4>2. CASE Opens(p, j)
        <5>1. Failed(row[j]).st = "failed"
          BY DEF TypeOK, Failed, Row
        <5> QED
          BY <1>2, <4>2, <5>1 DEF Opens, WillEnd, Exists, Absent
      <4>3. CASE Ends(p, j)
        BY <1>2, <4>3 DEF Ends, WillEnd, Exists, Absent
      <4>4. CASE Leaves(p, j)
        <5>1. RunFinalWrite(p, j) \/ RunFailWrite(p, j)
          BY <3>3, <4>4 DEF Leaves, WillEnd
        <5>2. runner[p][j].seen.st = "running"
          BY <3>3, <5>1 DEF WillEnd, RunFinalWrite, RunFailWrite
        <5>3. RunFailWrite(p, j) => ~MayRetry(p, j)
          <6>1. runner[p][j] \in Runner
            BY DEF TypeOK
          <6> QED
            BY <6>1 DEF Runner, RunFailWrite, MayRetry, Numbered, WithAttempt
        <5>4. Verdict(p, j) \in {"completed", "stopped", "failed"}
          BY <5>1, <5>2, <5>3 DEF Verdict, Outcome, RunFailWrite, RunFinalWrite
        <5>5. row'[j].st # "running"
          BY <1>0, <1>2, <5>1, <5>2, <5>4, VerdictStatus DEF Exists, Absent
        <5> QED
          BY <5>5
      <4> QED
        BY <1>0, <4>1, <4>2, <4>3, <4>4, RunnerFields
    <3> QED
      BY <2>1, <3>1, <3>2, <3>3
  <2>4. ASSUME NEW x \in Procs, SchedStep(x)
        PROVE  Spawning(p, j)' \/ WillEnd(p, j)'
    <3>0. ClaimAlone(p, j)
      BY DEF RunningInv
    <3>1. CASE Spawning(p, j) /\ x = p
      <4>1. PICK i \in Jobs : Spawn(p, i)
        BY <2>4, <3>1
        DEF SchedStep, TickStart, TickCount, TickEnd, TickQuery, QueueDone,
            ClaimRead, ClaimSkip, ClaimWrite, Spawning
      <4>2. i = j
        BY <3>1, <4>1, OneNext DEF Spawn, Spawning
      <4>3. ~InFlight(p, j)
        BY <3>0, <3>1 DEF ClaimAlone, Spawning, ThreadsInv, Owned, InFlight
      <4>4. runner'[p][j].pc = "start"
        <5>1. RunnerAt(p, j, "start")
          BY <4>1, <4>2, <4>3 DEF Spawn
        <5>2. [runner[p][j] EXCEPT !.pc = "start"].pc = "start"
          <6>1. runner[p][j] \in Runner
            BY DEF TypeOK
          <6> QED
            BY <6>1 DEF Runner
        <5> QED
          BY <5>1, <5>2 DEF RunnerAt, SetRunner, TypeOK
      <4> QED
        BY <4>4 DEF WillEnd
    <3>2. CASE Spawning(p, j) /\ x # p
      BY <2>4, <3>2, SchedFields DEF Spawning, IsNext
    <3>3. CASE WillEnd(p, j)
      <4>1. runner'[p][j] = runner[p][j]
        <5>1. j \in inflight[p]
          BY <3>3 DEF WillEnd, ThreadsInv, Owned
        <5> QED
          BY <2>4, <5>1, SchedRunner DEF InFlight
      <4> QED
        BY <3>3, <4>1 DEF WillEnd
    <3> QED
      BY <2>1, <3>1, <3>2, <3>3
  <2> QED
    BY <2>2, <2>3, <2>4, ThreadsKept
<1> QED
  BY <1>1, <1>2

\* Without retries, pauses and crashes every running row has a thread that
\* will end it, in some process, however many processes claim, run and finish
\* the same rows and whatever they write over each other
\* (_mark_job_running, _spawn_job, _run_job_thread).
THEOREM RunningIsAttended ==
  ASSUME \A j \in Jobs : MaxRetries[j] = 0,
         "pause" \notin Controls,
         MaxCrashes = 0
  PROVE  Spec => []NoLostJob
<1>1. Init => Numbered /\ ThreadsInv /\ RunningInv
  BY DEF Init, Numbered, NoRunner, WithAttempt, ThreadsInv, Owned, NoHandler,
         Underway, Executing, RunningInv, Unpaused, ClaimAlone, Spawning, Idle,
         NoRow, NoRequest, Request
<1>2. TypeOK /\ Numbered /\ ThreadsInv /\ RunningInv /\ [Next]_vars
        => Numbered' /\ ThreadsInv' /\ RunningInv'
  <2> SUFFICES ASSUME TypeOK, Numbered, ThreadsInv, RunningInv, [Next]_vars
               PROVE  Numbered' /\ ThreadsInv' /\ RunningInv'
    OBVIOUS
  <2>1. Unpaused
    BY DEF RunningInv
  <2>2. \A j \in Jobs : Onward(j)
    BY <2>1, OnwardStep
  <2>3. Unpaused'
    BY <2>1, UnpausedStep
  <2>4. \A p \in Procs, j \in Jobs : ClaimAlone(p, j)'
    BY <2>2, AloneStep
  <2>5. \A j \in Jobs : row'[j].st = "running" => Attending(j)'
    BY <2>2, AttendingStep
  <2> QED
    BY <2>3, <2>4, <2>5, NumberedStep, ThreadsStep DEF RunningInv
<1>3. RunningInv => NoLostJob
  BY DEF RunningInv, NoLostJob, Attending, Spawning, WillEnd, Attended
<1> QED
  BY <1>1, <1>2, <1>3, TypeCorrect, PTL DEF Spec

-----------------------------------------------------------------------------
(* Counting.                                                               *)

LEMMA JobsFinite ==
  ASSUME NEW js \in SUBSET Jobs
  PROVE  IsFiniteSet(js) /\ Cardinality(js) \in Nat
<1>1. IsFiniteSet(js)
  BY JobsAssumption, FS_Subset
<1> QED
  BY <1>1, FS_CardinalityType

LEMMA SmallerCount ==
  ASSUME NEW js \in SUBSET Jobs, NEW ks \in SUBSET js
  PROVE  Cardinality(ks) <= Cardinality(js)
BY JobsFinite, FS_Subset

\* The jobs of js before j: there are fewer before an older one.
Before(js, j) == {k \in js : k < j}

LEMMA BeforeCount ==
  ASSUME NEW js \in SUBSET Jobs, NEW j
  PROVE  IsFiniteSet(Before(js, j)) /\ Cardinality(Before(js, j)) \in Nat
<1>1. Before(js, j) \in SUBSET Jobs
  BY DEF Before
<1> QED
  BY <1>1, JobsFinite

LEMMA FewerBefore ==
  ASSUME NEW js \in SUBSET Jobs, NEW i \in js, NEW j \in js, i < j
  PROVE  Cardinality(Before(js, i)) < Cardinality(Before(js, j))
<1>1. js \subseteq Nat
  BY JobsAssumption
<1>2. ASSUME NEW x \in Before(js, i)
      PROVE  x \in Before(js, j)
  <2>1. x \in Nat /\ i \in Nat /\ j \in Nat /\ x \in js /\ x < i
    BY <1>1, <1>2 DEF Before
  <2>2. x < j
    BY <2>1
  <2> QED
    BY <2>1, <2>2 DEF Before
<1>3. i \in Before(js, j)
  BY DEF Before
<1>4. i \notin Before(js, i)
  BY <1>1 DEF Before
<1>5. Before(js, i) \in SUBSET Before(js, j) /\ Before(js, i) # Before(js, j)
  BY <1>2, <1>3, <1>4
<1>6. /\ Cardinality(Before(js, i)) <= Cardinality(Before(js, j))
      /\ Cardinality(Before(js, i)) # Cardinality(Before(js, j))
  BY <1>5, BeforeCount, FS_Subset
<1> QED
  BY <1>6, BeforeCount

\* order_by(created_at).limit(n): at most n jobs, and with a job all older.
LEMMA OldestBounded ==
  ASSUME NEW js \in SUBSET Jobs, NEW n \in Nat
  PROVE  Cardinality(Oldest(js, n)) <= n
<1> DEFINE old  == Oldest(js, n)
           rank == [j \in old |-> Cardinality(Before(js, j)) + 1]
<1>1. \A j \in old : /\ j \in js /\ Cardinality(Before(js, j)) < n
                     /\ Cardinality(Before(js, j)) \in Nat
  BY BeforeCount DEF Oldest, Before
<1> HIDE DEF old
<1>2. rank \in [old -> 1..n]
  <2> SUFFICES ASSUME NEW j \in old
               PROVE  Cardinality(Before(js, j)) + 1 \in 1..n
    OBVIOUS
  <2>1. Cardinality(Before(js, j)) \in Nat /\ Cardinality(Before(js, j)) < n
    BY <1>1
  <2> QED
    BY <2>1
<1>3. ASSUME NEW i \in old, NEW j \in old, rank[i] = rank[j]
      PROVE  i = j
  <2>1. i \in Nat /\ j \in Nat /\ i \in js /\ j \in js
    BY <1>1, JobsAssumption
  <2>2. Cardinality(Before(js, i)) = Cardinality(Before(js, j))
    BY <1>1, <1>3
  <2>3. ~(i < j) /\ ~(j < i)
    BY <1>1, <2>1, <2>2, FewerBefore
  <2> QED
    BY <2>1, <2>3
<1> HIDE DEF rank
<1>4. rank \in Injection(old, 1..n)
  BY <1>2, <1>3 DEF Injection, IsInjective
<1>5. IsFiniteSet(1..n) /\ Cardinality(1..n) = n
  BY FS_Interval
<1>6. Cardinality(old) <= Cardinality(1..n)
  BY <1>4, <1>5, FS_Injection
<1> QED
  BY <1>5, <1>6 DEF old

LEMMA OldestClosed ==
  ASSUME NEW js \in SUBSET Jobs, NEW n \in Nat, NEW c \in Oldest(js, n),
         NEW k \in js, k < c
  PROVE  k \in Oldest(js, n)
<1>1. c \in js /\ Cardinality(Before(js, c)) < n
  BY DEF Oldest, Before
<1>2. Cardinality(Before(js, k)) < Cardinality(Before(js, c))
  BY <1>1, FewerBefore
<1>3. Cardinality(Before(js, k)) < n
  BY <1>1, <1>2, BeforeCount
<1> QED
  BY <1>3 DEF Oldest, Before

-----------------------------------------------------------------------------
(* The capacity of several processes.  The jobs that a queue runs are no   *)
(* more than its places in all processes, less the places that processes   *)
(* have counted as free and not filled yet.                                *)

\* How many more claims on queue q a scheduler in state s may commit before it
\* counts the running jobs again.
Unclaimed(s, q) ==
  IF s.queue # q THEN 0
  ELSE IF s.pc = "query" THEN s.slots
  ELSE IF s.pc \in {"claim", "write"} THEN Cardinality(s.cand)
  ELSE IF s.pc = "spawn" THEN Cardinality(s.cand) - 1
  ELSE 0

Places(q) == Procs \X (1..Concurrency[q])
Free(q)   == {x \in Places(q) : x[2] <= Unclaimed(sched[x[1]], q)}

FleetOK(q) ==
  /\ \A p \in Procs : Unclaimed(sched[p], q) <= Concurrency[q]
  /\ Cardinality(RowsOf(q, "running")) + Cardinality(Free(q))
       <= Cardinality(Procs) * Concurrency[q]

FleetInv ==
  /\ \A q \in Queues : FleetOK(q)
  /\ \A p \in Procs : OwnJobs(p)
  /\ \A a \in Admins : ctl[a].op # "resume"

LEMMA UnclaimedType ==
  ASSUME NEW s \in Sched, NEW q
  PROVE  /\ IsFiniteSet(s.cand) /\ Cardinality(s.cand) \in Nat
         /\ Unclaimed(s, q) \in Int
<1>1. s.cand \in SUBSET Jobs /\ s.slots \in Nat
  BY DEF Sched
<1>2. IsFiniteSet(s.cand) /\ Cardinality(s.cand) \in Nat
  BY <1>1, JobsFinite
<1> QED
  BY <1>1, <1>2 DEF Unclaimed

LEMMA PlacesCount ==
  ASSUME IsFiniteSet(Procs), NEW q \in Queues
  PROVE  /\ IsFiniteSet(Places(q)) /\ Concurrency[q] \in Nat
         /\ Cardinality(Procs) \in Nat
         /\ Cardinality(Places(q)) = Cardinality(Procs) * Concurrency[q]
<1> DEFINE c == Concurrency[q]
<1>1. c \in Nat \ {0}
  BY ConcurrencyAssumption
<1> HIDE DEF c
<1>2. IsFiniteSet(1..c) /\ Cardinality(1..c) = c
  BY <1>1, FS_Interval
<1>3. /\ IsFiniteSet(Procs \X (1..c))
      /\ Cardinality(Procs \X (1..c)) = Cardinality(Procs) * c
  BY <1>2, FS_Product
<1> QED
  BY <1>1, <1>3, FS_CardinalityType DEF Places, c

\* The parts that the steps below compare are finite.
LEMMA FleetParts ==
  ASSUME IsFiniteSet(Procs), NEW q \in Queues
  PROVE  /\ IsFiniteSet(Free(q)) /\ Cardinality(Free(q)) \in Nat
         /\ IsFiniteSet(Free(q)') /\ Cardinality(Free(q)') \in Nat
         /\ RowsOf(q, "running") \in SUBSET Jobs
         /\ Cardinality(RowsOf(q, "running")) \in Nat
         /\ RowsOf(q, "running")' \in SUBSET Jobs
         /\ Cardinality(RowsOf(q, "running")') \in Nat
<1>1. Free(q) \in SUBSET Places(q) /\ Free(q)' \in SUBSET Places(q)
  BY DEF Free, Places
<1>2. IsFiniteSet(Free(q)) /\ IsFiniteSet(Free(q)')
  BY <1>1, PlacesCount, FS_Subset
<1>3. RowsOf(q, "running") \in SUBSET Jobs /\ RowsOf(q, "running")' \in SUBSET Jobs
  BY DEF RowsOf
<1> QED
  BY <1>2, <1>3, JobsFinite, FS_CardinalityType

\* Places may only be given up and jobs end.
LEMMA FleetFewer ==
  ASSUME TypeOK, TypeOK', IsFiniteSet(Procs), NEW q \in Queues, FleetOK(q),
         RowsOf(q, "running")' \subseteq RowsOf(q, "running"),
         \A p \in Procs : \/ Unclaimed(sched'[p], q) <= Unclaimed(sched[p], q)
                          \/ Unclaimed(sched'[p], q) = 0
  PROVE  FleetOK(q)'
<1>0. /\ \A p \in Procs : /\ Unclaimed(sched[p], q) \in Int
                          /\ Unclaimed(sched'[p], q) \in Int
      /\ Concurrency[q] \in Nat /\ Cardinality(Procs) \in Nat
  BY UnclaimedType, PlacesCount DEF TypeOK
<1>1. \A p \in Procs : Unclaimed(sched'[p], q) <= Concurrency[q]
  BY <1>0 DEF FleetOK
<1>2. Free(q)' \in SUBSET Free(q)
  <2> SUFFICES ASSUME NEW x \in Free(q)'
               PROVE  x \in Free(q)
    OBVIOUS
  <2>1. /\ x \in Places(q) /\ x[1] \in Procs /\ x[2] \in 1..Concurrency[q]
        /\ x[2] <= Unclaimed(sched'[x[1]], q)
    BY DEF Free, Places
  <2>2. x[2] <= Unclaimed(sched[x[1]], q)
    BY <1>0, <2>1
  <2> QED
    BY <2>1, <2>2 DEF Free
<1>3. Cardinality(Free(q)') <= Cardinality(Free(q))
  BY <1>2, FleetParts, FS_Subset
<1>4. Cardinality(RowsOf(q, "running")') <= Cardinality(RowsOf(q, "running"))
  BY FleetParts, SmallerCount
<1>5. Cardinality(RowsOf(q, "running")') + Cardinality(Free(q)')
        <= Cardinality(Procs) * Concurrency[q]
  <2> DEFINE top == Cardinality(Procs) * Concurrency[q]
  <2>1. top \in Nat
    BY <1>0
  <2>2. Cardinality(RowsOf(q, "running")) + Cardinality(Free(q)) <= top
    BY DEF FleetOK
  <2> HIDE DEF top
  <2>3. Cardinality(RowsOf(q, "running")') + Cardinality(Free(q)') <= top
    BY <1>3, <1>4, <2>1, <2>2, FleetParts
  <2> QED
    BY <2>3 DEF top
<1> QED
  BY <1>1, <1>5 DEF FleetOK

\* A process counts the jobs that run, and takes the other places of its own.
LEMMA FleetCounted ==
  ASSUME TypeOK, TypeOK', IsFiniteSet(Procs), NEW q \in Queues, FleetOK(q),
         UNCHANGED row, NEW p \in Procs,
         \A x \in Procs : x # p => sched'[x] = sched[x],
         Cardinality(RowsOf(q, "running")) <= Concurrency[q],
         Unclaimed(sched'[p], q)
           = Concurrency[q] - Cardinality(RowsOf(q, "running"))
  PROVE  FleetOK(q)'
<1> DEFINE r     == Cardinality(RowsOf(q, "running"))
           c     == Concurrency[q]
           taken == {p} \X ((c - r + 1)..c)
<1>0. /\ c \in Nat /\ Cardinality(Procs) \in Nat /\ r \in Nat /\ r <= c
      /\ RowsOf(q, "running")' = RowsOf(q, "running")
      /\ Cardinality(Places(q)) = Cardinality(Procs) * c /\ IsFiniteSet(Places(q))
  BY PlacesCount, FleetParts DEF RowsOf
<1>1. \A x \in Procs : Unclaimed(sched'[x], q) <= c
  BY <1>0 DEF FleetOK
<1>2. Unclaimed(sched'[p], q) = c - r
  OBVIOUS
<1> HIDE DEF r, c
<1>3. IsFiniteSet(taken) /\ Cardinality(taken) = r
  <2> DEFINE mine == (c - r + 1)..c
  <2>1. IsFiniteSet(mine) /\ Cardinality(mine) = r
    <3> DEFINE a == c - r + 1
    <3>1. a \in Int /\ c \in Int /\ c - a + 1 = r /\ (a > c => r = 0)
      BY <1>0
    <3> HIDE DEF a
    <3>2. /\ IsFiniteSet(a..c)
          /\ Cardinality(a..c) = IF a > c THEN 0 ELSE c - a + 1
      BY <3>1, FS_Interval
    <3> QED
      BY <3>1, <3>2 DEF a
  <2> HIDE DEF mine
  <2>2. IsFiniteSet({p}) /\ Cardinality({p}) = 1
    BY FS_Singleton
  <2>3. /\ IsFiniteSet({p} \X mine)
        /\ Cardinality({p} \X mine) = Cardinality({p}) * Cardinality(mine)
    BY <2>1, <2>2, FS_Product
  <2>4. IsFiniteSet(taken) /\ Cardinality(taken) = 1 * r
    BY <2>1, <2>2, <2>3 DEF mine
  <2> QED
    BY <1>0, <2>4
<1>4. taken \subseteq Places(q)
  BY <1>0 DEF Places, c
<1>5. Free(q)' \in SUBSET (Places(q) \ taken)
  <2> SUFFICES ASSUME NEW x \in Free(q)'
               PROVE  x \in Places(q) /\ x \notin taken
    OBVIOUS
  <2>1. x \in Places(q) /\ x[2] <= Unclaimed(sched'[x[1]], q)
    BY DEF Free, Places
  <2>2. x[1] = p => x[2] <= c - r
    BY <1>2, <2>1
  <2>3. x \in taken => x[1] = p /\ x[2] \in (c - r + 1)..c
    OBVIOUS
  <2> QED
    BY <1>0, <2>1, <2>2, <2>3
<1> HIDE DEF taken
<1>6. /\ IsFiniteSet(Places(q) \ taken)
      /\ Cardinality(Places(q) \ taken) = Cardinality(Procs) * c - r
  <2>1. Places(q) \cap taken = taken
    BY <1>4
  <2>2. /\ IsFiniteSet(Places(q) \ taken)
        /\ Cardinality(Places(q) \ taken)
             = Cardinality(Places(q)) - Cardinality(Places(q) \cap taken)
    BY <1>0, FS_Difference
  <2> QED
    BY <1>0, <1>3, <2>1, <2>2
<1>7. Cardinality(Free(q)') <= Cardinality(Procs) * c - r
  BY <1>5, <1>6, FS_Subset
<1>8. r + Cardinality(Free(q)') <= Cardinality(Procs) * c
  <2> DEFINE top == Cardinality(Procs) * c
  <2>1. top \in Nat
    BY <1>0
  <2> HIDE DEF top
  <2> QED
    BY <1>0, <1>7, <2>1, FleetParts DEF top
<1> QED
  BY <1>0, <1>1, <1>8 DEF FleetOK, r, c

\* A claim is committed: a place is filled.
LEMMA FleetClaimed ==
  ASSUME TypeOK, TypeOK', IsFiniteSet(Procs), NEW q \in Queues, FleetOK(q),
         NEW p \in Procs, \A x \in Procs : x # p => sched'[x] = sched[x],
         Unclaimed(sched[p], q) >= 1,
         Unclaimed(sched'[p], q) = Unclaimed(sched[p], q) - 1,
         NEW j \in Jobs,
         RowsOf(q, "running")' \subseteq RowsOf(q, "running") \cup {j}
  PROVE  FleetOK(q)'
<1> DEFINE u == Unclaimed(sched[p], q)
<1>0. /\ \A x \in Procs : /\ Unclaimed(sched[x], q) \in Int
                          /\ Unclaimed(sched'[x], q) \in Int
      /\ Concurrency[q] \in Nat /\ Cardinality(Procs) \in Nat
  BY UnclaimedType, PlacesCount DEF TypeOK
<1>1. /\ \A x \in Procs : Unclaimed(sched'[x], q) <= Unclaimed(sched[x], q)
      /\ \A x \in Procs : Unclaimed(sched[x], q) <= Concurrency[q]
  BY <1>0 DEF FleetOK
<1>2. \A x \in Procs : Unclaimed(sched'[x], q) <= Concurrency[q]
  BY <1>0, <1>1
<1>3. <<p, u>> \in Free(q)
  <2>1. u \in 1..Concurrency[q]
    BY <1>0, <1>1
  <2> QED
    BY <1>0, <2>1 DEF Free, Places
<1>4. Free(q)' \in SUBSET (Free(q) \ {<<p, u>>})
  <2> SUFFICES ASSUME NEW x \in Free(q)'
               PROVE  x \in Free(q) /\ x # <<p, u>>
    OBVIOUS
  <2>1. /\ x \in Places(q) /\ x[1] \in Procs /\ x[2] \in 1..Concurrency[q]
        /\ x[2] <= Unclaimed(sched'[x[1]], q)
    BY DEF Free, Places
  <2>2. x[2] <= Unclaimed(sched[x[1]], q)
    BY <1>0, <1>1, <2>1
  <2>3. x[1] = p => x[2] # u
    BY <1>0, <2>1
  <2> QED
    BY <2>1, <2>2, <2>3 DEF Free
<1>5. Cardinality(Free(q)') <= Cardinality(Free(q)) - 1
  <2>1. /\ IsFiniteSet(Free(q) \ {<<p, u>>})
        /\ Cardinality(Free(q) \ {<<p, u>>}) = Cardinality(Free(q)) - 1
    BY <1>3, FleetParts, FS_RemoveElement
  <2> QED
    BY <1>4, <2>1, FS_Subset
<1>6. Cardinality(RowsOf(q, "running")') <= Cardinality(RowsOf(q, "running")) + 1
  <2> DEFINE rs == RowsOf(q, "running")
  <2>1. IsFiniteSet(rs) /\ Cardinality(rs) \in Nat /\ rs \in SUBSET Jobs
    BY FleetParts, JobsFinite
  <2>2. Cardinality(rs \cup {j}) <= Cardinality(rs) + 1
    <3>1. \/ Cardinality(rs \cup {j}) = Cardinality(rs)
          \/ Cardinality(rs \cup {j}) = Cardinality(rs) + 1
      BY <2>1, FS_AddElement
    <3> QED
      BY <2>1, <3>1
  <2>3. Cardinality(rs') <= Cardinality(rs \cup {j})
    BY <2>1, SmallerCount
  <2>4. Cardinality(rs \cup {j}) \in Nat /\ Cardinality(rs') \in Nat
    BY <2>1, FleetParts, JobsFinite
  <2> QED
    BY <2>1, <2>2, <2>3, <2>4
<1>7. Cardinality(RowsOf(q, "running")') + Cardinality(Free(q)')
        <= Cardinality(Procs) * Concurrency[q]
  <2> DEFINE top == Cardinality(Procs) * Concurrency[q]
  <2>1. top \in Nat
    BY <1>0
  <2>2. Cardinality(RowsOf(q, "running")) + Cardinality(Free(q)) <= top
    BY DEF FleetOK
  <2> HIDE DEF top
  <2>3. Cardinality(RowsOf(q, "running")') + Cardinality(Free(q)') <= top
    BY <1>5, <1>6, <2>1, <2>2, FleetParts
  <2> QED
    BY <2>3 DEF top
<1> QED
  BY <1>2, <1>7 DEF FleetOK

LEMMA TickFleet ==
  ASSUME TypeOK, TypeOK', IsFiniteSet(Procs), NEW q \in Queues, FleetOK(q),
         NEW p \in Procs, Ticks(p), \A x \in Procs : x # p => sched'[x] = sched[x]
  PROVE  FleetOK(q)'
<1>0. /\ sched[p] \in Sched /\ sched'[p] \in Sched /\ UNCHANGED row
      /\ \A x \in Procs : Unclaimed(sched[x], q) \in Int
  BY UnclaimedType
  DEF TypeOK, Ticks, TickStart, TickCount, TickEnd, TickQuery, QueueDone
<1>1. RowsOf(q, "running")' = RowsOf(q, "running")
  BY <1>0 DEF RowsOf
<1>2. ASSUME \/ Unclaimed(sched'[p], q) = 0
             \/ Unclaimed(sched'[p], q) <= Unclaimed(sched[p], q)
      PROVE  FleetOK(q)'
  <2>1. \A x \in Procs : \/ Unclaimed(sched'[x], q) <= Unclaimed(sched[x], q)
                         \/ Unclaimed(sched'[x], q) = 0
    BY <1>0, <1>2
  <2> QED
    BY <1>1, <2>1, FleetFewer
<1>3. CASE sched'[p].pc \in {"count", "idle"}
  BY <1>2, <1>3 DEF Unclaimed
<1>4. CASE /\ sched'[p].pc = "query"
           /\ sched'[p].slots = Concurrency[sched'[p].queue]
                - Cardinality(RowsOf(sched'[p].queue, "running"))
  <2>1. CASE sched'[p].queue = q
    <3>1. Unclaimed(sched'[p], q)
            = Concurrency[q] - Cardinality(RowsOf(q, "running"))
      BY <1>4, <2>1 DEF Unclaimed
    <3>2. Concurrency[q] - Cardinality(RowsOf(q, "running")) \in Nat
      BY <1>0, <1>4, <2>1 DEF Sched
    <3>3. Cardinality(RowsOf(q, "running")) <= Concurrency[q]
      BY <3>2, FleetParts, PlacesCount
    <3> QED
      BY <1>0, <3>1, <3>3, FleetCounted
  <2>2. CASE sched'[p].queue # q
    BY <1>2, <2>2 DEF Unclaimed
  <2> QED
    BY <2>1, <2>2
<1>5. CASE /\ sched[p].pc = "query" /\ sched'[p].pc = "claim"
           /\ sched'[p].queue = sched[p].queue
           /\ sched'[p].cand = Oldest(RowsOf(sched[p].queue, "queued"), sched[p].slots)
  <2>1. sched[p].slots \in Nat /\ RowsOf(sched[p].queue, "queued") \in SUBSET Jobs
    BY <1>0 DEF Sched, RowsOf
  <2>2. Cardinality(sched'[p].cand) <= sched[p].slots
    BY <1>5, <2>1, OldestBounded
  <2> QED
    BY <1>0, <1>2, <1>5, <2>2 DEF Unclaimed
<1> QED
  BY <1>3, <1>4, <1>5 DEF Ticks, SameQueue

LEMMA ClaimFleet ==
  ASSUME TypeOK, TypeOK', IsFiniteSet(Procs), NEW q \in Queues, FleetOK(q),
         NEW p \in Procs, OwnJobs(p), NEW j \in Jobs, SchedStep(p), Claims(p, j),
         \A x \in Procs : x # p => sched'[x] = sched[x]
  PROVE  FleetOK(q)'
<1>0. /\ sched[p] \in Sched /\ sched'[p] \in Sched
      /\ \A x \in Procs : Unclaimed(sched[x], q) \in Int
      /\ IsFiniteSet(sched[p].cand) /\ Cardinality(sched[p].cand) \in Nat
  BY UnclaimedType DEF TypeOK
<1>1. ASSUME \/ Unclaimed(sched'[p], q) = 0
             \/ Unclaimed(sched'[p], q) <= Unclaimed(sched[p], q),
             RowsOf(q, "running")' \subseteq RowsOf(q, "running")
      PROVE  FleetOK(q)'
  <2>1. \A x \in Procs : \/ Unclaimed(sched'[x], q) <= Unclaimed(sched[x], q)
                         \/ Unclaimed(sched'[x], q) = 0
    BY <1>0, <1>1
  <2> QED
    BY <1>1, <2>1, FleetFewer
<1>2. j \in sched[p].cand
      => Cardinality(sched[p].cand \ {j}) = Cardinality(sched[p].cand) - 1
  BY <1>0, FS_RemoveElement
<1>3. CASE sched'[p].pc = "idle"
  <2>1. \A k \in Jobs : row'[k].st = "running" => row[k].st = "running"
    BY <1>3, ClaimStatus DEF Claims, ClaimRead, ClaimSkip, Spawn
  <2>2. RowsOf(q, "running")' \subseteq RowsOf(q, "running")
    BY <2>1 DEF RowsOf
  <2> QED
    BY <1>1, <1>3, <2>2 DEF Unclaimed
<1>4. CASE /\ UNCHANGED row /\ sched'[p].queue = sched[p].queue
           /\ \/ /\ sched[p].pc = "claim" /\ sched'[p].pc = "write"
                 /\ sched'[p].cand = sched[p].cand
              \/ /\ sched[p].pc \in {"claim", "spawn"} /\ sched'[p].pc = "claim"
                 /\ j \in sched[p].cand
                 /\ sched'[p].cand = sched[p].cand \ {j}
  <2>1. RowsOf(q, "running")' = RowsOf(q, "running")
    BY <1>4 DEF RowsOf
  <2>2. Unclaimed(sched'[p], q) <= Unclaimed(sched[p], q)
    <3> DEFINE s  == sched[p]
               s1 == sched'[p]
               c  == Cardinality(s.cand)
               c1 == Cardinality(s1.cand)
    <3>1. /\ c \in Nat /\ s1.queue = s.queue
          /\ \/ s.pc = "claim" /\ s1.pc = "write" /\ c1 = c
             \/ s.pc \in {"claim", "spawn"} /\ s1.pc = "claim" /\ c1 = c - 1
      BY <1>0, <1>2, <1>4
    <3> HIDE DEF s, s1, c, c1
    <3>2. Unclaimed(s1, q) <= Unclaimed(s, q)
      <4>1. CASE s.queue # q
        BY <3>1, <4>1 DEF Unclaimed
      <4>2. CASE s.queue = q
        <5>1. Unclaimed(s, q) = (IF s.pc = "spawn" THEN c - 1 ELSE c)
          BY <3>1, <4>2 DEF Unclaimed, c
        <5>2. Unclaimed(s1, q) = c1
          BY <3>1, <4>2 DEF Unclaimed, c1
        <5> QED
          BY <3>1, <5>1, <5>2
      <4> QED
        BY <4>1, <4>2
    <3> QED
      BY <3>2 DEF s, s1
  <2> QED
    BY <1>1, <2>1, <2>2
<1>5. CASE /\ ClaimWrite(p, j)
           /\ sched[p].pc = "write" /\ sched'[p].pc = "spawn"
           /\ sched'[p].queue = sched[p].queue /\ sched'[p].cand = sched[p].cand
  <2>1. j \in sched[p].cand /\ QueueOf[j] = sched[p].queue
    BY <1>5 DEF ClaimWrite, IsNext, OwnJobs
  <2>2. \A k \in Jobs : row'[k].st = "running" => k = j \/ row[k].st = "running"
    BY <1>5, ClaimStatus
  <2>3. CASE sched[p].queue = q
    <3>1. Cardinality(sched[p].cand) # 0
      BY <1>0, <2>1, FS_EmptySet
    <3>2. /\ Unclaimed(sched[p], q) >= 1
          /\ Unclaimed(sched'[p], q) = Unclaimed(sched[p], q) - 1
      BY <1>0, <1>5, <2>3, <3>1 DEF Unclaimed
    <3>3. RowsOf(q, "running")' \subseteq RowsOf(q, "running") \cup {j}
      BY <2>2 DEF RowsOf
    <3> QED
      BY <3>2, <3>3, FleetClaimed
  <2>4. CASE sched[p].queue # q
    <3>1. RowsOf(q, "running")' \subseteq RowsOf(q, "running")
      BY <2>1, <2>2, <2>4 DEF RowsOf
    <3> QED
      BY <1>1, <1>5, <2>4, <3>1 DEF Unclaimed
  <2> QED
    BY <2>3, <2>4
<1> QED
  BY <1>3, <1>4, <1>5
  DEF Claims, SameQueue, ClaimRead, ClaimSkip, ClaimWrite, Spawn, IsNext

\* Nothing but a claim and a resume makes a row running.
LEMMA OnlyClaimsRun ==
  ASSUME TypeOK, [Next]_vars, \A a \in Admins : ctl[a].op # "resume",
         \A p \in Procs : ~SchedStep(p), NEW k \in Jobs, row'[k].st = "running"
  PROVE  row[k].st = "running"
<1>0. SharedTypes
  BY TypeParts
<1>1. ASSUME NEW j \in Jobs, Enqueue(j)
      PROVE  row[k].st = "running"
  <2>1. [row[j] EXCEPT !.st = "queued"].st = "queued"
    BY DEF TypeOK, Row
  <2> QED
    BY <1>0, <1>1, <2>1, SetRowStatus DEF Enqueue
<1>2. ASSUME NEW a \in Admins, NEW j \in Jobs, ControlWrite(a, j)
      PROVE  row[k].st = "running"
  <2> DEFINE op   == ctl[a].op
             seen == ctl[a].seen
             new  == Controlled(op, seen)
  <2>1. op \in {"pause", "stop"} /\ seen \in Row
    BY <1>2 DEF ControlWrite, TypeOK, Ctl, JobOps
  <2>2. Flush(j, seen, new, Stamps(op, seen)) /\ "st" \notin Stamps(op, seen)
    BY <1>2 DEF ControlWrite, Stamps
  <2>3. new.st \in {seen.st, "stopped", "paused"}
    <3> HIDE DEF op, seen
    <3> QED
      BY <2>1 DEF Controlled, Row
  <2> HIDE DEF new
  <2> QED
    BY <1>0, <2>2, <2>3, FlushStatus
<1>3. ASSUME NEW a \in Admins, ControlStep(a)
      PROVE  row[k].st = "running"
  BY <1>2, <1>3, DeleteStatus
  DEF ControlStep, ControlRead, CleanupAll, CleanupRead, CleanupWrite, QueuePause
<1>4. ASSUME \/ \E p \in Procs : Crash(p) \/ Restart(p)
             \/ UNCHANGED vars
      PROVE  row' = row
  BY <1>4 DEF Crash, Restart, vars
<1> QED
  BY <1>0, <1>1, <1>3, <1>4, RunnerStatus, HandlerStatus DEF Next

LEMMA FleetStep ==
  ASSUME TypeOK, TypeOK', FleetInv, [Next]_vars, IsFiniteSet(Procs),
         "resume" \notin Controls
  PROVE  FleetInv'
<1>1. \A p \in Procs : OwnJobs(p)'
  BY OwnJobsStep DEF FleetInv
<1>2. \A a \in Admins : ctl'[a].op # "resume"
  <2>1. CASE UNCHANGED ctl
    BY <2>1 DEF FleetInv
  <2>2. ASSUME NEW a \in Admins, ControlStep(a)
        PROVE  \A b \in Admins : ctl'[b].op # "resume"
    <3>1. ASSUME NEW c, SetCtl(a, c), c.op # "resume"
          PROVE  \A b \in Admins : ctl'[b].op # "resume"
      BY <3>1 DEF SetCtl, FleetInv, TypeOK
    <3> QED
      BY <2>2, <3>1
      DEF ControlStep, ControlRead, ControlWrite, CleanupAll, CleanupRead,
          CleanupWrite, QueuePause, Request, Answered
  <2>3. ASSUME NEW p \in Procs, NEW j \in Jobs, RunnerStep(p, j)
        PROVE  UNCHANGED ctl
    BY <2>3, TypeParts, RunnerFields
  <2>4. ASSUME NEW j \in Jobs, NEW n \in Starts, HandlerStep(j, n)
        PROVE  UNCHANGED ctl
    BY <2>4 DEF HandlerStep, HandlerPoll, HandlerWait, HandlerHalt, HandlerWork,
                HandlerReturn, HandlerRaise, HandlerUnchanged
  <2>5. ASSUME NEW p \in Procs, SchedStep(p)
        PROVE  UNCHANGED ctl
    BY <2>5 DEF SchedStep, TickStart, TickCount, TickEnd, TickQuery, QueueDone,
                ClaimRead, ClaimSkip, ClaimWrite, Spawn, SchedUnchanged
  <2>6. ASSUME \/ \E j \in Jobs : Enqueue(j)
               \/ \E p \in Procs : Crash(p) \/ Restart(p)
               \/ UNCHANGED vars
        PROVE  UNCHANGED ctl
    BY <2>6 DEF Enqueue, Crash, Restart, vars
  <2> QED
    BY <2>1, <2>2, <2>3, <2>4, <2>5, <2>6 DEF Next
<1>3. ASSUME NEW q \in Queues
      PROVE  FleetOK(q)'
  <2>1. FleetOK(q) /\ \A p \in Procs : OwnJobs(p)
    BY DEF FleetInv
  <2>2. ASSUME NEW p \in Procs, SchedStep(p)
        PROVE  FleetOK(q)'
    BY <2>1, <2>2, SchedFields, TickFleet, ClaimFleet
  <2>3. CASE \A p \in Procs : ~SchedStep(p)
    <3>1. RowsOf(q, "running")' \subseteq RowsOf(q, "running")
      <4>1. \A k \in Jobs : row'[k].st = "running" => row[k].st = "running"
        BY <2>3, OnlyClaimsRun DEF FleetInv
      <4> QED
        BY <4>1 DEF RowsOf
    <3>2. ASSUME NEW p \in Procs
          PROVE  sched'[p] = sched[p] \/ sched'[p].pc = "idle"
      <4>1. ASSUME NEW x \in Procs, Crash(x)
            PROVE  sched'[p] = sched[p] \/ sched'[p].pc = "idle"
        BY <4>1 DEF Crash, TypeOK, Idle
      <4> QED
        BY <2>3, <4>1, SchedKept DEF Next, vars
    <3>3. \A p \in Procs : \/ Unclaimed(sched'[p], q) <= Unclaimed(sched[p], q)
                           \/ Unclaimed(sched'[p], q) = 0
      <4>1. \A p \in Procs : Unclaimed(sched[p], q) \in Int
        BY UnclaimedType DEF TypeOK
      <4>2. \A p \in Procs : sched'[p].pc = "idle" => Unclaimed(sched'[p], q) = 0
        BY DEF Unclaimed
      <4> QED
        BY <3>2, <4>1, <4>2
    <3> QED
      BY <2>1, <3>1, <3>3, FleetFewer
  <2> QED
    BY <2>2, <2>3
<1> QED
  BY <1>1, <1>2, <1>3 DEF FleetInv

\* However many processes count the slots of a queue and claim its jobs at
\* once, with retries, pauses, stops, cleanups and crashes in between, the
\* queue runs no more jobs than its concurrency in each of them, unless a job
\* is resumed, which takes no slot (_tick, _mark_job_running).
THEOREM FleetIsBounded ==
  ASSUME IsFiniteSet(Procs), "resume" \notin Controls
  PROVE  Spec => []FleetBounded
<1>1. Init => FleetInv
  <2> SUFFICES ASSUME Init
               PROVE  FleetInv
    OBVIOUS
  <2>1. /\ \A p \in Procs : sched[p].pc = "idle"
        /\ \A a \in Admins : ctl[a].op = "idle"
        /\ \A j \in Jobs : row[j].st = "none"
    BY DEF Init, Idle, NoRequest, Request, NoRow
  <2>2. ASSUME NEW q \in Queues
        PROVE  FleetOK(q)
    <3>1. \A p \in Procs : Unclaimed(sched[p], q) = 0
      BY <2>1 DEF Unclaimed
    <3>2. Concurrency[q] \in Nat /\ Cardinality(Procs) \in Nat
      BY PlacesCount
    <3>3. RowsOf(q, "running") = {}
      BY <2>1 DEF RowsOf
    <3>4. Free(q) = {}
      BY <3>1, <3>2 DEF Free, Places
    <3>5. Cardinality(RowsOf(q, "running")) = 0 /\ Cardinality(Free(q)) = 0
      BY <3>3, <3>4, FS_EmptySet
    <3>6. Cardinality(Procs) * Concurrency[q] \in Nat
      BY <3>2
    <3> QED
      BY <3>1, <3>2, <3>5, <3>6 DEF FleetOK
  <2> QED
    BY <2>1, <2>2 DEF FleetInv, OwnJobs
<1>2. TypeOK /\ TypeOK' /\ FleetInv /\ [Next]_vars => FleetInv'
  BY FleetStep
<1>3. FleetInv => FleetBounded
  <2> SUFFICES ASSUME FleetInv, NEW q \in Queues
               PROVE  Cardinality(RowsOf(q, "running"))
                        <= Cardinality(Procs) * Concurrency[q]
    BY DEF FleetBounded
  <2> DEFINE top == Cardinality(Procs) * Concurrency[q]
  <2>1. top \in Nat
    BY PlacesCount
  <2>2. Cardinality(RowsOf(q, "running")) + Cardinality(Free(q)) <= top
    BY DEF FleetInv, FleetOK
  <2> HIDE DEF top
  <2>3. Cardinality(RowsOf(q, "running")) <= top
    BY <2>1, <2>2, FleetParts
  <2> QED
    BY <2>3 DEF top
<1> QED
  BY <1>1, <1>2, <1>3, TypeCorrect, PTL DEF Spec

=============================================================================
