------------------------------ MODULE RedisProofs ------------------------------
(***************************************************************************)
(* Invariants of the Redis runtime, for any jobs, queues, workers, requests*)
(* and scenes.  They are proved for RedisMove, the steps of RedisNext and  *)
(* the faults that only a composition knows.                               *)
(***************************************************************************)
EXTENDS RedisRuntime, JobRuntimeProofs, SequenceTheorems

\* A fault that hits another part of the system leaves the runtime alone.
FaultElsewhere ==
  Fault /\ UNCHANGED <<vars, scene, list, push, reread, lost>>

RedisMove == RedisNext \/ FaultElsewhere \/ UNCHANGED allVars

-----------------------------------------------------------------------------
(* Types.                                                                  *)

Worker == [pc    : {"idle", "count", "claim", "write", "spawn", "putback"},
           todo  : SUBSET Queues,
           queue : Queues,
           slots : Nat,
           cand  : SUBSET Jobs,
           fresh : BOOLEAN,
           held  : {"open", "paused", "expired"},
           seen  : Row]

Holding == {"claim", "write", "spawn", "putback"}

\* A worker that holds an id holds one, of the queue it popped; it has not
\* counted while it reads; and it only goes on to write for a queued row.
Regular(w) ==
  /\ w.pc \in Holding => \E j \in Jobs : w.cand = {j} /\ QueueOf[j] = w.queue
  /\ w.pc \notin Holding => w.cand = {}
  /\ w.pc = "claim" => w.slots = 0
  /\ w.pc = "write" => w.seen.st = "queued"

WorkersOK ==
  /\ sched \in [Procs -> Worker]
  /\ \A p \in Procs : Regular(sched[p])

ListsOK ==
  /\ list \in [Queues -> Seq(Jobs)]
  /\ \A q \in Queues : \A j \in Range(list[q]) : QueueOf[j] = q

PushesOK ==
  /\ push \in [Pushers -> SUBSET Jobs]
  /\ reread \subseteq Admins \X Jobs

AccountOK ==
  /\ scene \in Scenes
  /\ lost \subseteq Queued
  /\ faults \in 0..scene.faults

RedisTypes ==
  /\ SharedTypes
  /\ WorkersOK
  /\ ListsOK
  /\ PushesOK
  /\ AccountOK

\* The invariant says what the model's type invariant says.
LEMMA TypesSuffice == RedisTypes => RedisTypeOK
<1> SUFFICES ASSUME RedisTypes
             PROVE  RedisTypeOK
  OBVIOUS
<1>1. ASSUME NEW p \in Procs
      PROVE  /\ sched[p].pc \in {"idle", "count", "claim", "write", "spawn", "putback"}
             /\ sched[p].pc \in {"claim", "write", "spawn", "putback"}
                  <=> Cardinality(sched[p].cand) = 1
  <2>1. sched[p] \in Worker /\ Regular(sched[p])
    BY DEF RedisTypes, WorkersOK
  <2>2. CASE sched[p].pc \in Holding
    <3>1. PICK j \in Jobs : sched[p].cand = {j}
      BY <2>1, <2>2 DEF Regular
    <3>2. Cardinality(sched[p].cand) = 1
      BY <3>1, FS_Singleton
    <3> QED
      BY <2>1, <2>2, <3>2 DEF Worker, Holding
  <2>3. CASE sched[p].pc \notin Holding
    <3>1. sched[p].cand = {}
      BY <2>1, <2>3 DEF Regular
    <3>2. Cardinality(sched[p].cand) = 0
      BY <3>1, FS_EmptySet
    <3> QED
      BY <2>1, <2>3, <3>2 DEF Worker, Holding
  <2> QED
    BY <2>2, <2>3
<1> QED
  BY <1>1 DEF RedisTypeOK, RedisTypes, SharedTypes, ListsOK, PushesOK, AccountOK

\* The ids on a list, when one is pushed or popped.
LEMMA PushedIds ==
  ASSUME NEW s \in Seq(Jobs), NEW j \in Jobs
  PROVE  /\ Append(s, j) \in Seq(Jobs)
         /\ Range(Append(s, j)) = Range(s) \cup {j}
<1>1. ASSUME NEW x \in Range(Append(s, j))
      PROVE  x \in Range(s) \cup {j}
  BY <1>1 DEF Range
<1>2. ASSUME NEW x \in Range(s)
      PROVE  x \in Range(Append(s, j))
  <2>1. PICK i \in 1..Len(s) : x = s[i]
    BY <1>2 DEF Range
  <2>2. Append(s, j)[i] = x /\ i \in DOMAIN Append(s, j)
    BY <2>1
  <2> QED
    BY <2>2 DEF Range
<1>3. j \in Range(Append(s, j))
  <2>1. Append(s, j)[Len(s) + 1] = j /\ Len(s) + 1 \in DOMAIN Append(s, j)
    OBVIOUS
  <2> QED
    BY <2>1 DEF Range
<1> QED
  BY <1>1, <1>2, <1>3

LEMMA PoppedIds ==
  ASSUME NEW s \in Seq(Jobs), s # <<>>
  PROVE  /\ Head(s) \in Jobs
         /\ Tail(s) \in Seq(Jobs)
         /\ Range(s) = Range(Tail(s)) \cup {Head(s)}
<1>1. Head(s) \in Jobs /\ Tail(s) \in Seq(Jobs) /\ Head(s) = s[1] /\ Len(s) > 0
  BY HeadTailProperties
<1>2. ASSUME NEW x \in Range(s)
      PROVE  x \in Range(Tail(s)) \cup {Head(s)}
  <2>1. PICK i \in 1..Len(s) : x = s[i]
    BY <1>2 DEF Range
  <2>2. CASE i = 1
    BY <1>1, <2>1, <2>2
  <2>3. CASE i # 1
    <3>1. i - 1 \in 1..(Len(s) - 1)
      BY <2>1, <2>3, <1>1
    <3>2. Tail(s)[i - 1] = x /\ i - 1 \in DOMAIN Tail(s)
      BY <1>1, <2>1, <3>1
    <3> QED
      BY <3>2 DEF Range
  <2> QED
    BY <2>2, <2>3
<1>3. ASSUME NEW x \in Range(Tail(s))
      PROVE  x \in Range(s)
  <2>1. PICK i \in 1..Len(Tail(s)) : x = Tail(s)[i]
    BY <1>1, <1>3 DEF Range
  <2>2. s[i + 1] = x /\ i + 1 \in DOMAIN s
    BY <1>1, <2>1
  <2> QED
    BY <2>2 DEF Range
<1>4. Head(s) \in Range(s)
  <2>1. 1 \in DOMAIN s
    BY <1>1
  <2> QED
    BY <1>1, <2>1 DEF Range
<1> QED
  BY <1>1, <1>2, <1>3, <1>4

LEMMA NoIds == Range(<<>>) = {}
  BY DEF Range

-----------------------------------------------------------------------------
(* The steps of a worker.                                                  *)

LEMMA IdleWorker == Idle \in Worker /\ Regular(Idle)
<1>1. Idle \in Worker
  BY InitialTypes, NonEmptyAssumption DEF Idle, Worker
<1> QED
  BY <1>1 DEF Regular, Idle, Holding

LEMMA WorkerSet ==
  ASSUME WorkersOK, NEW p \in Procs, NEW w \in Worker, Regular(w), SetSched(p, w)
  PROVE  WorkersOK'
<1>1. sched' \in [Procs -> Worker]
  BY DEF SetSched, WorkersOK
<1>2. ASSUME NEW x \in Procs
      PROVE  Regular(sched'[x])
  BY DEF SetSched, WorkersOK
<1> QED
  BY <1>1, <1>2 DEF WorkersOK

\* Where the next state of a worker comes from, step by step.
LEMMA WorkerSteps ==
  ASSUME RedisTypes, NEW p \in Procs, LoopStep(p) \/ LoopFails(p)
  PROVE  \E w \in Worker : Regular(w) /\ SetSched(p, w)
<1>0. sched[p] \in Worker /\ Regular(sched[p])
  BY DEF RedisTypes, WorkersOK
<1>i. CASE SetSched(p, Idle)
  BY <1>i, IdleWorker
<1>1. CASE LoopStart(p)
  <2> DEFINE w == [Idle EXCEPT !.pc = "count",
                               !.todo = {q \in Queues : ~qpaused[q]}]
  <2>1. SetSched(p, w)
    BY <1>1 DEF LoopStart, TickStart
  <2>2. /\ w \in Worker /\ w.pc = "count" /\ w.cand = {}
    BY IdleWorker DEF Worker, Idle
  <2> HIDE DEF w
  <2>3. Regular(w)
    BY <2>2 DEF Regular, Holding
  <2> QED
    BY <2>1, <2>2, <2>3
<1>2. ASSUME NEW q \in Queues, Pop(p, q)
      PROVE  \E w \in Worker : Regular(w) /\ SetSched(p, w)
  <2> DEFINE w == [Idle EXCEPT !.pc = "claim", !.queue = q, !.held = "expired",
                              !.cand = {Head(list[q])}]
  <2>1. SetSched(p, w) /\ list[q] # <<>>
    BY <1>2 DEF Pop, Filled
  <2>2. list[q] \in Seq(Jobs)
    BY DEF RedisTypes, ListsOK
  <2>3. Head(list[q]) \in Jobs /\ QueueOf[Head(list[q])] = q
    BY <2>1, <2>2, PoppedIds DEF RedisTypes, ListsOK
  <2>4. /\ w \in Worker /\ w.pc = "claim" /\ w.cand = {Head(list[q])}
        /\ w.queue = q /\ w.slots = 0
    BY <2>3, IdleWorker DEF Worker, Idle
  <2> HIDE DEF w
  <2>5. Regular(w)
    BY <2>3, <2>4 DEF Regular, Holding
  <2> QED
    BY <2>1, <2>4, <2>5
<1>3. ASSUME NEW j \in Jobs, MarkRead(p, j)
      PROVE  \E w \in Worker : Regular(w) /\ SetSched(p, w)
  <2> DEFINE w == [sched[p] EXCEPT !.pc = "write", !.seen = row[j]]
  <2>1. /\ SetSched(p, w) /\ sched[p].pc = "claim"
        /\ row[j].st = "queued" /\ row[j] \in Row
    BY <1>3 DEF MarkRead, ClaimRead, Claimable, RedisTypes, SharedTypes
  <2>2. /\ w \in Worker /\ w.pc = "write" /\ w.cand = sched[p].cand
        /\ w.queue = sched[p].queue /\ w.seen = row[j]
    BY <1>0, <2>1 DEF Worker
  <2> HIDE DEF w
  <2>3. Regular(w)
    BY <1>0, <2>1, <2>2 DEF Regular, Holding
  <2> QED
    BY <2>1, <2>2, <2>3
<1>4. ASSUME NEW j \in Jobs, MarkRefused(p, j)
      PROVE  \E w \in Worker : Regular(w) /\ SetSched(p, w)
  <2> DEFINE w == [sched[p] EXCEPT !.pc = "putback"]
  <2>1. SetSched(p, w) /\ sched[p].pc = "claim"
    BY <1>4 DEF MarkRefused
  <2>2. /\ w \in Worker /\ w.pc = "putback" /\ w.cand = sched[p].cand
        /\ w.queue = sched[p].queue
    BY <1>0, <2>1 DEF Worker
  <2> HIDE DEF w
  <2>3. Regular(w)
    BY <1>0, <2>1, <2>2 DEF Regular, Holding
  <2> QED
    BY <2>1, <2>2, <2>3
<1>5. CASE MarkCount(p)
  <2> DEFINE slots   == Slots(sched[p].queue)
             counted == [sched[p] EXCEPT !.slots = slots]
             refused == [sched[p] EXCEPT !.pc = "putback", !.seen = NoRow]
             w       == IF slots > 0 THEN counted ELSE refused
  <2>1. SetSched(p, w) /\ sched[p].pc = "write"
    BY <1>5 DEF MarkCount
  <2>2. slots \in Nat
    <3>1. sched[p].queue \in Queues
      BY <1>0 DEF Worker
    <3>2. /\ Concurrency[sched[p].queue] \in Nat
          /\ Cardinality(RowsOf(sched[p].queue, "running")) \in Nat
      BY <3>1, ConcurrencyAssumption, CountType
    <3> QED
      BY <3>2 DEF Slots
  <2> HIDE DEF slots
  <2>3. /\ counted \in Worker /\ counted.pc = "write"
        /\ counted.cand = sched[p].cand /\ counted.queue = sched[p].queue
        /\ counted.seen = sched[p].seen
    BY <1>0, <2>1, <2>2 DEF Worker
  <2>4. /\ refused \in Worker /\ refused.pc = "putback"
        /\ refused.cand = sched[p].cand /\ refused.queue = sched[p].queue
    BY <1>0, InitialTypes DEF Worker
  <2> HIDE DEF counted, refused
  <2>5. Regular(counted) /\ Regular(refused)
    BY <1>0, <2>1, <2>3, <2>4 DEF Regular, Holding
  <2>6. w \in Worker /\ Regular(w)
    BY <2>3, <2>4, <2>5
  <2> QED
    BY <2>1, <2>6
<1>6. ASSUME NEW j \in Jobs, MarkWrite(p, j)
      PROVE  \E w \in Worker : Regular(w) /\ SetSched(p, w)
  <2> DEFINE w == [sched[p] EXCEPT !.pc = "spawn", !.fresh = TRUE,
                                   !.held = "expired", !.seen = NoRow]
  <2>1. /\ SetSched(p, IF Exists(row[j]) THEN w ELSE Idle)
        /\ sched[p].pc = "write"
    BY <1>6 DEF MarkWrite, ClaimWrite
  <2>2. /\ w \in Worker /\ w.pc = "spawn" /\ w.cand = sched[p].cand
        /\ w.queue = sched[p].queue
    BY <1>0, InitialTypes DEF Worker
  <2> HIDE DEF w
  <2>3. Regular(w)
    BY <1>0, <2>1, <2>2 DEF Regular, Holding
  <2> QED
    BY <1>i, <2>1, <2>2, <2>3
<1> QED
  BY <1>i, <1>1, <1>2, <1>3, <1>4, <1>5, <1>6
  DEF LoopStep, LoopFails, PopNothing, SpawnPopped, PutBack

-----------------------------------------------------------------------------
(* What each kind of step may make of the status of a row; the steps of the*)
(* threads and the controls are those of the database backend.             *)

\* A worker that may claim marks its candidate running.
LEMMA MarkStatus ==
  ASSUME RedisTypes, NEW p \in Procs, NEW j \in Jobs, MarkWrite(p, j)
  PROVE  \A k \in Jobs :
           row'[k].st = IF k = j /\ Exists(row[j]) THEN "running" ELSE row[k].st
<1> DEFINE seen == sched[p].seen
           new  == [seen EXCEPT !.st = "running", !.started = TRUE]
<1>1. sched[p] \in Worker /\ Regular(sched[p]) /\ SharedTypes
  BY DEF RedisTypes, WorkersOK
<1>2. seen \in Row /\ seen.st = "queued"
  BY <1>1 DEF Worker, Regular, MarkWrite, ClaimWrite
<1>3. Flush(j, seen, new, {"started"})
  BY DEF MarkWrite, ClaimWrite
<1> HIDE DEF seen
<1>4. new.st = "running"
  BY <1>2 DEF Row
<1> HIDE DEF new
<1> QED
  BY <1>1, <1>2, <1>3, <1>4, FlushStatus

-----------------------------------------------------------------------------
(* Every step keeps the types.                                             *)

LEMMA LoopShared ==
  ASSUME RedisTypes, NEW p \in Procs, LoopStep(p) \/ LoopFails(p)
  PROVE  SharedTypes'
<1>0. SharedTypes
  BY DEF RedisTypes
<1>1. ASSUME NEW j \in Jobs, MarkWrite(p, j)
      PROVE  SharedTypes'
  <2> DEFINE seen == sched[p].seen
             new  == [seen EXCEPT !.st = "running", !.started = TRUE]
  <2>1. seen \in Row /\ row[j] \in Row
    <3>1. sched[p] \in Worker
      BY DEF RedisTypes, WorkersOK
    <3> QED
      BY <1>0, <3>1 DEF Worker, SharedTypes
  <2>2. SetRow(j, Flushed(row[j], seen, new, {"started"}))
    BY <1>1 DEF MarkWrite, ClaimWrite, Flush
  <2> HIDE DEF seen
  <2>3. new \in Row
    BY <2>1 DEF Row, Statuses, LiveStatuses
  <2> HIDE DEF new
  <2>4. row' \in [Jobs -> Row]
    BY <1>0, <2>1, <2>2, <2>3, FlushedType, AssignedTypes
  <2> QED
    BY <1>0, <1>1, <2>4 DEF MarkWrite, ClaimWrite, SharedTypes, SchedUnchanged
<1>2. ASSUME NEW j \in Jobs, SpawnPopped(p, j)
      PROVE  SharedTypes'
  <2>1. inflight' \in [Procs -> SUBSET Jobs]
    BY <1>0, <1>2 DEF SpawnPopped, SharedTypes
  <2>2. runner' \in [Procs -> [Jobs -> Runner]]
    <3>1. CASE UNCHANGED runner
      BY <1>0, <3>1 DEF SharedTypes
    <3>2. CASE RunnerAt(p, j, "start")
      BY <1>0, <3>2, RunnerAtType
    <3> QED
      BY <1>2, <3>1, <3>2 DEF SpawnPopped
  <2> QED
    BY <1>0, <1>2, <2>1, <2>2 DEF SpawnPopped, SharedTypes, SchedUnchanged
<1>3. CASE UNCHANGED <<row, inflight, runner>> /\ SchedUnchanged
  BY <1>0, <1>3 DEF SharedTypes, SchedUnchanged
<1> QED
  BY <1>1, <1>2, <1>3
  DEF LoopStep, LoopFails, LoopStart, TickStart, Pop, PopNothing, MarkRead,
      ClaimRead, MarkRefused, MarkCount, PutBack

LEMMA AdminShared ==
  ASSUME SharedTypes, NEW a \in Admins, AdminStep(a)
  PROVE  SharedTypes'
<1>1. CASE ControlStep(a)
  BY <1>1, ControlStepType
<1>2. CASE UNCHANGED vars
  BY <1>2 DEF SharedTypes, vars
<1>3. CASE FlushNamespace(a)
  BY <1>3, InitialTypes DEF FlushNamespace, SetCtl, SharedTypes, CtlUnchanged
<1> QED
  BY <1>1, <1>2, <1>3
  DEF AdminStep, JobControl, Cleanup, Reread, PauseQueue, ControlStep

LEMMA SharedMove ==
  ASSUME RedisTypes, RedisMove
  PROVE  SharedTypes'
<1>0. SharedTypes
  BY DEF RedisTypes
<1>1. CASE UNCHANGED vars
  BY <1>0, <1>1 DEF SharedTypes, vars
<1>2. CASE RedisStep
  BY <1>0, <1>1, <1>2, LoopShared, AdminShared, ProcessStepType
  DEF RedisStep, Push, PushFails, CrashWorker, RestartWorker
<1>3. CASE ThreadStep
  BY <1>0, <1>3, RunnerStepType, HandlerStepType DEF ThreadStep
<1>4. CASE \E j \in Jobs : EnqueueJob(j)
  BY <1>0, <1>4, EnqueueType DEF EnqueueJob
<1> QED
  BY <1>1, <1>2, <1>3, <1>4 DEF RedisMove, RedisNext, FaultElsewhere, allVars

\* Which steps move a worker.
LEMMA WorkersKept ==
  ASSUME RedisMove,
         ~ \E p \in Procs : LoopStep(p) \/ LoopFails(p) \/ CrashWorker(p)
  PROVE  UNCHANGED sched
<1>1. CASE UNCHANGED vars
  BY <1>1 DEF vars
<1>2. CASE ThreadStep \/ \E j \in Jobs : EnqueueJob(j)
  BY <1>2, SchedKept DEF ThreadStep, EnqueueJob
<1>3. ASSUME NEW a \in Admins, AdminStep(a)
      PROVE  UNCHANGED sched
  <2>1. CASE ControlStep(a)
    BY <2>1, SchedKept
  <2> QED
    BY <1>1, <1>3, <2>1
    DEF AdminStep, JobControl, Cleanup, Reread, PauseQueue, ControlStep,
        FlushNamespace, CtlUnchanged
<1> QED
  BY <1>1, <1>2, <1>3
  DEF RedisMove, RedisNext, RedisStep, FaultElsewhere, Push, PushFails,
      RestartWorker, Restart, allVars

LEMMA WorkersMove ==
  ASSUME RedisTypes, RedisMove
  PROVE  WorkersOK'
<1>0. WorkersOK
  BY DEF RedisTypes
<1>1. ASSUME NEW p \in Procs, LoopStep(p) \/ LoopFails(p)
      PROVE  WorkersOK'
  BY <1>0, <1>1, WorkerSteps, WorkerSet
<1>2. ASSUME NEW p \in Procs, CrashWorker(p)
      PROVE  WorkersOK'
  BY <1>0, <1>2, IdleWorker, WorkerSet DEF CrashWorker, Crash, SetSched
<1>3. CASE UNCHANGED sched
  BY <1>0, <1>3 DEF WorkersOK
<1> QED
  BY <1>1, <1>2, <1>3, WorkersKept

LEMMA ListsMove ==
  ASSUME RedisTypes, RedisMove
  PROVE  ListsOK'
<1>0. ListsOK
  BY DEF RedisTypes
<1>1. ASSUME NEW q \in Queues, NEW s \in Seq(Jobs),
             \A j \in Range(s) : QueueOf[j] = q,
             list' = [list EXCEPT ![q] = s]
      PROVE  ListsOK'
  <2>1. \A r \in Queues : list'[r] = IF r = q THEN s ELSE list[r]
    BY <1>0, <1>1 DEF ListsOK
  <2>2. list' \in [Queues -> Seq(Jobs)]
    BY <1>0, <1>1 DEF ListsOK
  <2>3. ASSUME NEW r \in Queues, NEW j \in Range(list'[r])
        PROVE  QueueOf[j] = r
    <3>1. CASE r = q
      BY <1>1, <2>1, <2>3, <3>1
    <3>2. CASE r # q
      BY <1>0, <2>1, <2>3, <3>2 DEF ListsOK
    <3> QED
      BY <3>1, <3>2
  <2> QED
    BY <2>2, <2>3 DEF ListsOK
<1>2. ASSUME NEW j \in Jobs, Pushed(j)
      PROVE  ListsOK'
  <2>1. QueueOf[j] \in Queues /\ list[QueueOf[j]] \in Seq(Jobs)
    BY <1>0, QueueAssumption DEF ListsOK
  <2>2. \A k \in Range(Append(list[QueueOf[j]], j)) : QueueOf[k] = QueueOf[j]
    BY <1>0, <2>1, PushedIds DEF ListsOK
  <2>3. list' = [list EXCEPT ![QueueOf[j]] = Append(list[QueueOf[j]], j)]
    BY <1>2 DEF Pushed
  <2> QED
    BY <1>1, <2>1, <2>2, <2>3, PushedIds
<1>3. ASSUME NEW p \in Procs, NEW q \in Queues, Pop(p, q)
      PROVE  ListsOK'
  <2>1. list[q] # <<>> /\ list[q] \in Seq(Jobs)
    BY <1>0, <1>3 DEF Pop, Filled, ListsOK
  <2>2. \A k \in Range(Tail(list[q])) : QueueOf[k] = q
    BY <1>0, <2>1, PoppedIds DEF ListsOK
  <2>3. list' = [list EXCEPT ![q] = Tail(list[q])]
    BY <1>3 DEF Pop
  <2> QED
    BY <1>1, <2>1, <2>2, <2>3, PoppedIds
<1>4. ASSUME NEW a \in Admins, FlushNamespace(a)
      PROVE  ListsOK'
  <2>1. list' = [q \in Queues |-> <<>>]
    BY <1>4 DEF FlushNamespace
  <2>2. <<>> \in Seq(Jobs)
    OBVIOUS
  <2> QED
    BY <2>1, <2>2, NoIds DEF ListsOK
<1>5. CASE UNCHANGED list
  BY <1>0, <1>5 DEF ListsOK
<1>6. ASSUME NEW p \in Procs, LoopStep(p) \/ LoopFails(p)
      PROVE  ListsOK'
  BY <1>2, <1>3, <1>5, <1>6
  DEF LoopStep, LoopFails, LoopStart, PopNothing, MarkRead, MarkRefused,
      MarkCount, MarkWrite, SpawnPopped, PutBack, redisVars
<1>7. ASSUME NEW a \in Admins, AdminStep(a)
      PROVE  ListsOK'
  BY <1>4, <1>5, <1>7 DEF AdminStep, JobControl, Cleanup, Reread, PauseQueue
<1> QED
  BY <1>2, <1>5, <1>6, <1>7
  DEF RedisMove, RedisNext, RedisStep, ThreadStep, BesideThreads, EnqueueJob,
      FaultElsewhere, Push, PushFails, CrashWorker, RestartWorker, allVars,
      redisVars

LEMMA PushesMove ==
  ASSUME RedisTypes, RedisMove
  PROVE  PushesOK'
<1>0. PushesOK
  BY DEF RedisTypes
<1>1. ASSUME NEW x \in Pushers, NEW js \in SUBSET Jobs,
             push' = [push EXCEPT ![x] = js], reread' \subseteq reread
      PROVE  PushesOK'
  BY <1>0, <1>1 DEF PushesOK
<1>2. CASE UNCHANGED <<push, reread>>
  BY <1>0, <1>2 DEF PushesOK
<1>3. ASSUME NEW j \in Jobs, EnqueueJob(j)
      PROVE  PushesOK'
  <2>1. Web \in Pushers /\ push[Web] \cup {j} \in SUBSET Jobs
    BY <1>0 DEF Pushers, PushesOK
  <2> QED
    BY <1>1, <1>3, <2>1 DEF EnqueueJob
<1>4. ASSUME NEW x \in Pushers, NEW j \in Jobs, Push(x, j) \/ PushFails(x, j)
      PROVE  PushesOK'
  <2>1. push[x] \ {j} \in SUBSET Jobs
    BY <1>0 DEF PushesOK
  <2> QED
    BY <1>1, <1>4, <2>1 DEF Push, PushFails
<1>5. ASSUME NEW p \in Procs, CrashWorker(p) \/ RestartWorker(p)
      PROVE  PushesOK'
  <2>1. Restorable \in SUBSET Jobs /\ p \in Pushers
    BY DEF Restorable, Queued, Pushers
  <2> QED
    BY <1>1, <1>5, <2>1 DEF CrashWorker, RestartWorker
<1>6. ASSUME NEW a \in Admins, AdminStep(a)
      PROVE  PushesOK'
  <2>0. a \in Pushers
    BY DEF Pushers
  <2>1. CASE \E j \in Jobs : Reread(a, j)
    <3>1. PICK j \in Jobs : Reread(a, j)
      BY <2>1
    <3>2. push' = [push EXCEPT ![a] = IF row[j].st = "queued" THEN {j} ELSE {}]
          /\ reread' \subseteq reread
      BY <3>1 DEF Reread
    <3>3. (IF row[j].st = "queued" THEN {j} ELSE {}) \in SUBSET Jobs
      OBVIOUS
    <3> QED
      BY <1>1, <2>0, <3>2, <3>3
  <2>2. CASE \E q \in Queues, b \in BOOLEAN : PauseQueue(a, q, b)
    <3>1. PICK q \in Queues, b \in BOOLEAN : PauseQueue(a, q, b)
      BY <2>2
    <3>2. Waiting(q, b) \in SUBSET Jobs
      BY DEF Waiting, RowsOf
    <3> QED
      BY <1>1, <2>0, <3>1, <3>2 DEF PauseQueue
  <2>3. CASE JobControl(a)
    <3>1. push' = push /\ reread' \subseteq Admins \X Jobs
      BY <1>0, <2>3 DEF JobControl, PushesOK
    <3> QED
      BY <1>0, <3>1 DEF PushesOK
  <2> QED
    BY <1>2, <1>6, <2>1, <2>2, <2>3 DEF AdminStep, Cleanup, FlushNamespace
<1>7. ASSUME NEW p \in Procs, LoopStep(p) \/ LoopFails(p)
      PROVE  PushesOK'
  BY <1>2, <1>7
  DEF LoopStep, LoopFails, LoopStart, Pop, PopNothing, MarkRead, MarkRefused,
      MarkCount, MarkWrite, SpawnPopped, PutBack, redisVars
<1> QED
  BY <1>2, <1>3, <1>4, <1>5, <1>6, <1>7
  DEF RedisMove, RedisNext, RedisStep, ThreadStep, BesideThreads,
      FaultElsewhere, allVars, redisVars

\* A step either accounts for the ids it drops, or leaves the rows alone.
LEMMA Accounts ==
  ASSUME RedisTypes, RedisMove
  PROVE  /\ UNCHANGED scene
         /\ UNCHANGED faults \/ Fault
         /\ \/ UNCHANGED <<row, lost>>
            \/ \E dropped, found \in SUBSET Jobs : Account(dropped, found)
<1> DEFINE P == /\ UNCHANGED scene
                /\ UNCHANGED faults \/ Fault
                /\ \/ UNCHANGED <<row, lost>>
                   \/ \E dropped, found \in SUBSET Jobs : Account(dropped, found)
<1>0. {} \in SUBSET Jobs
  OBVIOUS
<1>1. ASSUME NEW p \in Procs, LoopStep(p)
      PROVE  P
  BY <1>0, <1>1
  DEF LoopStep, LoopStart, TickStart, Pop, PopNothing, MarkRead, ClaimRead,
      MarkRefused, MarkCount, MarkWrite, SpawnPopped, PutBack, redisVars
<1>2. ASSUME NEW p \in Procs, LoopFails(p) \/ CrashWorker(p) \/ RestartWorker(p)
      PROVE  P
  <2>1. sched[p].cand \in SUBSET Jobs
    <3>1. sched[p] \in Worker
      BY DEF RedisTypes, WorkersOK
    <3> QED
      BY <3>1 DEF Worker
  <2>2. push[p] \in SUBSET Jobs
    BY DEF RedisTypes, PushesOK, Pushers
  <2>3. Restorable \in SUBSET Jobs
    BY DEF Restorable, Queued
  <2>4. sched[p].cand \cup push[p] \in SUBSET Jobs
    BY <2>1, <2>2
  <2> QED
    BY <1>0, <1>2, <2>1, <2>3, <2>4 DEF LoopFails, CrashWorker, RestartWorker
<1>3. ASSUME NEW x \in Pushers, NEW j \in Jobs, Push(x, j) \/ PushFails(x, j)
      PROVE  P
  <2>1. {j} \in SUBSET Jobs
    OBVIOUS
  <2> QED
    BY <1>0, <1>3, <2>1 DEF Push, PushFails, vars
<1>4. ASSUME NEW a \in Admins, AdminStep(a)
      PROVE  P
  <2>1. CASE \E j \in Jobs : Reread(a, j)
    <3>1. PICK j \in Jobs : Reread(a, j)
      BY <2>1
    <3>2. push'[a] \in SUBSET Jobs
      BY PushesMove DEF PushesOK, Pushers
    <3> QED
      BY <1>0, <3>1, <3>2 DEF Reread
  <2>2. CASE \E q \in Queues, b \in BOOLEAN : PauseQueue(a, q, b)
    <3>1. PICK q \in Queues, b \in BOOLEAN : PauseQueue(a, q, b)
      BY <2>2
    <3>2. Waiting(q, b) \in SUBSET Jobs
      BY DEF Waiting, RowsOf
    <3> QED
      BY <1>0, <3>1, <3>2 DEF PauseQueue
  <2>3. CASE FlushNamespace(a)
    <3>1. UNION {Range(list[q]) : q \in Queues} \in SUBSET Jobs
      <4>1. ASSUME NEW q \in Queues
            PROVE  Range(list[q]) \subseteq Jobs
        <5>1. list[q] \in Seq(Jobs)
          BY DEF RedisTypes, ListsOK
        <5> QED
          BY <5>1 DEF Range
      <4> QED
        BY <4>1
    <3> QED
      BY <1>0, <2>3, <3>1 DEF FlushNamespace
  <2> QED
    BY <1>0, <1>4, <2>1, <2>2, <2>3 DEF AdminStep, JobControl, Cleanup
<1>5. CASE ThreadStep
  <2>1. {j \in Jobs : row[j].st # "queued" /\ row'[j].st = "queued"} \in SUBSET Jobs
    OBVIOUS
  <2> QED
    BY <1>0, <1>5, <2>1 DEF ThreadStep, BesideThreads
<1>6. ASSUME NEW j \in Jobs, EnqueueJob(j)
      PROVE  P
  BY <1>0, <1>6 DEF EnqueueJob
<1> QED
  BY <1>1, <1>2, <1>3, <1>4, <1>5, <1>6
  DEF RedisMove, RedisNext, RedisStep, FaultElsewhere, vars, allVars, redisVars

LEMMA RedisTypesMove ==
  ASSUME RedisTypes, RedisMove
  PROVE  RedisTypes'
<1>1. lost' \subseteq Queued'
  <2>1. CASE UNCHANGED <<row, lost>>
    BY <2>1 DEF RedisTypes, AccountOK, Queued
  <2>2. ASSUME NEW dropped \in SUBSET Jobs, NEW found, Account(dropped, found)
        PROVE  lost' \subseteq Queued'
    BY <2>2 DEF Account, RedisTypes, AccountOK, Queued
  <2> QED
    BY <2>1, <2>2, Accounts
<1>2. scene' \in Scenes /\ faults' \in 0..scene'.faults
  <2>1. UNCHANGED scene /\ (UNCHANGED faults \/ Fault)
    BY Accounts
  <2>2. scene \in Scenes /\ faults \in 0..scene.faults /\ scene.faults \in Nat
    BY ScenesAssumption DEF RedisTypes, AccountOK
  <2> QED
    BY <2>1, <2>2 DEF Fault
<1> QED
  BY <1>1, <1>2, SharedMove, WorkersMove, ListsMove, PushesMove
  DEF RedisTypes, AccountOK

LEMMA RedisTypesInit ==
  ASSUME RedisInit
  PROVE  RedisTypes
<1>1. SharedTypes
  BY InitialTypes, BoundsAssumption DEF RedisInit, Init, SharedTypes
<1>2. WorkersOK
  BY IdleWorker DEF RedisInit, Init, WorkersOK
<1>3. ListsOK
  <2>1. <<>> \in Seq(Jobs)
    OBVIOUS
  <2> QED
    BY <2>1, NoIds DEF RedisInit, ListsOK
<1>4. PushesOK
  BY DEF RedisInit, PushesOK
<1>5. AccountOK
  BY ScenesAssumption DEF RedisInit, AccountOK
<1> QED
  BY <1>1, <1>2, <1>3, <1>4, <1>5 DEF RedisTypes

-----------------------------------------------------------------------------
(* No queued job is forgotten.  What an overwritten push would lose has    *)
(* been pushed before: a process that is down has nothing to push, and a   *)
(* request only when it has been answered, and then for one reason.        *)

DownOK == \A p \in Procs : p \notin up => push[p] = {}

RequestOK(a) ==
  /\ ctl[a].op # "done" => push[a] = {}
  /\ \A j \in Jobs : <<a, j>> \in reread =>
       /\ ctl[a].op = "done"
       /\ push[a] = {}
       /\ \A k \in Jobs : <<a, k>> \in reread => k = j

PushersInv == DownOK /\ \A a \in Admins : RequestOK(a)

\* A step that leaves a request's state alone.
SameRequest(a) ==
  /\ push'[a] \subseteq push[a]
  /\ ctl'[a].op = ctl[a].op
  /\ \A j \in Jobs : <<a, j>> \in reread' <=> <<a, j>> \in reread

LEMMA SameRequestOK ==
  ASSUME NEW a \in Admins, RequestOK(a), SameRequest(a)
  PROVE  RequestOK(a)'
BY DEF RequestOK, SameRequest

LEMMA PushersKept ==
  ASSUME PushersInv, UNCHANGED <<up, ctl, push, reread>>
  PROVE  PushersInv'
BY DEF PushersInv, DownOK, RequestOK

LEMMA AdminPushers ==
  ASSUME RedisTypes, PushersInv, NEW a \in Admins, AdminStep(a)
  PROVE  PushersInv'
<1>0. /\ push \in [Pushers -> SUBSET Jobs] /\ ctl \in [Admins -> Ctl]
      /\ RequestOK(a)
      /\ \A p \in Procs : p \in Pushers /\ p # a
      /\ a \in Pushers
  BY PushersAssumption
  DEF RedisTypes, PushesOK, SharedTypes, PushersInv, Pushers
<1>1. ASSUME NEW op, ctl'[a].op = op, \A b \in Admins : b # a => ctl'[b] = ctl[b],
             UNCHANGED <<up, push, reread>>, ctl[a].op # "done"
      PROVE  PushersInv'
  <2>1. ASSUME NEW b \in Admins, b # a
        PROVE  RequestOK(b)'
    BY <1>1, <2>1 DEF PushersInv, RequestOK
  <2>2. RequestOK(a)'
    BY <1>0, <1>1 DEF RequestOK
  <2> QED
    BY <1>1, <2>1, <2>2 DEF PushersInv, DownOK
<1>2. ASSUME NEW c, SetCtl(a, c)
      PROVE  ctl'[a] = c /\ \A b \in Admins : b # a => ctl'[b] = ctl[b]
  BY <1>0, <1>2 DEF SetCtl
<1>3. CASE Cleanup(a) \/ FlushNamespace(a)
  <2>1. ctl[a].op # "done" /\ UNCHANGED <<up, push, reread>>
    BY <1>3 DEF Cleanup, CleanupAll, CleanupRead, CleanupWrite, FlushNamespace,
                CtlUnchanged
  <2>2. \E c : SetCtl(a, c)
    BY <1>3 DEF Cleanup, CleanupAll, CleanupRead, CleanupWrite, FlushNamespace
  <2> QED
    BY <1>1, <1>2, <2>1, <2>2
<1>4. ASSUME NEW j \in Jobs, NEW op \in JobOps, ControlRead(a, op, j),
             UNCHANGED <<reread, push>>
      PROVE  PushersInv'
  <2>1. ctl[a].op # "done" /\ UNCHANGED up /\ \E c : SetCtl(a, c)
    BY <1>4 DEF ControlRead, CtlUnchanged
  <2> QED
    BY <1>1, <1>2, <1>4, <2>1
<1>5. ASSUME NEW j \in Jobs, ControlWrite(a, j), UNCHANGED push,
             reread' = IF ctl[a].op = "stop" THEN reread
                       ELSE reread \cup {<<a, j>>}
      PROVE  PushersInv'
  <2>1. ctl[a].op # "done" /\ UNCHANGED up /\ SetCtl(a, Answered)
    BY <1>5 DEF ControlWrite, JobOps, CtlUnchanged
  <2>2. ctl'[a].op = "done" /\ \A b \in Admins : b # a => ctl'[b] = ctl[b]
    BY <1>2, <2>1 DEF Answered, Request
  <2>3. \A b \in Admins, k \in Jobs :
          <<b, k>> \in reread' => <<b, k>> \in reread \/ (b = a /\ k = j)
    BY <1>5
  <2>4. push[a] = {} /\ \A k \in Jobs : <<a, k>> \notin reread
    BY <1>0, <2>1 DEF RequestOK
  <2>5. RequestOK(a)'
    BY <1>5, <2>2, <2>3, <2>4 DEF RequestOK
  <2>6. ASSUME NEW b \in Admins, b # a
        PROVE  RequestOK(b)'
    <3>1. RequestOK(b)
      BY DEF PushersInv
    <3> QED
      BY <1>5, <2>2, <2>3, <2>6, <3>1 DEF RequestOK
  <2> QED
    BY <1>5, <2>1, <2>5, <2>6 DEF PushersInv, DownOK
<1>6. ASSUME NEW j \in Jobs, Reread(a, j)
      PROVE  PushersInv'
  <2>1. /\ <<a, j>> \in reread /\ reread' = reread \ {<<a, j>>}
        /\ UNCHANGED <<up, ctl>>
        /\ \A x \in Pushers : x # a => push'[x] = push[x]
    BY <1>0, <1>6 DEF Reread, vars
  <2>2. ctl[a].op = "done" /\ \A k \in Jobs : <<a, k>> \notin reread'
    BY <1>0, <2>1 DEF RequestOK
  <2>3. RequestOK(a)'
    BY <2>1, <2>2 DEF RequestOK
  <2>4. ASSUME NEW b \in Admins, b # a
        PROVE  RequestOK(b)'
    <3>1. RequestOK(b) /\ b \in Pushers
      BY DEF PushersInv, Pushers
    <3>2. SameRequest(b)
      BY <2>1, <2>4, <3>1 DEF SameRequest
    <3> QED
      BY <3>1, <3>2, SameRequestOK
  <2>5. DownOK'
    BY <1>0, <2>1 DEF DownOK, PushersInv
  <2> QED
    BY <2>3, <2>4, <2>5 DEF PushersInv
<1>7. ASSUME NEW q \in Queues, NEW b \in BOOLEAN, PauseQueue(a, q, b)
      PROVE  PushersInv'
  <2>1. /\ ctl[a].op = "idle" /\ SetCtl(a, Answered) /\ UNCHANGED <<up, reread>>
        /\ \A x \in Pushers : x # a => push'[x] = push[x]
    BY <1>0, <1>7 DEF PauseQueue, QueuePause, CtlUnchanged
  <2>2. ctl'[a].op = "done" /\ \A c \in Admins : c # a => ctl'[c] = ctl[c]
    BY <1>2, <2>1 DEF Answered, Request
  <2>3. \A k \in Jobs : <<a, k>> \notin reread
    BY <1>0, <2>1 DEF RequestOK
  <2>4. RequestOK(a)'
    BY <2>1, <2>2, <2>3 DEF RequestOK
  <2>5. ASSUME NEW c \in Admins, c # a
        PROVE  RequestOK(c)'
    <3>1. RequestOK(c) /\ c \in Pushers
      BY DEF PushersInv, Pushers
    <3>2. SameRequest(c)
      BY <2>1, <2>2, <2>5, <3>1 DEF SameRequest
    <3> QED
      BY <3>1, <3>2, SameRequestOK
  <2>6. DownOK'
    BY <1>0, <2>1 DEF DownOK, PushersInv
  <2> QED
    BY <2>4, <2>5, <2>6 DEF PushersInv
<1> QED
  BY <1>3, <1>4, <1>5, <1>6, <1>7 DEF AdminStep, JobControl

LEMMA PushersMove ==
  ASSUME RedisTypes, PushersInv, RedisMove
  PROVE  PushersInv'
<1>0. /\ push \in [Pushers -> SUBSET Jobs]
      /\ \A p \in Procs : p \in Pushers /\ p # Web
      /\ \A a \in Admins : a \in Pushers /\ a # Web
      /\ \A p \in Procs, a \in Admins : p # a
  BY PushersAssumption DEF RedisTypes, PushesOK, Pushers
<1>1. CASE UNCHANGED <<up, ctl, push, reread>>
  BY <1>1, PushersKept
<1>2. ASSUME UNCHANGED <<up, ctl, reread>>,
             \A x \in Pushers : x # Web => push'[x] \subseteq push[x]
      PROVE  PushersInv'
  <2>1. ASSUME NEW a \in Admins
        PROVE  RequestOK(a)'
    <3>1. SameRequest(a)
      BY <1>0, <1>2 DEF SameRequest
    <3> QED
      BY <3>1, SameRequestOK DEF PushersInv
  <2>2. DownOK'
    BY <1>0, <1>2 DEF DownOK, PushersInv
  <2> QED
    BY <2>1, <2>2 DEF PushersInv
<1>3. ASSUME NEW j \in Jobs, EnqueueJob(j)
      PROVE  PushersInv'
  BY <1>0, <1>2, <1>3 DEF EnqueueJob, Enqueue
<1>4. ASSUME NEW x \in Pushers, NEW j \in Jobs, Push(x, j) \/ PushFails(x, j)
      PROVE  PushersInv'
  <2>1. UNCHANGED <<up, ctl, reread>> /\ push' = [push EXCEPT ![x] = @ \ {j}]
    BY <1>4 DEF Push, PushFails, vars
  <2> QED
    BY <1>0, <1>2, <2>1
<1>5. ASSUME NEW p \in Procs, CrashWorker(p) \/ RestartWorker(p)
      PROVE  PushersInv'
  <2>1. /\ UNCHANGED <<ctl, reread>>
        /\ \A x \in Pushers : x # p => push'[x] = push[x]
        /\ \/ p \in up'
           \/ push'[p] = {}
        /\ \A x \in Procs : x # p => (x \in up' <=> x \in up)
    BY <1>0, <1>5 DEF CrashWorker, Crash, RestartWorker, Restart
  <2>2. ASSUME NEW a \in Admins
        PROVE  RequestOK(a)'
    <3>1. SameRequest(a)
      BY <1>0, <2>1 DEF SameRequest
    <3> QED
      BY <3>1, SameRequestOK DEF PushersInv
  <2>3. DownOK'
    BY <1>0, <2>1 DEF DownOK, PushersInv
  <2> QED
    BY <2>2, <2>3 DEF PushersInv
<1>6. ASSUME NEW p \in Procs, LoopStep(p) \/ LoopFails(p)
      PROVE  PushersInv'
  BY <1>1, <1>6
  DEF LoopStep, LoopFails, LoopStart, TickStart, Pop, PopNothing, MarkRead,
      ClaimRead, MarkRefused, MarkCount, MarkWrite, ClaimWrite, SpawnPopped,
      PutBack, SchedUnchanged, redisVars
<1>7. CASE ThreadStep
  <2>1. UNCHANGED <<push, reread>>
    BY <1>7 DEF ThreadStep, BesideThreads
  <2>2. ASSUME NEW p \in Procs, NEW j \in Jobs, RunnerStep(p, j)
        PROVE  UNCHANGED <<up, ctl>>
    BY <2>2 DEF RunnerStep, RunGone, RunUnknown, RunOpen, RunStart, RunJoin, RunTimeout,
                RunReread, RunFinalWrite, RunFailWrite, RunExit, RunnerUnchanged
  <2>3. ASSUME NEW j \in Jobs, NEW n \in Starts, HandlerStep(j, n)
        PROVE  UNCHANGED <<up, ctl>>
    BY <2>3 DEF HandlerStep, HandlerPoll, HandlerWait, HandlerHalt, HandlerWork,
                HandlerReturn, HandlerRaise, HandlerUnchanged
  <2> QED
    BY <1>1, <1>7, <2>1, <2>2, <2>3 DEF ThreadStep
<1> QED
  BY <1>1, <1>3, <1>4, <1>5, <1>6, <1>7, AdminPushers
  DEF RedisMove, RedisNext, RedisStep, FaultElsewhere, vars, allVars, redisVars

\* Where a queued job can be.
Held(j) ==
  \/ j \in Range(list[QueueOf[j]])
  \/ InHand(j)
  \/ \E x \in Pushers : j \in push[x]
  \/ \E a \in Admins : <<a, j>> \in reread

\* Each place a job was in, it is still in.
LEMMA HeldKept ==
  ASSUME NEW j \in Jobs, Held(j),
         j \in Range(list[QueueOf[j]]) => j \in Range(list'[QueueOf[j]]),
         InHand(j) => InHand(j)',
         \A x \in Pushers : j \in push[x] => j \in push'[x],
         \A a \in Admins : <<a, j>> \in reread => <<a, j>> \in reread'
  PROVE  Held(j)'
BY DEF Held

\* The job in a worker's hand, when the worker moves on to w.
LEMMA HandKept ==
  ASSUME WorkersOK, NEW p \in Procs, NEW j \in Jobs, NEW w,
         SetSched(p, w), InHand(j),
         sched[p].pc \in Holding \ {"spawn"} /\ j \in sched[p].cand
           => w.pc \in Holding \ {"spawn"} /\ j \in w.cand
  PROVE  InHand(j)'
<1>1. PICK x \in Procs : /\ sched[x].pc \in {"claim", "write", "putback"}
                         /\ j \in sched[x].cand
  BY DEF InHand
<1>2. \A y \in Procs : sched'[y] = IF y = p THEN w ELSE sched[y]
  BY DEF SetSched, WorkersOK
<1>3. sched'[x].pc \in {"claim", "write", "putback"} /\ j \in sched'[x].cand
  BY <1>1, <1>2 DEF Holding
<1> QED
  BY <1>3 DEF InHand

\* What leaves lost and stays queued has been pushed again.
LEMMA AccountFor ==
  ASSUME NEW dropped, NEW found, Account(dropped, found),
         NEW j \in Queued' \ lost'
  PROVE  j \in found \/ (j \notin lost /\ j \notin dropped)
BY DEF Account, Queued

LEMMA LoopForgets ==
  ASSUME RedisTypes, NoneForgotten, NEW p \in Procs,
         LoopStep(p) \/ LoopFails(p), NEW k \in Queued' \ lost'
  PROVE  Held(k)'
<1>0. /\ sched[p] \in Worker /\ Regular(sched[p]) /\ WorkersOK
      /\ k \in Jobs /\ QueueOf[k] \in Queues
      /\ \A q \in Queues : list[q] \in Seq(Jobs)
      /\ list \in [Queues -> Seq(Jobs)]
  BY QueueAssumption DEF RedisTypes, WorkersOK, ListsOK, Queued
<1>h. k \in Queued /\ k \notin lost => Held(k)
  BY DEF NoneForgotten, Held
<1>1. CASE LoopStart(p) \/ PopNothing(p) \/ \E j \in Jobs : SpawnPopped(p, j)
  <2>1. /\ sched[p].pc \notin Holding \ {"spawn"} /\ \E w : SetSched(p, w)
        /\ UNCHANGED <<row, list, push, reread, lost>>
    BY <1>1 DEF LoopStart, TickStart, PopNothing, SpawnPopped, Holding, redisVars
  <2>2. InHand(k) => InHand(k)'
    BY <1>0, <2>1, HandKept
  <2> QED
    BY <1>0, <1>h, <2>1, <2>2, HeldKept DEF Queued
<1>2. CASE (\E j \in Jobs : MarkRead(p, j) \/ MarkRefused(p, j)) \/ MarkCount(p)
  <2>1. PICK w : /\ SetSched(p, w)
                 /\ w.pc \in {"write", "putback"} /\ w.cand = sched[p].cand
    <3>1. ASSUME NEW j \in Jobs, MarkRead(p, j)
          PROVE  \E w : /\ SetSched(p, w)
                        /\ w.pc \in {"write", "putback"} /\ w.cand = sched[p].cand
      <4> DEFINE w == [sched[p] EXCEPT !.pc = "write", !.seen = row[j]]
      <4>1. SetSched(p, w)
        BY <3>1 DEF MarkRead, ClaimRead
      <4>2. w.pc = "write" /\ w.cand = sched[p].cand
        BY <1>0 DEF Worker
      <4> QED
        BY <4>1, <4>2
    <3>2. ASSUME NEW j \in Jobs, MarkRefused(p, j)
          PROVE  \E w : /\ SetSched(p, w)
                        /\ w.pc \in {"write", "putback"} /\ w.cand = sched[p].cand
      <4> DEFINE w == [sched[p] EXCEPT !.pc = "putback"]
      <4>1. SetSched(p, w)
        BY <3>2 DEF MarkRefused
      <4>2. w.pc = "putback" /\ w.cand = sched[p].cand
        BY <1>0 DEF Worker
      <4> QED
        BY <4>1, <4>2
    <3>3. ASSUME MarkCount(p)
          PROVE  \E w : /\ SetSched(p, w)
                        /\ w.pc \in {"write", "putback"} /\ w.cand = sched[p].cand
      <4> DEFINE slots == Slots(sched[p].queue)
                 x == [sched[p] EXCEPT !.slots = slots]
                 y == [sched[p] EXCEPT !.pc = "putback", !.seen = NoRow]
      <4>1. (SetSched(p, x) \/ SetSched(p, y)) /\ sched[p].pc = "write"
        BY <3>3 DEF MarkCount
      <4> HIDE DEF slots
      <4>2. x.pc = sched[p].pc /\ x.cand = sched[p].cand
        BY <1>0 DEF Worker
      <4>3. y.pc = "putback" /\ y.cand = sched[p].cand
        BY <1>0 DEF Worker
      <4> HIDE DEF x, y
      <4> QED
        BY <4>1, <4>2, <4>3
    <3> QED
      BY <1>2, <3>1, <3>2, <3>3
  <2>2. UNCHANGED <<row, list, push, reread, lost>>
    BY <1>2 DEF MarkRead, ClaimRead, MarkRefused, MarkCount, redisVars
  <2>3. InHand(k) => InHand(k)'
    BY <1>0, <2>1, HandKept DEF Holding
  <2> QED
    BY <1>0, <1>h, <2>2, <2>3, HeldKept DEF Queued
<1>3. ASSUME NEW q \in Queues, Pop(p, q)
      PROVE  Held(k)'
  <2> DEFINE w == [Idle EXCEPT !.pc = "claim", !.queue = q, !.held = "expired",
                              !.cand = {Head(list[q])}]
  <2>1. /\ SetSched(p, w) /\ sched[p].pc = "count" /\ list[q] # <<>>
        /\ list' = [list EXCEPT ![q] = Tail(list[q])]
        /\ UNCHANGED <<row, push, reread, lost>>
    BY <1>3 DEF Pop, Filled
  <2>2. w.pc = "claim" /\ w.cand = {Head(list[q])}
    BY DEF Idle
  <2> HIDE DEF w
  <2>3. InHand(k) => InHand(k)'
    BY <1>0, <2>1, HandKept DEF Holding
  <2>4. sched'[p] = w
    BY <1>0, <2>1 DEF SetSched, WorkersOK
  <2>5. CASE QueueOf[k] = q /\ k = Head(list[q])
    BY <2>2, <2>4, <2>5 DEF Held, InHand
  <2>6. CASE ~(QueueOf[k] = q /\ k = Head(list[q]))
    <3>1. k \in Range(list[QueueOf[k]]) => k \in Range(list'[QueueOf[k]])
      BY <1>0, <2>1, <2>6, PoppedIds
    <3> QED
      BY <1>0, <1>h, <2>1, <2>3, <3>1, HeldKept DEF Queued
  <2> QED
    BY <2>5, <2>6
<1>4. ASSUME NEW j \in Jobs, MarkWrite(p, j)
      PROVE  Held(k)'
  <2>1. /\ sched[p].pc = "write" /\ j \in sched[p].cand /\ Account({}, {})
        /\ UNCHANGED <<list, push, reread>>
    BY <1>4 DEF MarkWrite, ClaimWrite, IsNext
  <2>2. k # j /\ k \in Queued
    BY <1>0, <1>4, MarkStatus DEF Queued, Exists, Absent
  <2>3. k \notin lost
    BY <2>1, AccountFor
  <2>4. k \notin sched[p].cand
    BY <1>0, <2>1, <2>2 DEF Regular, Holding
  <2>5. InHand(k) => InHand(k)'
    <3>1. \E w : SetSched(p, w)
      BY <1>4 DEF MarkWrite, ClaimWrite
    <3> QED
      BY <1>0, <2>4, <3>1, HandKept
  <2> QED
    BY <1>0, <1>h, <2>1, <2>2, <2>3, <2>5, HeldKept
<1>5. ASSUME NEW j \in Jobs, PutBack(p, j)
      PROVE  Held(k)'
  <2>1. /\ sched[p].pc = "putback" /\ j \in sched[p].cand /\ SetSched(p, Idle)
        /\ IF StillQueued(j) THEN Pushed(j) ELSE UNCHANGED list
        /\ UNCHANGED <<row, push, reread, lost>>
    BY <1>5 DEF PutBack, IsNext
  <2>2. list[QueueOf[j]] \in Seq(Jobs) /\ QueueOf[j] \in Queues
    BY <1>0, QueueAssumption
  <2>3. \A q \in Queues : Range(list[q]) \subseteq Range(list'[q])
    BY <1>0, <2>1, <2>2, PushedIds DEF Pushed
  <2>4. CASE k = j
    <3>1. list' = [list EXCEPT ![QueueOf[j]] = Append(list[QueueOf[j]], j)]
      BY <2>1, <2>4 DEF StillQueued, Queued, Pushed
    <3>2. k \in Range(list'[QueueOf[k]])
      BY <1>0, <2>2, <2>4, <3>1, PushedIds
    <3> QED
      BY <3>2 DEF Held
  <2>5. CASE k # j
    <3>1. k \notin sched[p].cand
      BY <1>0, <2>1, <2>5 DEF Regular, Holding
    <3>2. InHand(k) => InHand(k)'
      BY <1>0, <2>1, <3>1, HandKept
    <3> QED
      BY <1>0, <1>h, <2>1, <2>3, <3>2, HeldKept DEF Queued
  <2> QED
    BY <2>4, <2>5
<1>6. CASE LoopFails(p)
  <2>1. /\ SetSched(p, Idle) /\ Account(sched[p].cand, {})
        /\ UNCHANGED <<row, list, push, reread>>
    BY <1>6 DEF LoopFails
  <2>2. k \notin lost /\ k \notin sched[p].cand
    BY <2>1, AccountFor
  <2>3. InHand(k) => InHand(k)'
    BY <1>0, <2>1, <2>2, HandKept
  <2> QED
    BY <1>0, <1>h, <2>1, <2>2, <2>3, HeldKept DEF Queued
<1> QED
  BY <1>1, <1>2, <1>3, <1>4, <1>5, <1>6 DEF LoopStep

LEMMA PushForgets ==
  ASSUME RedisTypes, NoneForgotten, NEW x \in Pushers, NEW j \in Jobs,
         Push(x, j) \/ PushFails(x, j), NEW k \in Queued' \ lost'
  PROVE  Held(k)'
<1>0. /\ k \in Jobs /\ QueueOf[k] \in Queues /\ QueueOf[j] \in Queues
      /\ \A q \in Queues : list[q] \in Seq(Jobs)
      /\ list \in [Queues -> Seq(Jobs)]
      /\ push \in [Pushers -> SUBSET Jobs]
  BY QueueAssumption DEF RedisTypes, ListsOK, PushesOK, Queued
<1>h. k \in Queued /\ k \notin lost => Held(k)
  BY DEF NoneForgotten, Held
<1>1. UNCHANGED <<row, sched, reread>> /\ push' = [push EXCEPT ![x] = @ \ {j}]
  BY DEF Push, PushFails, vars
<1>2. InHand(k) => InHand(k)'
  BY <1>1 DEF InHand
<1>3. \A y \in Pushers : k # j /\ k \in push[y] => k \in push'[y]
  BY <1>0, <1>1
<1>4. CASE Push(x, j)
  <2>1. list' = [list EXCEPT ![QueueOf[j]] = Append(list[QueueOf[j]], j)]
        /\ UNCHANGED lost
    BY <1>4 DEF Push, Pushed
  <2>2. /\ \A q \in Queues : Range(list[q]) \subseteq Range(list'[q])
        /\ j \in Range(list'[QueueOf[j]])
    BY <1>0, <2>1, PushedIds
  <2>3. CASE k = j
    BY <2>2, <2>3 DEF Held
  <2>4. CASE k # j
    BY <1>0, <1>h, <1>1, <1>2, <1>3, <2>1, <2>2, <2>4, HeldKept DEF Queued
  <2> QED
    BY <2>3, <2>4
<1>5. CASE PushFails(x, j)
  <2>1. k \notin lost /\ k # j /\ UNCHANGED list
    BY <1>5, AccountFor DEF PushFails
  <2> QED
    BY <1>0, <1>h, <1>1, <1>2, <1>3, <2>1, HeldKept DEF Queued
<1> QED
  BY <1>4, <1>5

LEMMA ProcessForgets ==
  ASSUME RedisTypes, PushersInv, NoneForgotten, NEW p \in Procs,
         CrashWorker(p) \/ RestartWorker(p), NEW k \in Queued' \ lost'
  PROVE  Held(k)'
<1>0. /\ k \in Jobs /\ push \in [Pushers -> SUBSET Jobs] /\ p \in Pushers
      /\ WorkersOK
  BY DEF RedisTypes, PushesOK, Queued, Pushers
<1>h. k \in Queued /\ k \notin lost => Held(k)
  BY DEF NoneForgotten, Held
<1>1. CASE CrashWorker(p)
  <2>1. /\ UNCHANGED <<row, list, reread>> /\ push' = [push EXCEPT ![p] = {}]
        /\ SetSched(p, Idle)
        /\ Account(sched[p].cand \cup push[p], {})
    BY <1>1 DEF CrashWorker, Crash, SetSched
  <2>2. k \notin lost /\ k \notin sched[p].cand /\ k \notin push[p]
    BY <2>1, AccountFor
  <2>3. InHand(k) => InHand(k)'
    BY <1>0, <2>1, <2>2, HandKept
  <2>4. \A x \in Pushers : k \in push[x] => k \in push'[x]
    BY <1>0, <2>1, <2>2
  <2> QED
    BY <1>0, <1>h, <2>1, <2>2, <2>3, <2>4, HeldKept DEF Queued
<1>2. CASE RestartWorker(p)
  <2>1. /\ UNCHANGED <<row, sched, list, reread>>
        /\ push' = [push EXCEPT ![p] = Restorable]
        /\ Account({}, Restorable) /\ push[p] = {}
    BY <1>2 DEF RestartWorker, Restart, PushersInv, DownOK
  <2>2. CASE k \in Restorable
    BY <1>0, <2>1, <2>2 DEF Held
  <2>3. CASE k \notin Restorable
    <3>1. k \notin lost
      BY <2>1, <2>3, AccountFor
    <3>2. InHand(k) => InHand(k)'
      BY <2>1 DEF InHand
    <3>3. \A x \in Pushers : k \in push[x] => k \in push'[x]
      BY <1>0, <2>1
    <3> QED
      BY <1>0, <1>h, <2>1, <3>1, <3>2, <3>3, HeldKept DEF Queued
  <2> QED
    BY <2>2, <2>3
<1> QED
  BY <1>1, <1>2

LEMMA AdminForgets ==
  ASSUME RedisTypes, PushersInv, NoneForgotten, NEW a \in Admins,
         AdminStep(a), NEW k \in Queued' \ lost'
  PROVE  Held(k)'
<1>0. /\ k \in Jobs /\ push \in [Pushers -> SUBSET Jobs] /\ a \in Pushers
      /\ SharedTypes /\ QueueOf[k] \in Queues /\ RequestOK(a)
  BY QueueAssumption
  DEF RedisTypes, PushesOK, Queued, Pushers, PushersInv
<1>h. k \in Queued /\ k \notin lost => Held(k)
  BY DEF NoneForgotten, Held
<1>s. UNCHANGED sched
  <2>1. CASE ControlStep(a)
    BY <2>1, SchedKept
  <2> QED
    BY <2>1 DEF AdminStep, JobControl, Cleanup, Reread, PauseQueue, ControlStep,
                FlushNamespace, CtlUnchanged, vars
<1>i. InHand(k) => InHand(k)'
  BY <1>s DEF InHand
<1>1. CASE JobControl(a)
  <2>1. Account({}, {}) /\ UNCHANGED <<list, push>>
    BY <1>1 DEF JobControl
  <2>2. k \notin lost
    BY <2>1, AccountFor
  <2>3. CASE \E j \in Jobs, op \in JobOps : ControlRead(a, op, j) /\ UNCHANGED reread
    BY <1>0, <1>h, <1>i, <2>1, <2>2, <2>3, HeldKept DEF ControlRead, Queued
  <2>4. ASSUME NEW j \in Jobs, ControlWrite(a, j),
               reread' = IF ctl[a].op = "stop" THEN reread
                         ELSE reread \cup {<<a, j>>}
        PROVE  Held(k)'
    <3>1. CASE k \in Queued
      BY <1>0, <1>h, <1>i, <2>1, <2>2, <2>4, <3>1, HeldKept
    <3>2. CASE k \notin Queued
      <4>1. k = j /\ ctl[a].op # "stop"
        BY <1>0, <2>4, <3>2, ControlStatus DEF Queued
      <4> QED
        BY <2>4, <4>1 DEF Held
    <3> QED
      BY <3>1, <3>2
  <2> QED
    BY <1>1, <2>3, <2>4 DEF JobControl
<1>2. CASE Cleanup(a)
  <2>1. Account({}, {}) /\ UNCHANGED <<list, push, reread>>
    BY <1>2 DEF Cleanup
  <2>2. k \notin lost
    BY <2>1, AccountFor
  <2>3. UNCHANGED row \/ \E js : Delete(js)
    BY <1>2 DEF Cleanup, CleanupAll, CleanupRead, CleanupWrite
  <2>4. k \in Queued
    BY <1>0, <2>3, DeleteStatus DEF Queued
  <2> QED
    BY <1>0, <1>h, <1>i, <2>1, <2>2, <2>4, HeldKept
<1>3. ASSUME NEW j \in Jobs, Reread(a, j)
      PROVE  Held(k)'
  <2>1. /\ UNCHANGED <<row, list>> /\ reread' = reread \ {<<a, j>>}
        /\ push' = [push EXCEPT ![a] = IF row[j].st = "queued" THEN {j} ELSE {}]
        /\ Account({}, push'[a]) /\ push[a] = {}
    BY <1>0, <1>3 DEF Reread, vars, RequestOK
  <2>2. CASE k \in push'[a]
    BY <1>0, <2>2 DEF Held
  <2>3. CASE k \notin push'[a]
    <3>1. k \notin lost /\ k \in Queued
      BY <2>1, <2>3, AccountFor DEF Queued
    <3>2. k # j
      BY <1>0, <2>1, <2>3, <3>1 DEF Queued
    <3>3. \A x \in Pushers : k \in push[x] => k \in push'[x]
      BY <1>0, <2>1
    <3>4. \A b \in Admins : <<b, k>> \in reread => <<b, k>> \in reread'
      BY <2>1, <3>2
    <3> QED
      BY <1>0, <1>h, <1>i, <2>1, <3>1, <3>3, <3>4, HeldKept
  <2> QED
    BY <2>2, <2>3
<1>4. ASSUME NEW q \in Queues, NEW b \in BOOLEAN, PauseQueue(a, q, b)
      PROVE  Held(k)'
  <2>1. /\ UNCHANGED <<row, list, reread>>
        /\ push' = [push EXCEPT ![a] = Waiting(q, b)]
        /\ Account({}, Waiting(q, b)) /\ push[a] = {}
    BY <1>0, <1>4 DEF PauseQueue, QueuePause, RequestOK
  <2>2. CASE k \in Waiting(q, b)
    BY <1>0, <2>1, <2>2 DEF Held
  <2>3. CASE k \notin Waiting(q, b)
    <3>1. k \notin lost /\ k \in Queued
      BY <2>1, <2>3, AccountFor DEF Queued
    <3>2. \A x \in Pushers : k \in push[x] => k \in push'[x]
      BY <1>0, <2>1
    <3> QED
      BY <1>0, <1>h, <1>i, <2>1, <3>1, <3>2, HeldKept
  <2> QED
    BY <2>2, <2>3
<1>5. CASE FlushNamespace(a)
  <2>1. /\ UNCHANGED <<row, push, reread>>
        /\ Account(UNION {Range(list[q]) : q \in Queues}, {})
    BY <1>5 DEF FlushNamespace
  <2>2. k \notin lost /\ k \notin Range(list[QueueOf[k]])
    BY <1>0, <2>1, AccountFor
  <2> QED
    BY <1>0, <1>h, <1>i, <2>1, <2>2, HeldKept DEF Queued
<1> QED
  BY <1>1, <1>2, <1>3, <1>4, <1>5 DEF AdminStep

LEMMA ForgottenMove ==
  ASSUME RedisTypes, PushersInv, NoneForgotten, RedisMove
  PROVE  NoneForgotten'
<1> SUFFICES ASSUME NEW k \in Queued' \ lost'
             PROVE  Held(k)'
  BY DEF NoneForgotten, Held
<1>0. k \in Jobs /\ push \in [Pushers -> SUBSET Jobs]
  BY DEF RedisTypes, PushesOK, Queued
<1>h. k \in Queued /\ k \notin lost => Held(k)
  BY DEF NoneForgotten, Held
<1>1. CASE UNCHANGED <<row, sched, list, push, reread, lost>>
  BY <1>h, <1>1 DEF Held, InHand, Queued
<1>2. CASE RedisStep
  BY <1>2, LoopForgets, PushForgets, ProcessForgets, AdminForgets DEF RedisStep
<1>3. CASE ThreadStep
  <2>1. /\ Account({j \in Jobs : row[j].st # "queued" /\ row'[j].st = "queued"}, {})
        /\ UNCHANGED <<sched, list, push, reread>>
    BY <1>3, SchedKept DEF ThreadStep, BesideThreads
  <2>2. k \notin lost /\ k \in Queued
    BY <1>0, <2>1, AccountFor DEF Queued
  <2>3. InHand(k) => InHand(k)'
    BY <2>1 DEF InHand
  <2> QED
    BY <1>0, <1>h, <2>1, <2>2, <2>3, HeldKept
<1>4. ASSUME NEW j \in Jobs, EnqueueJob(j)
      PROVE  Held(k)'
  <2>1. /\ Account({}, {}) /\ push' = [push EXCEPT ![Web] = @ \cup {j}]
        /\ UNCHANGED <<sched, list, reread>>
        /\ SetRow(j, [row[j] EXCEPT !.st = "queued"])
    BY <1>4 DEF EnqueueJob, Enqueue
  <2>2. CASE k = j
    <3>1. Web \in Pushers
      BY DEF Pushers
    <3> QED
      BY <1>0, <2>1, <2>2, <3>1 DEF Held
  <2>3. CASE k # j
    <3>1. row'[k] = row[k]
      BY <1>0, <2>1, <2>3 DEF SetRow, RedisTypes, SharedTypes
    <3>2. k \notin lost /\ k \in Queued
      BY <1>0, <2>1, <3>1, AccountFor DEF Queued
    <3>3. InHand(k) => InHand(k)'
      BY <2>1 DEF InHand
    <3>4. \A x \in Pushers : k \in push[x] => k \in push'[x]
      BY <1>0, <2>1
    <3> QED
      BY <1>0, <1>h, <2>1, <3>2, <3>3, <3>4, HeldKept
  <2> QED
    BY <2>2, <2>3
<1> QED
  BY <1>1, <1>2, <1>3, <1>4
  DEF RedisMove, RedisNext, FaultElsewhere, vars, allVars, redisVars

-----------------------------------------------------------------------------
(* Capacity.  A worker that counts a free slot reserves one: what runs in a*)
(* queue and the workers that have counted for it share its concurrency,   *)
(* what the other workers may have counted at the same time, and what job  *)
(* controls put back to running without counting.                          *)

Counted(q) == {p \in Procs : /\ sched[p].pc = "write"
                             /\ sched[p].slots > 0
                             /\ sched[p].queue = q}

AnsweredBy == {a \in Admins : ctl[a].op = "done"}

Reserved(q) ==
  Cardinality(RowsOf(q, "running")) + Cardinality(Counted(q))
    <= Concurrency[q] + Cardinality(Procs) - 1 + Cardinality(AnsweredBy)

CapacityInv == \A q \in Queues : Reserved(q)

\* The sets that are counted are finite.
LEMMA FiniteParts ==
  ASSUME NEW q
  PROVE  /\ IsFiniteSet(RowsOf(q, "running")) /\ IsFiniteSet(RowsOf(q, "running")')
         /\ IsFiniteSet(Counted(q)) /\ IsFiniteSet(Counted(q)')
         /\ IsFiniteSet(AnsweredBy) /\ IsFiniteSet(AnsweredBy')
<1>1. IsFiniteSet(Jobs) /\ IsFiniteSet(Procs) /\ IsFiniteSet(Admins)
  BY JobsAssumption, PushersAssumption
<1>2. /\ RowsOf(q, "running") \subseteq Jobs /\ RowsOf(q, "running")' \subseteq Jobs
      /\ Counted(q) \subseteq Procs /\ Counted(q)' \subseteq Procs
      /\ AnsweredBy \subseteq Admins /\ AnsweredBy' \subseteq Admins
  BY DEF RowsOf, Counted, AnsweredBy
<1> QED
  BY <1>1, <1>2, FS_Subset

LEMMA CountOneMore ==
  ASSUME NEW S, NEW T, NEW x, IsFiniteSet(T), S \subseteq T \cup {x}
  PROVE  IsFiniteSet(S) /\ Cardinality(S) <= Cardinality(T) + 1
<1>1. /\ IsFiniteSet(T \cup {x})
      /\ Cardinality(T \cup {x}) = Cardinality(T) \/ Cardinality(T \cup {x}) = Cardinality(T) + 1
      /\ Cardinality(T) \in Nat
  BY FS_AddElement, FS_CardinalityType
<1>2. IsFiniteSet(S) /\ Cardinality(S) <= Cardinality(T \cup {x})
  BY <1>1, FS_Subset
<1>3. Cardinality(S) \in Nat
  BY <1>2, FS_CardinalityType
<1> QED
  BY <1>1, <1>2, <1>3

LEMMA CountOneLess ==
  ASSUME NEW S, NEW T, NEW x \in T, IsFiniteSet(T), S \subseteq T \ {x}
  PROVE  Cardinality(S) + 1 <= Cardinality(T)
<1>1. /\ IsFiniteSet(T \ {x}) /\ Cardinality(T \ {x}) = Cardinality(T) - 1
      /\ Cardinality(T) \in Nat
  BY FS_RemoveElement, FS_CardinalityType
<1>2. IsFiniteSet(S) /\ Cardinality(S) <= Cardinality(T \ {x})
  BY <1>1, FS_Subset
<1>3. Cardinality(S) \in Nat
  BY <1>2, FS_CardinalityType
<1> QED
  BY <1>1, <1>2, <1>3

\* Nothing is reserved by a step that starts, counts and answers nothing.
LEMMA ReservedKept ==
  ASSUME NEW q \in Queues, Reserved(q),
         RowsOf(q, "running")' \subseteq RowsOf(q, "running"),
         Counted(q)' \subseteq Counted(q),
         AnsweredBy \subseteq AnsweredBy'
  PROVE  Reserved(q)'
<1>1. /\ Cardinality(RowsOf(q, "running")') <= Cardinality(RowsOf(q, "running"))
      /\ Cardinality(Counted(q)') <= Cardinality(Counted(q))
      /\ Cardinality(AnsweredBy) <= Cardinality(AnsweredBy')
  BY FiniteParts, FS_Subset
<1>2. /\ Cardinality(RowsOf(q, "running")) \in Nat
      /\ Cardinality(RowsOf(q, "running")') \in Nat
      /\ Cardinality(Counted(q)) \in Nat /\ Cardinality(Counted(q)') \in Nat
      /\ Cardinality(AnsweredBy) \in Nat /\ Cardinality(AnsweredBy') \in Nat
      /\ Cardinality(Procs) \in Nat /\ Concurrency[q] \in Nat
  BY FiniteParts, FS_CardinalityType, PushersAssumption, ConcurrencyAssumption
<1> QED
  BY <1>1, <1>2 DEF Reserved

\* Only a claim and a control put a job to running, ...
LEMMA NoneStarted ==
  ASSUME RedisTypes, RedisMove,
         ~ \E p \in Procs, j \in Jobs : MarkWrite(p, j),
         ~ \E a \in Admins, j \in Jobs : ControlWrite(a, j)
  PROVE  \A q \in Queues : RowsOf(q, "running")' \subseteq RowsOf(q, "running")
<1> SUFFICES ASSUME NEW k \in Jobs, row'[k].st = "running"
             PROVE  row[k].st = "running"
  BY DEF RowsOf
<1>0. SharedTypes
  BY DEF RedisTypes
<1>1. CASE UNCHANGED row
  BY <1>1
<1>2. ASSUME NEW p \in Procs, LoopStep(p) \/ LoopFails(p) \/ CrashWorker(p)
                               \/ RestartWorker(p)
      PROVE  UNCHANGED row
  BY <1>2
  DEF LoopStep, LoopFails, LoopStart, TickStart, Pop, PopNothing, MarkRead,
      ClaimRead, MarkRefused, MarkCount, SpawnPopped, PutBack, CrashWorker,
      Crash, RestartWorker, Restart
<1>3. ASSUME NEW a \in Admins, AdminStep(a)
      PROVE  row[k].st = "running"
  <2>1. UNCHANGED row \/ \E js : Delete(js)
    BY <1>3 DEF AdminStep, JobControl, ControlRead, Cleanup, CleanupAll,
                CleanupRead, CleanupWrite, Reread, PauseQueue, QueuePause,
                FlushNamespace, vars
  <2> QED
    BY <2>1, DeleteStatus
<1>4. CASE ThreadStep
  BY <1>0, <1>4, RunnerStatus, HandlerStatus DEF ThreadStep
<1>5. ASSUME NEW j \in Jobs, EnqueueJob(j)
      PROVE  row[k].st = "running"
  <2>1. [row[j] EXCEPT !.st = "queued"].st = "queued"
    BY <1>0 DEF SharedTypes, Row
  <2> QED
    BY <1>0, <1>5, <2>1, SetRowStatus DEF EnqueueJob, Enqueue
<1> QED
  BY <1>1, <1>2, <1>3, <1>4, <1>5
  DEF RedisMove, RedisNext, RedisStep, FaultElsewhere, Push, PushFails, vars,
      allVars

\* ... only a count reserves a slot, ...
LEMMA NoneCounted ==
  ASSUME RedisTypes, RedisMove, ~ \E p \in Procs : MarkCount(p)
  PROVE  \A q \in Queues : Counted(q)' \subseteq Counted(q)
<1>1. CASE UNCHANGED sched
  BY <1>1 DEF Counted
<1>2. ASSUME NEW p \in Procs, NEW w, SetSched(p, w),
             w.pc # "write" \/ ~(w.slots > 0)
      PROVE  \A q \in Queues : Counted(q)' \subseteq Counted(q)
  BY <1>2 DEF SetSched, Counted, RedisTypes, WorkersOK
<1>i. Idle.pc # "write"
  BY DEF Idle
<1>3. ASSUME NEW p \in Procs, LoopStep(p) \/ LoopFails(p)
      PROVE  \A q \in Queues : Counted(q)' \subseteq Counted(q)
  <2>0. sched[p] \in Worker /\ Regular(sched[p])
    BY DEF RedisTypes, WorkersOK
  <2>1. CASE LoopStart(p)
    <3>1. SetSched(p, [Idle EXCEPT !.pc = "count",
                                   !.todo = {q \in Queues : ~qpaused[q]}])
      BY <2>1 DEF LoopStart, TickStart
    <3>2. [Idle EXCEPT !.pc = "count",
                       !.todo = {q \in Queues : ~qpaused[q]}].pc = "count"
      BY DEF Idle
    <3> QED
      BY <1>2, <3>1, <3>2
  <2>2. ASSUME NEW q \in Queues, Pop(p, q)
        PROVE  \A r \in Queues : Counted(r)' \subseteq Counted(r)
    <3> DEFINE w == [Idle EXCEPT !.pc = "claim", !.queue = q, !.held = "expired",
                                 !.cand = {Head(list[q])}]
    <3>1. SetSched(p, w)
      BY <2>2 DEF Pop
    <3>2. w.pc = "claim"
      BY DEF Idle
    <3> HIDE DEF w
    <3> QED
      BY <1>2, <3>1, <3>2
  <2>3. ASSUME NEW j \in Jobs, MarkRead(p, j)
        PROVE  \A r \in Queues : Counted(r)' \subseteq Counted(r)
    <3> DEFINE w == [sched[p] EXCEPT !.pc = "write", !.seen = row[j]]
    <3>1. SetSched(p, w) /\ sched[p].pc = "claim"
      BY <2>3 DEF MarkRead, ClaimRead
    <3>2. w.slots = 0
      BY <2>0, <3>1 DEF Worker, Regular
    <3> HIDE DEF w
    <3>3. ~(w.slots > 0)
      BY <3>2
    <3> QED
      BY <1>2, <3>1, <3>3
  <2>4. ASSUME NEW j \in Jobs, MarkRefused(p, j)
        PROVE  \A r \in Queues : Counted(r)' \subseteq Counted(r)
    <3> DEFINE w == [sched[p] EXCEPT !.pc = "putback"]
    <3>1. SetSched(p, w)
      BY <2>4 DEF MarkRefused
    <3>2. w.pc = "putback"
      BY <2>0 DEF Worker
    <3> HIDE DEF w
    <3> QED
      BY <1>2, <3>1, <3>2
  <2>5. ASSUME NEW j \in Jobs, MarkWrite(p, j)
        PROVE  \A r \in Queues : Counted(r)' \subseteq Counted(r)
    <3> DEFINE w == [sched[p] EXCEPT !.pc = "spawn", !.fresh = TRUE,
                                     !.held = "expired", !.seen = NoRow]
    <3>1. SetSched(p, w) \/ SetSched(p, Idle)
      BY <2>5 DEF MarkWrite, ClaimWrite
    <3>2. w.pc = "spawn"
      BY <2>0 DEF Worker
    <3> HIDE DEF w
    <3> QED
      BY <1>2, <1>i, <3>1, <3>2
  <2>6. CASE SetSched(p, Idle)
    BY <1>2, <1>i, <2>6
  <2> QED
    BY <1>3, <2>1, <2>2, <2>3, <2>4, <2>5, <2>6
    DEF LoopStep, LoopFails, PopNothing, SpawnPopped, PutBack
<1>4. ASSUME NEW p \in Procs, CrashWorker(p)
      PROVE  \A q \in Queues : Counted(q)' \subseteq Counted(q)
  BY <1>2, <1>i, <1>4 DEF CrashWorker, Crash, SetSched
<1> QED
  BY <1>1, <1>3, <1>4, WorkersKept

\* ... and a request that has been answered stays so.
LEMMA AnswersKept ==
  ASSUME RedisTypes, RedisMove
  PROVE  AnsweredBy \subseteq AnsweredBy'
<1>0. ctl \in [Admins -> Ctl]
  BY DEF RedisTypes, SharedTypes
<1>1. CASE UNCHANGED ctl
  BY <1>1 DEF AnsweredBy
<1>2. ASSUME NEW a \in Admins, NEW c, SetCtl(a, c), ctl[a].op # "done"
      PROVE  AnsweredBy \subseteq AnsweredBy'
  BY <1>0, <1>2 DEF SetCtl, AnsweredBy
<1>3. ASSUME NEW a \in Admins, AdminStep(a)
      PROVE  AnsweredBy \subseteq AnsweredBy'
  <2>1. UNCHANGED ctl \/ (ctl[a].op # "done" /\ \E c : SetCtl(a, c))
    BY <1>3
    DEF AdminStep, JobControl, ControlRead, ControlWrite, JobOps, Cleanup,
        CleanupAll, CleanupRead, CleanupWrite, Reread, PauseQueue, QueuePause,
        FlushNamespace, vars
  <2> QED
    BY <1>1, <1>2, <2>1
<1>4. CASE ThreadStep
  <2>1. ASSUME NEW p \in Procs, NEW j \in Jobs, RunnerStep(p, j)
        PROVE  UNCHANGED ctl
    BY <2>1 DEF RunnerStep, RunGone, RunUnknown, RunOpen, RunStart, RunJoin, RunTimeout,
                RunReread, RunFinalWrite, RunFailWrite, RunExit, RunnerUnchanged
  <2>2. ASSUME NEW j \in Jobs, NEW n \in Starts, HandlerStep(j, n)
        PROVE  UNCHANGED ctl
    BY <2>2 DEF HandlerStep, HandlerPoll, HandlerWait, HandlerHalt, HandlerWork,
                HandlerReturn, HandlerRaise, HandlerUnchanged
  <2> QED
    BY <1>1, <1>4, <2>1, <2>2 DEF ThreadStep
<1>5. ASSUME NEW p \in Procs, LoopStep(p) \/ LoopFails(p) \/ CrashWorker(p)
                               \/ RestartWorker(p)
      PROVE  UNCHANGED ctl
  BY <1>5
  DEF LoopStep, LoopFails, LoopStart, TickStart, Pop, PopNothing, MarkRead,
      ClaimRead, MarkRefused, MarkCount, MarkWrite, ClaimWrite, SpawnPopped,
      PutBack, CrashWorker, Crash, RestartWorker, Restart, SchedUnchanged
<1> QED
  BY <1>1, <1>3, <1>4, <1>5
  DEF RedisMove, RedisNext, RedisStep, FaultElsewhere, Push, PushFails,
      EnqueueJob, Enqueue, vars, allVars

\* The numbers that Reserved compares.
LEMMA CountTypes ==
  ASSUME NEW q \in Queues
  PROVE  /\ Cardinality(RowsOf(q, "running")) \in Nat
         /\ Cardinality(RowsOf(q, "running")') \in Nat
         /\ Cardinality(Counted(q)) \in Nat /\ Cardinality(Counted(q)') \in Nat
         /\ Cardinality(AnsweredBy) \in Nat /\ Cardinality(AnsweredBy') \in Nat
         /\ Cardinality(Procs) \in Nat /\ Concurrency[q] \in Nat
BY FiniteParts, FS_CardinalityType, PushersAssumption, ConcurrencyAssumption

\* Counting a slot reserves it.
LEMMA ReservedByCount ==
  ASSUME RedisTypes, RedisMove, CapacityInv, NEW p \in Procs, MarkCount(p),
         NEW q \in Queues
  PROVE  Reserved(q)'
<1>0. sched[p] \in Worker /\ sched \in [Procs -> Worker] /\ Reserved(q)
  BY DEF RedisTypes, WorkersOK, CapacityInv
<1>1. UNCHANGED row /\ UNCHANGED ctl
  BY DEF MarkCount, SchedUnchanged
<1>2. /\ RowsOf(q, "running")' = RowsOf(q, "running")
      /\ AnsweredBy \subseteq AnsweredBy'
  BY <1>1 DEF RowsOf, AnsweredBy
<1> DEFINE slots   == Slots(sched[p].queue)
           counted == [sched[p] EXCEPT !.slots = slots]
           refused == [sched[p] EXCEPT !.pc = "putback", !.seen = NoRow]
<1>3. /\ sched[p].pc = "write" /\ sched[p].slots = 0
      /\ SetSched(p, IF slots > 0 THEN counted ELSE refused)
  BY DEF MarkCount
<1>4. /\ counted.queue = sched[p].queue
      /\ refused.pc = "putback"
  BY <1>0 DEF Worker
<1>5. slots > 0 =>
        Cardinality(RowsOf(sched[p].queue, "running")) < Concurrency[sched[p].queue]
  BY DEF Slots
<1> HIDE DEF counted, refused, slots
<1>6. CASE slots > 0 /\ sched[p].queue = q
  <2>1. Cardinality(RowsOf(q, "running")) < Concurrency[q]
    BY <1>5, <1>6
  <2>2. Counted(q)' \in SUBSET Procs
    BY DEF Counted
  <2>3. Cardinality(Counted(q)') <= Cardinality(Procs)
    BY <2>2, FS_Subset, PushersAssumption
  <2>4. Cardinality(RowsOf(q, "running")') = Cardinality(RowsOf(q, "running"))
    BY <1>2
  <2> QED
    BY <2>1, <2>3, <2>4, CountTypes DEF Reserved
<1>7. CASE ~(slots > 0 /\ sched[p].queue = q)
  <2>1. sched' = [sched EXCEPT ![p] = IF slots > 0 THEN counted ELSE refused]
    BY <1>3 DEF SetSched
  <2>2. Counted(q)' \subseteq Counted(q)
    BY <1>0, <1>4, <1>7, <2>1 DEF Counted
  <2> QED
    BY <1>0, <1>2, <2>2, ReservedKept
<1> QED
  BY <1>6, <1>7

\* A claim uses the slot its worker has reserved.
LEMMA ReservedByClaim ==
  ASSUME RedisTypes, RedisMove, CapacityInv, NEW p \in Procs, NEW j \in Jobs,
         MarkWrite(p, j), NEW q \in Queues
  PROVE  Reserved(q)'
<1>0. /\ sched[p] \in Worker /\ Regular(sched[p])
      /\ sched \in [Procs -> Worker] /\ Reserved(q)
  BY DEF RedisTypes, WorkersOK, CapacityInv
<1>1. /\ sched[p].pc = "write" /\ sched[p].slots > 0
      /\ j \in sched[p].cand
  BY DEF MarkWrite, ClaimWrite, IsNext
<1>2. QueueOf[j] = sched[p].queue
  BY <1>0, <1>1 DEF Regular, Holding
<1>3. AnsweredBy \subseteq AnsweredBy' /\ ~ \E x \in Procs : MarkCount(x)
  <2>1. AnsweredBy \subseteq AnsweredBy'
    BY AnswersKept
  <2>2. sched'[p].pc # "write"
    <3> DEFINE w == [sched[p] EXCEPT !.pc = "spawn", !.fresh = TRUE,
                                     !.held = "expired", !.seen = NoRow]
    <3>1. SetSched(p, w) \/ SetSched(p, Idle)
      BY DEF MarkWrite, ClaimWrite
    <3>2. w.pc = "spawn" /\ Idle.pc = "idle"
      BY <1>0 DEF Worker, Idle
    <3> HIDE DEF w
    <3> QED
      BY <1>0, <3>1, <3>2 DEF SetSched
  <2>3. ASSUME NEW x \in Procs, MarkCount(x)
        PROVE  FALSE
    <3> DEFINE slots   == Slots(sched[x].queue)
               counted == [sched[x] EXCEPT !.slots = slots]
               refused == [sched[x] EXCEPT !.pc = "putback", !.seen = NoRow]
    <3>1. /\ sched[x].slots = 0
          /\ SetSched(x, IF slots > 0 THEN counted ELSE refused)
      BY <2>3 DEF MarkCount
    <3>2. x # p
      BY <1>1, <3>1
    <3>3. sched'[p] = sched[p]
      BY <1>0, <3>1, <3>2 DEF SetSched
    <3> QED
      BY <1>1, <2>2, <3>3
  <2> QED
    BY <2>1, <2>3
<1>4. Counted(q)' \subseteq Counted(q)
  BY <1>3, NoneCounted
<1>5. CASE QueueOf[j] # q \/ ~Exists(row[j])
  <2>1. RowsOf(q, "running")' \subseteq RowsOf(q, "running")
    BY <1>5, MarkStatus DEF RowsOf
  <2> QED
    BY <1>0, <1>3, <1>4, <2>1, ReservedKept
<1>6. CASE QueueOf[j] = q /\ Exists(row[j])
  <2>1. RowsOf(q, "running")' \subseteq RowsOf(q, "running") \cup {j}
    BY <1>6, MarkStatus DEF RowsOf
  <2>2. p \in Counted(q)
    BY <1>1, <1>2, <1>6 DEF Counted
  <2>3. p \notin Counted(q)'
    <3> DEFINE w == [sched[p] EXCEPT !.pc = "spawn", !.fresh = TRUE,
                                     !.held = "expired", !.seen = NoRow]
    <3>1. SetSched(p, w)
      BY <1>6 DEF MarkWrite, ClaimWrite
    <3>2. w.pc = "spawn"
      BY <1>0 DEF Worker
    <3> HIDE DEF w
    <3> QED
      BY <1>0, <3>1, <3>2 DEF SetSched, Counted
  <2>4. Cardinality(Counted(q)') + 1 <= Cardinality(Counted(q))
    BY <1>4, <2>2, <2>3, CountOneLess, FiniteParts
  <2>5. Cardinality(RowsOf(q, "running")') <= Cardinality(RowsOf(q, "running")) + 1
    BY <2>1, CountOneMore, FiniteParts
  <2>6. Cardinality(AnsweredBy) <= Cardinality(AnsweredBy')
    BY <1>3, FS_Subset, FiniteParts
  <2> QED
    BY <1>0, <2>4, <2>5, <2>6, CountTypes DEF Reserved
<1> QED
  BY <1>5, <1>6

\* A control that puts a job back to running has been answered for it.
LEMMA ReservedByControl ==
  ASSUME RedisTypes, RedisMove, CapacityInv, NEW a \in Admins, NEW j \in Jobs,
         ControlWrite(a, j), NEW q \in Queues
  PROVE  Reserved(q)'
<1>0. SharedTypes /\ Reserved(q)
  BY DEF RedisTypes, CapacityInv
<1>1. UNCHANGED sched /\ SetCtl(a, Answered) /\ ctl[a].op # "done"
  BY DEF ControlWrite, JobOps, CtlUnchanged
<1>2. Counted(q)' = Counted(q)
  BY <1>1 DEF Counted
<1>3. a \in AnsweredBy' /\ a \notin AnsweredBy /\ AnsweredBy \subseteq AnsweredBy'
  BY <1>0, <1>1 DEF SharedTypes, SetCtl, AnsweredBy, Answered, Request
<1>4. RowsOf(q, "running")' \subseteq RowsOf(q, "running") \cup {j}
  BY <1>0, ControlStatus DEF RowsOf
<1>5. Cardinality(RowsOf(q, "running")') <= Cardinality(RowsOf(q, "running")) + 1
  BY <1>4, CountOneMore, FiniteParts
<1>6. Cardinality(AnsweredBy) + 1 <= Cardinality(AnsweredBy')
  BY <1>3, CountOneLess, FiniteParts
<1> QED
  BY <1>0, <1>2, <1>5, <1>6, CountTypes DEF Reserved

LEMMA CapacityMove ==
  ASSUME RedisTypes, RedisMove, CapacityInv
  PROVE  CapacityInv'
<1> SUFFICES ASSUME NEW q \in Queues
             PROVE  Reserved(q)'
  BY DEF CapacityInv
<1>1. CASE \/ \E p \in Procs : MarkCount(p) \/ \E j \in Jobs : MarkWrite(p, j)
           \/ \E a \in Admins, j \in Jobs : ControlWrite(a, j)
  BY <1>1, ReservedByCount, ReservedByClaim, ReservedByControl
<1>2. CASE ~ (\/ \E p \in Procs : MarkCount(p) \/ \E j \in Jobs : MarkWrite(p, j)
              \/ \E a \in Admins, j \in Jobs : ControlWrite(a, j))
  BY <1>2, NoneStarted, NoneCounted, AnswersKept, ReservedKept DEF CapacityInv
<1> QED
  BY <1>1, <1>2

LEMMA CapacityInit ==
  ASSUME RedisInit
  PROVE  CapacityInv
<1> SUFFICES ASSUME NEW q \in Queues
             PROVE  Reserved(q)
  BY DEF CapacityInv
<1>1. RowsOf(q, "running") = {} /\ Counted(q) = {} /\ AnsweredBy = {}
  BY DEF RedisInit, Init, RowsOf, NoRow, Counted, Idle, AnsweredBy, NoRequest,
         Request
<1>2. Cardinality(Procs) # 0
  BY PushersAssumption, NonEmptyAssumption, FS_EmptySet
<1>3. Concurrency[q] \in Nat /\ Cardinality(Procs) \in Nat
  BY CountTypes
<1> QED
  BY <1>1, <1>2, <1>3, FS_EmptySet DEF Reserved

LEMMA CapacitySuffices == RedisTypes /\ CapacityInv => CapacityBounded
<1> SUFFICES ASSUME RedisTypes, CapacityInv, NEW q \in Queues
             PROVE  Cardinality(RowsOf(q, "running"))
                      <= Concurrency[q] + Cardinality(Procs) - 1
                           + Cardinality(AnsweredBy)
  BY DEF CapacityBounded, AnsweredBy
<1>1. Reserved(q)
  BY DEF CapacityInv
<1> QED
  BY <1>1, CountTypes DEF Reserved

LEMMA PushersInit == RedisInit => PushersInv /\ NoneForgotten
BY PushersAssumption
DEF RedisInit, Init, PushersInv, DownOK, RequestOK, NoneForgotten, Queued,
    NoRow, NoRequest, Request, Pushers

-----------------------------------------------------------------------------
(* The theorems of the Redis runtime by itself.                            *)

\* What the runtime keeps.
RedisInv == RedisTypes /\ PushersInv /\ NoneForgotten /\ CapacityInv

LEMMA RedisInvInit == RedisInit => RedisInv
BY RedisTypesInit, PushersInit, CapacityInit DEF RedisInv

LEMMA RedisInvMove == RedisInv /\ RedisMove => RedisInv'
BY RedisTypesMove, PushersMove, ForgottenMove, CapacityMove DEF RedisInv

LEMMA RedisInvSuffices == RedisInv => RedisTypeOK /\ CapacityBounded
BY TypesSuffice, CapacitySuffices DEF RedisInv

\* The Redis runtime, whatever its jobs are for, keeps its types, forgets no
\* queued job but those a fault or a retry took from it, and overruns the
\* concurrency of a queue by no more than the other workers and the answered
\* requests (_worker_loop_redis, _mark_job_running).
THEOREM RedisRuntimeCorrect ==
  RedisSpec => [](RedisTypeOK /\ NoneForgotten /\ CapacityBounded)
<1>1. RedisInv /\ [RedisNext]_allVars => RedisInv'
  BY RedisInvMove DEF RedisMove
<1>2. RedisInv => RedisTypeOK /\ NoneForgotten /\ CapacityBounded
  BY RedisInvSuffices DEF RedisInv
<1> QED
  BY <1>1, <1>2, RedisInvInit, PTL DEF RedisSpec
=============================================================================
