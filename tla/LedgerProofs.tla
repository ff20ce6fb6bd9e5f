---------------------------- MODULE LedgerProofs ----------------------------
(***************************************************************************)
(* One worker process implements the ledger of jobs, for any jobs, queues, *)
(* retries and crashes, and any handlers that time out.                    *)
(***************************************************************************)
EXTENDS JobRefinement, JobRuntimeProofs

-----------------------------------------------------------------------------
(* The invariant.  In every part p is the worker.                          *)

Serving  == {"start", "number", "join", "final", "finalw", "fail", "failw"}
Claiming == {"claim", "write", "spawn"}

\* The next attempt may be called: no stop is asked of the job, and the number
\* that its row keeps counts the calls, or less once a call left behind has
\* reported.
Ready(j) ==
  /\ ~row[j].stop
  /\ row[j].att <= starts[j]
  /\ j \notin Reporting => row[j].att = starts[j] /\ starts[j] <= MaxRetries[j]

RowOK(j) ==
  /\ row[j].st \in {"none", "queued", "running", "completed", "failed", "stopped"}
  /\ row[j].st = "none" => row[j] = NoRow /\ starts[j] = 0
  /\ row[j].st = "queued" => Ready(j)
  /\ row[j].stop => j \in Timed

\* A job thread serves a row that nothing changes under it but its own timeout
\* and the calls left behind.
ThreadOK(p, j) ==
  /\ runner[p][j].pc \in Serving => row[j].st \in {"running", "stopped"}
  /\ runner[p][j].pc \in {"start", "number"} => Ready(j)
  /\ runner[p][j].pc = "number" =>
       /\ j \in Known[p]
       /\ runner[p][j].seen.att <= starts[j]
       /\ j \notin Reporting => runner[p][j].seen.att = starts[j]
  /\ runner[p][j].pc \in {"join", "final", "finalw"} => ~row[j].stop
  /\ runner[p][j].pc \in WithAttempt =>
       /\ runner[p][j].att \in 1..starts[j]
       /\ j \notin Reporting => /\ runner[p][j].att = starts[j]
                                /\ starts[j] <= MaxRetries[j] + 1
  /\ runner[p][j].pc \in {"finalw", "failw"} =>
       /\ runner[p][j].seen.st \in {"running", "stopped"}
       /\ runner[p][j].seen.stop = row[j].stop
  /\ starts[j] > 0 => j \in Known[p]

\* Only a handler left behind finds a stop.
HandlersOK(j) ==
  \A n \in Starts :
    /\ handler[j][n].pc \in {"none", "poll", "halt", "work", "done", "err"}
    /\ handler[j][n].pc \in {"poll", "halt"} => j \in Pollers
    /\ handler[j][n].pc = "halt" \/ handler[j][n].late => j \in Timed
    /\ handler[j][n].pc # "none" => row[j].st # "none" /\ starts[j] > 0

\* A claim that has committed and not spawned its thread yet.
SpawnOK(p, j) ==
  Spawning(p, j) => /\ runner[p][j].pc \in {"none", "exit"}
                    /\ row[j].st \in {"running", "stopped"}
                    /\ Ready(j)

JobOK(p, j) == RowOK(j) /\ ThreadOK(p, j) /\ HandlersOK(j) /\ SpawnOK(p, j)

\* What the scheduler is about to claim is queued, unless a call left behind
\* has stopped it, leaves out no older job that waits for its first attempt,
\* and fits beside what is running.
Taken(p) == RowsOf(sched[p].queue, "running") \cup sched[p].cand

CandidateOK(p, c) ==
  /\ QueueOf[c] = sched[p].queue
  /\ runner[p][c].pc \notin Serving
  /\ ~Spawning(p, c) => row[c].st \in {"queued", "stopped"} /\ Ready(c)
  /\ sched[p].pc = "write" /\ IsNext(p, c) => sched[p].seen.st = "queued"
  /\ \A k \in Jobs \ sched[p].cand :
       k < c /\ QueueOf[k] = sched[p].queue /\ row[k].st = "queued"
         => starts[k] > 0

ClaimsOK(p) ==
  /\ sched[p].held # "paused"
  /\ sched[p].pc = "query" =>
       Cardinality(RowsOf(sched[p].queue, "running")) + sched[p].slots
         <= Concurrency[sched[p].queue]
  /\ sched[p].pc \in Claiming =>
       /\ \A c \in sched[p].cand : CandidateOK(p, c)
       /\ Cardinality(Taken(p)) <= Concurrency[sched[p].queue]

WorkerInv ==
  /\ \A q \in Queues : ~qpaused[q]
  /\ \A p \in Procs : ClaimsOK(p)
  /\ \A p \in Procs, j \in Jobs : JobOK(p, j)

-----------------------------------------------------------------------------
(* What a step that is not the job's, or not the scheduler's, leaves true. *)

LEMMA JobKept ==
  ASSUME NEW p \in Procs, NEW j \in Jobs, JobOK(p, j),
         row'[j] = row[j], starts'[j] = starts[j],
         runner'[p][j] = runner[p][j], handler'[j] = handler[j],
         Spawning(p, j)' => Spawning(p, j)
  PROVE  JobOK(p, j)'
BY DEF JobOK, RowOK, ThreadOK, HandlersOK, SpawnOK, Ready

LEMMA ClaimsKept ==
  ASSUME TypeOK, NEW p \in Procs, ClaimsOK(p), sched'[p] = sched[p],
         \A k \in Jobs : starts[k] > 0 => starts'[k] > 0,
         \A k \in Jobs : row'[k].st = "running" => row[k].st = "running",
         sched[p].pc \in Claiming =>
           /\ \A c \in sched[p].cand :
                /\ row'[c].st \in {row[c].st, "stopped"}
                /\ Ready(c) => Ready(c)'
                /\ runner'[p][c].pc \in Serving => runner[p][c].pc \in Serving
           /\ \A k \in Jobs : row'[k].st = "queued" =>
                \/ row[k].st = "queued"
                \/ starts'[k] > 0
                \/ \A c \in sched[p].cand : ~(k < c)
  PROVE  ClaimsOK(p)'
<1> DEFINE q == sched[p].queue
<1>0. sched[p] \in Sched
  BY DEF TypeOK
<1>1. q \in Queues /\ sched[p].cand \in SUBSET Jobs /\ sched[p].slots \in Nat
  BY <1>0 DEF Sched
<1>2. Concurrency[q] \in Nat
  BY <1>1, ConcurrencyAssumption
<1>3. RowsOf(q, "running")' \in SUBSET RowsOf(q, "running")
  BY DEF RowsOf
<1>4. RowsOf(q, "running") \in SUBSET Jobs /\ Taken(p) \in SUBSET Jobs
  BY <1>1 DEF RowsOf, Taken
<1>5. Taken(p)' \in SUBSET Taken(p)
  BY <1>3 DEF Taken
<1>6. /\ Cardinality(RowsOf(q, "running")') <= Cardinality(RowsOf(q, "running"))
      /\ Cardinality(Taken(p)') <= Cardinality(Taken(p))
  BY <1>3, <1>4, <1>5, SmallerCount
<1>7. /\ Cardinality(RowsOf(q, "running")') \in Nat
      /\ Cardinality(RowsOf(q, "running")) \in Nat
      /\ Cardinality(Taken(p)') \in Nat /\ Cardinality(Taken(p)) \in Nat
  BY <1>3, <1>4, <1>5, JobsFinite
<1>8. (sched[p].pc = "query" =>
         Cardinality(RowsOf(sched[p].queue, "running")) + sched[p].slots
           <= Concurrency[sched[p].queue])'
  BY <1>1, <1>2, <1>6, <1>7 DEF ClaimsOK
<1>9. ASSUME sched[p].pc \in Claiming
      PROVE  /\ Cardinality(Taken(p)') <= Concurrency[q]
             /\ \A c \in sched[p].cand : CandidateOK(p, c)'
  <2>1. Cardinality(Taken(p)') <= Concurrency[q]
    BY <1>2, <1>6, <1>7, <1>9 DEF ClaimsOK
  <2>2. ASSUME NEW c \in sched[p].cand
        PROVE  CandidateOK(p, c)'
    <3>1. /\ CandidateOK(p, c)
          /\ row'[c].st \in {row[c].st, "stopped"}
          /\ Ready(c) => Ready(c)'
          /\ runner'[p][c].pc \in Serving => runner[p][c].pc \in Serving
      BY <1>9 DEF ClaimsOK
    <3> QED
      BY <1>9, <3>1 DEF CandidateOK, Spawning, IsNext
  <2> QED
    BY <2>1, <2>2
<1> QED
  BY <1>8, <1>9 DEF ClaimsOK

\* A job with a thread that serves it is not a candidate.
LEMMA ServedNotClaimed ==
  ASSUME WorkerInv, NEW p \in Procs, NEW j \in Jobs,
         runner[p][j].pc \in Serving, sched[p].pc \in Claiming
  PROVE  j \notin sched[p].cand
BY DEF WorkerInv, ClaimsOK, CandidateOK

\* What a flush leaves of the columns that the ledger depends on.
LEMMA FlushFields ==
  ASSUME row \in [Jobs -> Row], NEW j \in Jobs, Exists(row[j]),
         NEW loaded \in Row, NEW new \in Row, NEW stamped,
         Flush(j, loaded, new, stamped)
  PROVE  /\ row'[j].st = IF new.st # loaded.st \/ "st" \in stamped
                         THEN new.st ELSE row[j].st
         /\ row'[j].stop = IF new.stop # loaded.stop \/ "stop" \in stamped
                           THEN new.stop ELSE row[j].stop
         /\ row'[j].att = IF new.att # loaded.att \/ "att" \in stamped
                          THEN new.att ELSE row[j].att
         /\ \A k \in Jobs : k # j => row'[k] = row[k]
<1> DEFINE r == Flushed(row[j], loaded, new, stamped)
<1>1. row' = [row EXCEPT ![j] = r]
  BY DEF Flush, SetRow
<1>2. r = [c \in DOMAIN row[j] |->
             IF new[c] # loaded[c] \/ c \in stamped THEN new[c] ELSE row[j][c]]
  BY DEF Flushed
<1>3. DOMAIN row[j] = {"st", "stop", "started", "finished", "att"}
  BY DEF Row
<1> HIDE DEF r
<1>4. /\ r.st = IF new.st # loaded.st \/ "st" \in stamped THEN new.st ELSE row[j].st
      /\ r.stop = IF new.stop # loaded.stop \/ "stop" \in stamped
                  THEN new.stop ELSE row[j].stop
      /\ r.att = IF new.att # loaded.att \/ "att" \in stamped THEN new.att ELSE row[j].att
  BY <1>2, <1>3
<1> QED
  BY <1>1, <1>4

-----------------------------------------------------------------------------
(* Steps of the ledger.                                                    *)

LEMMA LedgerMove ==
  ASSUME NEW j \in Jobs, NEW to,
         \A k \in Jobs : row'[k].st = IF k = j THEN to ELSE row[k].st,
         UNCHANGED starts
  PROVE  \A from : row[j].st \in {from, "stopped"} => Ledger!Move(j, from, to)
BY DEF Ledger!Move

LEMMA LedgerStutter ==
  ASSUME \A k \in Jobs : row'[k].st = row[k].st, UNCHANGED starts
  PROVE  UNCHANGED Ledger!vars
BY DEF Ledger!vars

LEMMA EnqueueLedger ==
  ASSUME TypeOK, WorkerInv, InOrder, NEW i \in Jobs, Enqueue(i)
  PROVE  WorkerInv' /\ Ledger!Next
<1>0. row[i] = NoRow /\ starts[i] = 0 /\ row \in [Jobs -> Row]
  BY NonEmptyAssumption DEF Enqueue, WorkerInv, JobOK, RowOK, TypeOK
<1>1. /\ row'[i] = [NoRow EXCEPT !.st = "queued"]
      /\ \A k \in Jobs : k # i => row'[k] = row[k]
      /\ UNCHANGED <<qpaused, sched, runner, handler, starts>>
  BY <1>0 DEF Enqueue, SetRow
<1>2. row'[i].st = "queued" /\ row'[i].stop = FALSE /\ row'[i].att = 0
  BY <1>1 DEF NoRow
<1>3. ASSUME NEW p \in Procs, NEW j \in Jobs
      PROVE  JobOK(p, j)'
  <2>1. JobOK(p, j)
    BY DEF WorkerInv
  <2>2. CASE j # i
    BY <1>1, <2>1, <2>2, JobKept DEF Spawning, IsNext
  <2>3. CASE j = i
    <3>1. RowOK(i)'
      BY <1>0, <1>1, <1>2, RetriesAssumption DEF RowOK, Ready
    <3>2. runner[p][i].pc \notin Serving /\ ~Spawning(p, i)
      BY <1>0, <2>1, <2>3 DEF JobOK, ThreadOK, SpawnOK, NoRow
    <3>3. ThreadOK(p, i)' /\ SpawnOK(p, i)'
      BY <1>0, <1>1, <3>2 DEF ThreadOK, SpawnOK, Serving, WithAttempt, Spawning, IsNext
    <3>4. HandlersOK(i)'
      BY <1>1, <1>2, <2>1, <2>3 DEF JobOK, HandlersOK
    <3> QED
      BY <2>3, <3>1, <3>3, <3>4 DEF JobOK
  <2> QED
    BY <2>2, <2>3
<1>5. ASSUME NEW p \in Procs
      PROVE  ClaimsOK(p)'
  <2>1. ClaimsOK(p) /\ sched[p] \in Sched
    BY DEF WorkerInv, TypeOK
  <2>2. sched[p].cand \subseteq Jobs
    BY <2>1 DEF Sched
  <2>3. ASSUME sched[p].pc \in Claiming, NEW c \in sched[p].cand
        PROVE  row[c].st # "none"
    <3>1. CandidateOK(p, c) /\ JobOK(p, c)
      BY <2>1, <2>2, <2>3 DEF ClaimsOK, WorkerInv
    <3> QED
      BY <3>1 DEF CandidateOK, JobOK, SpawnOK
  <2>4. ASSUME sched[p].pc \in Claiming, NEW c \in sched[p].cand
        PROVE  c # i /\ ~(i < c)
    BY <1>0, <2>2, <2>3, <2>4 DEF InOrder, NoRow
  <2>5. ASSUME sched[p].pc \in Claiming, NEW c \in sched[p].cand
        PROVE  /\ row'[c].st \in {row[c].st, "stopped"}
               /\ Ready(c) => Ready(c)'
               /\ runner'[p][c].pc \in Serving => runner[p][c].pc \in Serving
    BY <1>1, <2>2, <2>4, <2>5 DEF Ready
  <2> QED
    BY <1>1, <1>2, <2>1, <2>2, <2>4, <2>5, ClaimsKept
<1>6. Ledger!Submit(i)
  <2>1. \A k \in Jobs : row'[k].st = IF k = i THEN "queued" ELSE row[k].st
    BY <1>1, <1>2
  <2>2. row[i].st = "none"
    BY <1>0 DEF NoRow
  <2>3. Ledger!Move(i, "none", "queued")
    BY <1>1, <2>1, <2>2, LedgerMove
  <2> QED
    BY <2>2, <2>3 DEF Ledger!Submit
<1> QED
  BY <1>1, <1>3, <1>5, <1>6 DEF WorkerInv, Ledger!Next

-----------------------------------------------------------------------------
(* The scheduler of the one worker.                                        *)

\* The parts of the invariant that a scheduler's own progress disturbs.
LEMMA TickLedger ==
  ASSUME TypeOK, WorkerInv, NEW p \in Procs, Procs = {p}, Ticks(p),
         UNCHANGED <<qpaused, handler, starts>>
  PROVE  WorkerInv' /\ UNCHANGED Ledger!vars
<1>0. sched[p] \in Sched /\ ClaimsOK(p)
  BY DEF TypeOK, WorkerInv
<1>1. UNCHANGED <<row, runner>> /\ sched'[p].pc \notin {"write", "spawn"}
  BY DEF Ticks, TickStart, TickCount, TickEnd, TickQuery, QueueDone
<1>2. ASSUME NEW j \in Jobs
      PROVE  JobOK(p, j)'
  BY <1>1, JobKept DEF WorkerInv, Spawning
<1>5. sched'[p].held # "paused"
  <2>1. sched[p].held # "paused"
    BY <1>0 DEF ClaimsOK
  <2>2. CASE \E q \in Queues : TickCount(p, q)
    <3>1. PICK q \in Queues : TickCount(p, q)
      BY <2>2
    <3> DEFINE n == Concurrency[q] - Cardinality(RowsOf(q, "running"))
               t == [sched[p] EXCEPT !.pc = "query", !.todo = @ \ {q}, !.queue = q,
                                     !.slots = n, !.held = "open"]
               u == [sched[p] EXCEPT !.todo = @ \ {q}]
    <3>2. QueueCopy(p, q) = "open"
      BY DEF QueueCopy, WorkerInv
    <3>3. SetSched(p, t) \/ SetSched(p, u)
      BY <3>1, <3>2 DEF TickCount
    <3> HIDE DEF n
    <3>4. t.held = "open" /\ u.held = sched[p].held
      BY <1>0 DEF Sched
    <3> HIDE DEF t, u
    <3> QED
      BY <2>1, <3>3, <3>4 DEF SetSched, TypeOK
  <2>3. CASE ~ \E q \in Queues : TickCount(p, q)
    <3> DEFINE t == [Idle EXCEPT !.pc = "count",
                                 !.todo = {q \in Queues : ~qpaused[q]}]
    <3>1. t.held = "open" /\ Idle.held = "open"
      BY DEF Idle
    <3>2. \/ SetSched(p, t)
          \/ SetSched(p, Idle)
          \/ TickQuery(p)
          \/ QueueDone(p)
      BY <2>3 DEF Ticks, TickStart, TickEnd
    <3> HIDE DEF t
    <3>3. CASE TickQuery(p)
      <4> DEFINE c == Oldest(RowsOf(sched[p].queue, "queued"), sched[p].slots)
                 v == [sched[p] EXCEPT !.pc = "claim", !.cand = c, !.slots = 0]
      <4>1. SetSched(p, v)
        BY <3>3 DEF TickQuery
      <4> HIDE DEF c
      <4>2. v.held = sched[p].held
        BY <1>0 DEF Sched
      <4> HIDE DEF v
      <4> QED
        BY <2>1, <4>1, <4>2 DEF SetSched, TypeOK
    <3>4. CASE QueueDone(p)
      <4> DEFINE v == [sched[p] EXCEPT !.pc = "count"]
      <4>1. SetSched(p, v)
        BY <3>4 DEF QueueDone
      <4>2. v.held = sched[p].held
        BY <1>0 DEF Sched
      <4> HIDE DEF v
      <4> QED
        BY <2>1, <4>1, <4>2 DEF SetSched, TypeOK
    <3> QED
      BY <3>1, <3>2, <3>3, <3>4 DEF SetSched, TypeOK
  <2> QED
    BY <2>2, <2>3
<1>3. ClaimsOK(p)'
  <2>1. CASE sched'[p].pc \in {"idle", "count"}
    BY <1>5, <2>1 DEF ClaimsOK, Claiming
  <2>2. ASSUME NEW q \in Queues, TickCount(p, q), sched'[p].pc = "query",
               sched'[p].queue = q,
               sched'[p].slots = Concurrency[q] - Cardinality(RowsOf(q, "running"))
        PROVE  ClaimsOK(p)'
    <3>1. Concurrency[q] \in Nat /\ Cardinality(RowsOf(q, "running")) \in Nat
      BY CountType, ConcurrencyAssumption
    <3>2. RowsOf(q, "running")' = RowsOf(q, "running")
      BY <1>1 DEF RowsOf
    <3>3. Cardinality(RowsOf(q, "running")') + sched'[p].slots <= Concurrency[q]
      BY <2>2, <3>1, <3>2
    <3> QED
      BY <1>5, <2>2, <3>3 DEF ClaimsOK, Claiming
  <2>3. ASSUME sched[p].pc = "query", sched'[p].pc = "claim",
               sched'[p].queue = sched[p].queue,
               sched'[p].cand = Oldest(RowsOf(sched[p].queue, "queued"), sched[p].slots)
        PROVE  ClaimsOK(p)'
    <3> DEFINE q    == sched[p].queue
               js   == RowsOf(q, "queued")
               n    == sched[p].slots
               busy == RowsOf(q, "running")
    <3>1. q \in Queues /\ n \in Nat /\ js \in SUBSET Jobs /\ busy \in SUBSET Jobs
      BY <1>0 DEF Sched, RowsOf
    <3>2. Oldest(js, n) \in SUBSET js
      BY DEF Oldest
    <3>3. ASSUME NEW c \in Oldest(js, n)
          PROVE  CandidateOK(p, c)'
      <4>1. c \in js
        BY <3>2
      <4>2. \A k \in js : k < c => k \in Oldest(js, n)
        BY <3>1, OldestClosed
      <4>3. JobOK(p, c) /\ row[c].st = "queued" /\ c \in Jobs
        BY <4>1 DEF WorkerInv, RowsOf
      <4>4. Ready(c) /\ runner[p][c].pc \notin Serving
        BY <4>3 DEF JobOK, RowOK, ThreadOK
      <4>5. Ready(c)'
        BY <1>1, <4>4 DEF Ready
      <4> QED
        BY <1>1, <2>3, <4>1, <4>2, <4>4, <4>5 DEF CandidateOK, RowsOf
    <3>4. Cardinality(busy \cup Oldest(js, n)) <= Concurrency[q]
      <4>1. IsFiniteSet(busy) /\ IsFiniteSet(Oldest(js, n))
        BY <3>1, <3>2, JobsFinite
      <4>2. busy \cap Oldest(js, n) \in SUBSET Jobs
        BY <3>1
      <4>3. /\ Cardinality(busy \cup Oldest(js, n)) =
                 Cardinality(busy) + Cardinality(Oldest(js, n))
                   - Cardinality(busy \cap Oldest(js, n))
            /\ Cardinality(busy \cap Oldest(js, n)) \in Nat
        BY <4>1, <4>2, FS_Union, JobsFinite
      <4>4. Cardinality(Oldest(js, n)) <= n
        BY <3>1, OldestBounded
      <4>5. Cardinality(busy) \in Nat /\ Cardinality(Oldest(js, n)) \in Nat
        BY <3>1, <3>2, JobsFinite
      <4>6. Cardinality(busy) + n <= Concurrency[q] /\ Concurrency[q] \in Nat
        BY <1>0, <2>3, <3>1, ConcurrencyAssumption DEF ClaimsOK
      <4> QED
        BY <3>1, <4>3, <4>4, <4>5, <4>6
    <3>5. Taken(p)' = busy \cup Oldest(js, n)
      BY <1>1, <2>3 DEF Taken, RowsOf
    <3> QED
      BY <1>5, <2>3, <3>3, <3>4, <3>5 DEF ClaimsOK
  <2> QED
    BY <2>1, <2>2, <2>3 DEF Ticks, SameTick, SameQueue
<1> QED
  BY <1>1, <1>2, <1>3, LedgerStutter DEF WorkerInv

\* What a claim's commit leaves of the row.
LEMMA ClaimedRow ==
  ASSUME TypeOK, NEW p \in Procs, NEW i \in Jobs, ClaimWrite(p, i),
         sched[p].seen.st = "queued", Exists(row[i])
  PROVE  /\ row'[i].st = "running"
         /\ row'[i].stop = row[i].stop
         /\ row'[i].att = row[i].att
         /\ \A k \in Jobs : k # i => row'[k] = row[k]
<1> DEFINE seen == sched[p].seen
           new  == [seen EXCEPT !.st = "running", !.started = TRUE]
<1>1. seen \in Row /\ row \in [Jobs -> Row]
  BY DEF TypeOK, Sched
<1>2. Flush(i, seen, new, {"started"}) /\ seen.st = "queued"
  BY DEF ClaimWrite
<1> HIDE DEF seen
<1>3. /\ new \in Row /\ new.st = "running"
      /\ new.stop = seen.stop /\ new.att = seen.att
  BY <1>1 DEF Row, Statuses, LiveStatuses
<1> HIDE DEF new
<1> QED
  BY <1>1, <1>2, <1>3, FlushFields

\* The candidate that is served next is queued or stopped, and was queued when
\* it was read.
LEMMA NextCandidate ==
  ASSUME WorkerInv, NEW p \in Procs, NEW i \in Jobs,
         sched[p].pc \in {"claim", "write"}, IsNext(p, i)
  PROVE  /\ row[i].st \in {"queued", "stopped"} /\ Ready(i)
         /\ i \in sched[p].cand /\ QueueOf[i] = sched[p].queue
         /\ sched[p].pc = "write" => sched[p].seen.st = "queued"
         /\ runner[p][i].pc \notin Serving
BY DEF WorkerInv, ClaimsOK, Claiming, CandidateOK, IsNext, Spawning

\* The instance counts as the module it is an instance in.
LEMMA LedgerCounts ==
  ASSUME NEW S
  PROVE  Ledger!Cardinality(S) = Cardinality(S)
BY DEF Ledger!Cardinality, Cardinality

LEMMA ClaimLedger ==
  ASSUME TypeOK, WorkerInv, NEW p \in Procs, Procs = {p}, NEW i \in Jobs,
         Claims(p, i), ClaimWrite(p, i), UNCHANGED <<qpaused, handler, starts>>
  PROVE  WorkerInv' /\ Ledger!Next
<1> DEFINE q == sched[p].queue
<1>0. /\ sched[p] \in Sched /\ ClaimsOK(p)
      /\ sched[p].pc = "write" /\ IsNext(p, i) /\ UNCHANGED runner
  BY DEF TypeOK, WorkerInv, ClaimWrite
<1>1. /\ row[i].st \in {"queued", "stopped"} /\ i \in sched[p].cand
      /\ QueueOf[i] = q /\ sched[p].seen.st = "queued"
      /\ Ready(i) /\ runner[p][i].pc \notin Serving
  BY <1>0, NextCandidate
<1>x. Exists(row[i])
  BY <1>1 DEF Exists, Absent
<1>2. /\ sched'[p].pc = "spawn" /\ sched'[p].queue = q
      /\ sched'[p].cand = sched[p].cand
  BY <1>0, <1>1, <1>x
  DEF Claims, ClaimRead, ClaimSkip, Spawn
<1>y. sched'[p].held = "expired"
  BY <1>0, <1>1, <1>x
  DEF Claims, ClaimRead, ClaimSkip, Spawn
<1>3. /\ row'[i].st = "running"
      /\ row'[i].stop = row[i].stop /\ row'[i].att = row[i].att
      /\ \A k \in Jobs : k # i => row'[k] = row[k]
  BY <1>1, <1>x, ClaimedRow
<1>4. q \in Queues /\ sched[p].cand \in SUBSET Jobs
  BY <1>0 DEF Sched
<1>5. \A j \in Jobs : Spawning(p, j)' => j = i
  BY <1>0, <1>2, OneNext DEF Spawning, IsNext
<1>6. ASSUME NEW j \in Jobs
      PROVE  JobOK(p, j)'
  <2>1. JobOK(p, j)
    BY DEF WorkerInv
  <2>2. CASE j # i
    BY <1>0, <1>3, <1>5, <2>1, <2>2, JobKept
  <2>3. CASE j = i
    <3>1. /\ Ready(i) /\ runner[p][i].pc \notin Serving
          /\ runner[p][i] \in Runner /\ Ready(i)'
      BY <1>1, <1>3 DEF TypeOK, Ready
    <3>2. RowOK(i)'
      BY <1>3, <2>1, <2>3 DEF JobOK, RowOK
    <3>3. ThreadOK(p, i)'
      BY <1>0, <3>1, <2>1, <2>3 DEF JobOK, ThreadOK, Serving, WithAttempt
    <3>4. SpawnOK(p, i)'
      BY <1>0, <1>3, <3>1 DEF SpawnOK, Serving, Runner
    <3>5. HandlersOK(i)'
      BY <1>3, <2>1, <2>3 DEF JobOK, HandlersOK
    <3> QED
      BY <2>3, <3>2, <3>3, <3>4, <3>5 DEF JobOK
  <2> QED
    BY <2>2, <2>3
<1>7. ClaimsOK(p)'
  <2>1. \A c \in sched[p].cand : CandidateOK(p, c)
    BY <1>0 DEF ClaimsOK, Claiming
  <2>2. Taken(p)' = Taken(p)
    BY <1>1, <1>2, <1>3 DEF Taken, RowsOf
  <2>3. ASSUME NEW c \in sched[p].cand
        PROVE  CandidateOK(p, c)'
    <3>1. ~Spawning(p, c)' => row'[c].st \in {"queued", "stopped"} /\ Ready(c)'
      <4>1. c # i => /\ row[c].st \in {"queued", "stopped"} /\ Ready(c)
                     /\ row'[c] = row[c]
        BY <1>0, <1>3, <1>4, <2>1 DEF CandidateOK, Spawning
      <4>2. Spawning(p, i)'
        BY <1>0, <1>2 DEF Spawning, IsNext
      <4> QED
        BY <4>1, <4>2 DEF Ready
    <3>2. \A k \in Jobs : row'[k].st = "queued" => row[k].st = "queued"
      BY <1>3
    <3> QED
      BY <1>0, <1>2, <2>1, <3>1, <3>2 DEF CandidateOK
  <2> QED
    BY <1>0, <1>2, <1>y, <2>2, <2>3 DEF ClaimsOK, Claiming
<1>9. Ledger!Begin(i)
  <2>1. Cardinality(RowsOf(q, "running")) < Concurrency[q]
    <3> DEFINE busy == RowsOf(q, "running")
    <3>1. busy \in SUBSET Jobs /\ i \notin busy
      BY <1>1 DEF RowsOf
    <3>2. IsFiniteSet(busy) /\ Cardinality(busy) \in Nat
      BY <3>1, JobsFinite
    <3>3. Cardinality(busy \cup {i}) = Cardinality(busy) + 1
      BY <3>1, <3>2, FS_AddElement
    <3>4. busy \cup {i} \in SUBSET Taken(p) /\ Taken(p) \in SUBSET Jobs
      BY <1>1, <1>4, <3>1 DEF Taken
    <3>5. Cardinality(busy \cup {i}) <= Cardinality(Taken(p))
      BY <3>4, SmallerCount
    <3>6. Cardinality(Taken(p)) <= Concurrency[q]
      BY <1>0 DEF ClaimsOK, Claiming
    <3>7. Cardinality(Taken(p)) \in Nat /\ Concurrency[q] \in Nat
      BY <1>4, <3>4, JobsFinite, ConcurrencyAssumption
    <3> QED
      BY <3>2, <3>3, <3>5, <3>6, <3>7
  <2>2. {k \in Jobs : QueueOf[k] = QueueOf[i] /\ [j \in Jobs |-> row[j].st][k] = "running"}
          = RowsOf(q, "running")
    BY <1>1 DEF RowsOf
  <2>3. ASSUME NEW k \in Jobs, QueueOf[k] = QueueOf[i], k < i, row[k].st = "queued"
        PROVE  starts[k] > 0
    <3>1. k \notin sched[p].cand
      BY <1>0, <2>3, JobsAssumption DEF IsNext
    <3>2. CandidateOK(p, i)
      BY <1>0, <1>1 DEF ClaimsOK, Claiming
    <3> QED
      BY <1>1, <2>3, <3>1, <3>2 DEF CandidateOK
  <2>4. Ledger!Move(i, "queued", "running")
    <3>1. \A k \in Jobs : row'[k].st = IF k = i THEN "running" ELSE row[k].st
      BY <1>3
    <3> QED
      BY <1>1, <3>1, LedgerMove
  <2> QED
    BY <1>1, <2>1, <2>2, <2>3, <2>4, LedgerCounts DEF Ledger!Begin
<1> QED
  BY <1>6, <1>7, <1>9 DEF WorkerInv, Ledger!Next

LEMMA SpawnLedger ==
  ASSUME TypeOK, ThreadsInv, WorkerInv, NEW p \in Procs, Procs = {p},
         NEW i \in Jobs, SchedStep(p), Claims(p, i), Spawn(p, i),
         UNCHANGED <<qpaused, handler, starts>>
  PROVE  WorkerInv' /\ UNCHANGED Ledger!vars
<1>0. /\ sched[p] \in Sched /\ ClaimsOK(p) /\ JobOK(p, i)
      /\ Spawning(p, i) /\ UNCHANGED row
  BY DEF TypeOK, WorkerInv, Spawn, Spawning
<1>1. /\ sched'[p].pc = "claim" /\ sched'[p].queue = sched[p].queue
      /\ sched'[p].cand = sched[p].cand \ {i}
      /\ sched'[p].held = sched[p].held
  BY <1>0 DEF Claims, ClaimRead, ClaimSkip, ClaimWrite, Spawning, SameQueue
<1>2. sched[p].cand \in SUBSET Jobs /\ sched[p].queue \in Queues
  BY <1>0 DEF Sched
<1>3. ASSUME NEW j \in Jobs
      PROVE  JobOK(p, j)'
  <2>1. JobOK(p, j) /\ ~Spawning(p, j)'
    BY <1>1 DEF WorkerInv, Spawning
  <2>2. CASE runner'[p][j] = runner[p][j]
    BY <1>0, <2>1, <2>2, JobKept
  <2>3. CASE /\ Spawn(p, j) /\ ~InFlight(p, j)
             /\ runner'[p][j].pc = "start"
    <3>1. j = i
      BY <1>0, <2>3, OneNext DEF Spawn, Spawning
    <3>2. Ready(j) /\ row[j].st \in {"running", "stopped"}
      BY <1>0, <3>1 DEF JobOK, SpawnOK
    <3>3. RowOK(j)' /\ HandlersOK(j)' /\ SpawnOK(p, j)'
      BY <1>0, <2>1 DEF JobOK, RowOK, HandlersOK, SpawnOK, Ready
    <3>4. ThreadOK(p, j)'
      BY <1>0, <2>1, <2>3, <3>2 DEF JobOK, ThreadOK, Ready, Serving, WithAttempt
    <3> QED
      BY <3>3, <3>4 DEF JobOK
  <2> QED
    BY <2>2, <2>3, SchedRunner
<1>4. ClaimsOK(p)'
  <2>1. \A c \in sched[p].cand : CandidateOK(p, c)
    BY <1>0 DEF ClaimsOK, Claiming, Spawning
  <2>2. ASSUME NEW c \in sched'[p].cand
        PROVE  CandidateOK(p, c)'
    <3>1. c \in sched[p].cand /\ c # i /\ c \in Jobs
      BY <1>1, <1>2
    <3>2. CandidateOK(p, c) /\ ~Spawning(p, c)
      BY <1>0, <2>1, <3>1, OneNext DEF Spawning
    <3>3. row[i].st \in {"running", "stopped"}
      BY <1>0 DEF JobOK, SpawnOK
    <3>4. runner'[p][c].pc \in Serving => runner[p][c].pc \in Serving
      <4>1. runner'[p][c] = runner[p][c] \/ Spawn(p, c)
        BY <3>1, SchedRunner
      <4> QED
        BY <1>0, <3>1, <4>1, OneNext DEF Spawn, Spawning
    <3>5. Ready(c) => Ready(c)'
      BY <1>0 DEF Ready
    <3> QED
      BY <1>0, <1>1, <3>1, <3>2, <3>3, <3>4, <3>5 DEF CandidateOK, Spawning
  <2>3. Cardinality(Taken(p)') <= Concurrency[sched[p].queue]
    <3>1. Taken(p)' \in SUBSET Taken(p) /\ Taken(p) \in SUBSET Jobs
      BY <1>0, <1>1, <1>2 DEF Taken, RowsOf
    <3>2. /\ Cardinality(Taken(p)') <= Cardinality(Taken(p))
          /\ Cardinality(Taken(p)') \in Nat /\ Cardinality(Taken(p)) \in Nat
      BY <3>1, SmallerCount, JobsFinite
    <3>3. Cardinality(Taken(p)) <= Concurrency[sched[p].queue]
      BY <1>0 DEF ClaimsOK, Claiming, Spawning
    <3>4. Concurrency[sched[p].queue] \in Nat
      BY <1>2, ConcurrencyAssumption
    <3> QED
      BY <3>2, <3>3, <3>4
  <2> QED
    BY <1>0, <1>1, <2>2, <2>3 DEF ClaimsOK
<1> QED
  BY <1>0, <1>3, <1>4, LedgerStutter DEF WorkerInv

LEMMA SchedLedger ==
  ASSUME TypeOK, ThreadsInv, WorkerInv, NEW p \in Procs, Procs = {p}, SchedStep(p)
  PROVE  WorkerInv' /\ (Ledger!Next \/ UNCHANGED Ledger!vars)
<1>0. UNCHANGED <<qpaused, handler, starts>>
  BY DEF SchedStep, TickStart, TickCount, TickEnd, TickQuery, QueueDone,
         ClaimRead, ClaimSkip, ClaimWrite, Spawn, SchedUnchanged
<1>1. CASE Ticks(p)
  BY <1>0, <1>1, TickLedger
<1>2. ASSUME NEW i \in Jobs, Claims(p, i), ClaimRead(p, i)
      PROVE  WorkerInv' /\ UNCHANGED Ledger!vars
  <2>1. /\ sched[p].pc = "claim" /\ sched'[p].pc = "write" /\ IsNext(p, i)
        /\ sched'[p].queue = sched[p].queue /\ sched'[p].cand = sched[p].cand
        /\ sched'[p].seen = row[i] /\ sched'[p].held = sched[p].held
        /\ row[i].st = "queued" /\ UNCHANGED <<row, runner>>
    BY <1>2 DEF Claims, ClaimRead, ClaimSkip, ClaimWrite, Spawn, SameQueue, Claimable
  <2>2. sched[p] \in Sched /\ ClaimsOK(p) /\ \A j \in Jobs : JobOK(p, j)
    BY DEF TypeOK, WorkerInv
  <2>3. \A j \in Jobs : JobOK(p, j)'
    BY <1>0, <2>1, <2>2, JobKept DEF Spawning
  <2>4. ASSUME NEW c \in sched[p].cand
        PROVE  CandidateOK(p, c)'
    <3>1. CandidateOK(p, c) /\ c \in Jobs
      BY <2>1, <2>2 DEF ClaimsOK, Claiming, Sched
    <3>2. IsNext(p, c)' => c = i
      BY <2>1, <3>1, OneNext DEF IsNext
    <3>3. Ready(c) => Ready(c)'
      BY <1>0, <2>1 DEF Ready
    <3> QED
      BY <1>0, <2>1, <3>1, <3>2, <3>3 DEF CandidateOK, Spawning
  <2>5. Taken(p)' = Taken(p)
    BY <2>1 DEF Taken, RowsOf
  <2>6. ClaimsOK(p)'
    BY <2>1, <2>2, <2>4, <2>5 DEF ClaimsOK, Claiming
  <2> QED
    BY <1>0, <2>1, <2>3, <2>6, LedgerStutter DEF WorkerInv
<1>3. ASSUME NEW i \in Jobs, Claims(p, i), ClaimSkip(p, i)
      PROVE  WorkerInv' /\ UNCHANGED Ledger!vars
  <2>1. /\ sched[p].pc = "claim" /\ IsNext(p, i) /\ ~Claimable(p, i)
        /\ UNCHANGED <<row, runner>>
    BY <1>3 DEF ClaimSkip
  <2>2. sched[p] \in Sched /\ ClaimsOK(p) /\ \A j \in Jobs : JobOK(p, j)
    BY DEF TypeOK, WorkerInv
  <2>3. row[i].st = "stopped"
    <3>1. row[i].st \in {"queued", "stopped"} /\ QueueOf[i] \in Queues
      BY <2>1, NextCandidate, QueueAssumption
    <3>2. Loaded(p, i) = "open"
      BY <2>2, <3>1 DEF Loaded, WorkerInv, ClaimsOK, Sched
    <3> QED
      BY <2>1, <3>1, <3>2 DEF Claimable
  <2>4. /\ sched'[p].pc = "claim" /\ sched'[p].queue = sched[p].queue
        /\ sched'[p].cand = sched[p].cand \ {i}
        /\ sched'[p].held = sched[p].held
    BY <1>3, <2>1, <2>3 DEF Claims, ClaimRead, ClaimWrite, Spawn
  <2>5. \A j \in Jobs : JobOK(p, j)'
    BY <1>0, <2>1, <2>2, <2>4, JobKept DEF Spawning
  <2>6. ASSUME NEW c \in sched'[p].cand
        PROVE  CandidateOK(p, c)'
    <3>1. CandidateOK(p, c) /\ c \in Jobs
      BY <2>1, <2>2, <2>4, <2>6 DEF ClaimsOK, Claiming, Sched
    <3>2. Ready(c) => Ready(c)'
      BY <1>0, <2>1 DEF Ready
    <3> QED
      BY <1>0, <2>1, <2>3, <2>4, <3>1, <3>2 DEF CandidateOK, Spawning
  <2>7. Cardinality(Taken(p)') <= Concurrency[sched[p].queue]
    <3>0. sched[p].queue \in Queues /\ sched[p].cand \in SUBSET Jobs
      BY <2>2 DEF Sched
    <3>1. Taken(p)' \in SUBSET Taken(p) /\ Taken(p) \in SUBSET Jobs
      BY <2>1, <2>4, <3>0 DEF Taken, RowsOf
    <3>2. /\ Cardinality(Taken(p)') <= Cardinality(Taken(p))
          /\ Cardinality(Taken(p)') \in Nat /\ Cardinality(Taken(p)) \in Nat
      BY <3>1, SmallerCount, JobsFinite
    <3>3. Cardinality(Taken(p)) <= Concurrency[sched[p].queue]
      BY <2>1, <2>2 DEF ClaimsOK, Claiming
    <3>4. Concurrency[sched[p].queue] \in Nat
      BY <3>0, ConcurrencyAssumption
    <3> QED
      BY <3>2, <3>3, <3>4
  <2>8. ClaimsOK(p)'
    BY <2>2, <2>4, <2>6, <2>7 DEF ClaimsOK
  <2> QED
    BY <1>0, <2>1, <2>5, <2>8, LedgerStutter DEF WorkerInv
<1> QED
  BY <1>0, <1>1, <1>2, <1>3, SchedFields, ClaimLedger, SpawnLedger DEF Claims

-----------------------------------------------------------------------------
(* The job threads of the one worker.                                      *)

\* A job thread minds its own job, and of a handler it starts, forgets or
\* leaves one behind.
LEMMA RunnerElsewhere ==
  ASSUME TypeOK, NEW p \in Procs, NEW j \in Jobs, RunnerStep(p, j)
  PROVE  \A k \in Jobs : k # j => starts'[k] = starts[k] /\ handler'[k] = handler[k]
<1>1. \/ UNCHANGED handler
      \/ \E n, h : SetHandler(j, n, h)
  BY DEF RunnerStep, RunGone, RunUnknown, RunOpen, RunStart, RunJoin, RunTimeout,
         RunReread, RunFinalWrite, RunFailWrite, RunExit
<1>2. \/ UNCHANGED starts
      \/ \E n : starts' = [starts EXCEPT ![j] = n]
  BY DEF RunnerStep, RunGone, RunUnknown, RunOpen, RunStart, RunJoin, RunTimeout,
         RunReread, RunFinalWrite, RunFailWrite, RunExit
<1>3. \A k \in Jobs : k # j => handler'[k] = handler[k]
  BY <1>1 DEF SetHandler, TypeOK
<1>4. \A k \in Jobs : k # j => starts'[k] = starts[k]
  BY <1>2 DEF TypeOK
<1> QED
  BY <1>3, <1>4

LEMMA RunnerHandlers ==
  ASSUME TypeOK, NEW p \in Procs, NEW j \in Jobs, RunnerStep(p, j), NEW n \in Starts
  PROVE  \/ handler'[j][n] = handler[j][n]
         \/ handler'[j][n] = NoHandler
         \/ /\ handler'[j][n].pc = IF j \in Pollers THEN "poll" ELSE "work"
            /\ ~handler'[j][n].late /\ starts'[j] > 0
         \/ handler'[j][n].pc = handler[j][n].pc /\ j \in Timed
<1>0. handler[j][n] \in Handler /\ starts \in [Jobs -> 0..MaxStarts]
  BY DEF TypeOK
<1>1. CASE RunStart(p, j)
  <2> DEFINE h == [pc |-> IF j \in Pollers THEN "poll" ELSE "work",
                   proc |-> p, late |-> FALSE]
  <2>1. SetHandler(j, starts[j] + 1, h)
    BY <1>1 DEF RunStart
  <2>2. handler'[j][n] \in {h, handler[j][n]}
    BY <2>1, ExecutionSet
  <2>3. starts' = [starts EXCEPT ![j] = starts[j] + 1]
    BY <1>1 DEF RunStart
  <2>4. starts'[j] > 0
    BY <1>0, <2>3
  <2> QED
    BY <2>2, <2>4
<1>2. CASE RunJoin(p, j)
  BY <1>2, ExecutionSet DEF RunJoin
<1>3. CASE RunTimeout(p, j)
  <2> DEFINE m == runner[p][j].n
             h == [handler[j][m] EXCEPT !.late = TRUE]
  <2>1. SetHandler(j, m, h) /\ j \in Timed
    BY <1>3 DEF RunTimeout
  <2>2. handler'[j][n] = IF m = n THEN h ELSE handler[j][n]
    BY <2>1, ExecutionSet
  <2>3. m = n => h.pc = handler[j][n].pc
    BY <1>0 DEF Handler
  <2> HIDE DEF h
  <2> QED
    BY <2>1, <2>2, <2>3
<1>4. CASE UNCHANGED handler
  BY <1>4
<1> QED
  BY <1>1, <1>2, <1>3, <1>4
  DEF RunnerStep, RunGone, RunUnknown, RunOpen, RunReread, RunFinalWrite,
      RunFailWrite, RunExit

\* The two last writes.
LEMMA FinalRow ==
  ASSUME TypeOK, NEW p \in Procs, NEW j \in Jobs, RunFinalWrite(p, j),
         Exists(row[j]), runner[p][j].seen.st \in {"running", "stopped"},
         ~runner[p][j].seen.stop
  PROVE  /\ row'[j].st = IF runner[p][j].seen.st = "running" THEN "completed"
                         ELSE row[j].st
         /\ row'[j].stop = row[j].stop
<1> DEFINE seen == runner[p][j].seen
           st   == Outcome(seen)
           new  == [seen EXCEPT !.st = st,
                      !.finished = @ \/ st \in TerminalStatuses]
<1>1. /\ seen \in Row /\ row \in [Jobs -> Row]
      /\ seen.st \in {"running", "stopped"}
  BY DEF TypeOK, Runner
<1>2. Flush(j, seen, new, {})
  BY DEF RunFinalWrite
<1>3. st = IF seen.st = "running" THEN "completed" ELSE seen.st
  BY DEF Outcome
<1>4. new \in Row /\ new.st = st /\ new.stop = seen.stop /\ new.att = seen.att
  <2>1. st \in Statuses
    BY <1>1, <1>3 DEF Statuses, TerminalStatuses
  <2> HIDE DEF seen, st
  <2> QED
    BY <1>1, <2>1 DEF Row
<1> HIDE DEF seen, st, new
<1>5. /\ row'[j].st = IF new.st # seen.st THEN new.st ELSE row[j].st
      /\ row'[j].stop = row[j].stop
  BY <1>1, <1>2, <1>4, FlushFields
<1> QED
  BY <1>1, <1>3, <1>4, <1>5 DEF seen

LEMMA FailRow ==
  ASSUME TypeOK, NEW p \in Procs, NEW j \in Jobs, RunFailWrite(p, j),
         Exists(row[j]), runner[p][j].seen.st \in {"running", "stopped"},
         runner[p][j].seen.stop = row[j].stop
  PROVE  /\ MayRetry(p, j) => /\ row'[j].st = "queued" /\ row'[j].stop = FALSE
                              /\ row'[j].att = runner[p][j].att
         /\ ~MayRetry(p, j) => row'[j].st = "failed" /\ row'[j].stop = row[j].stop
<1> DEFINE seen == runner[p][j].seen
           new  == [seen EXCEPT !.att = runner[p][j].att]
<1>1. /\ seen \in Row /\ runner[p][j] \in Runner /\ row \in [Jobs -> Row]
      /\ seen.st \in {"running", "stopped"} /\ seen.stop = row[j].stop
      /\ row[j].stop \in BOOLEAN
  BY DEF TypeOK, Runner, Row
<1>2. new \in Row /\ new.stop = seen.stop /\ new.att = runner[p][j].att
  BY <1>1 DEF Row, Runner
<1>3. /\ MayRetry(p, j) => Flush(j, seen, Requeued(new), {"att"})
      /\ ~MayRetry(p, j) => Flush(j, seen, Failed(new), {"att", "finished"})
  BY DEF RunFailWrite
<1> HIDE DEF seen, new
<1>4. /\ Requeued(new) \in Row /\ Failed(new) \in Row
      /\ Requeued(new).st = "queued" /\ Requeued(new).stop = FALSE
      /\ Requeued(new).att = new.att
      /\ Failed(new).st = "failed" /\ Failed(new).stop = new.stop
  BY <1>2, ComputedRows DEF Requeued, Failed, Row
<1>5. ASSUME MayRetry(p, j)
      PROVE  /\ row'[j].st = "queued" /\ row'[j].stop = FALSE
             /\ row'[j].att = new.att
  <2> DEFINE last == Requeued(new)
  <2>1. /\ Flush(j, seen, last, {"att"}) /\ last \in Row
        /\ last.st = "queued" /\ last.stop = FALSE /\ last.att = new.att
    BY <1>3, <1>4, <1>5
  <2> HIDE DEF last
  <2>2. /\ row'[j].st = IF last.st # seen.st THEN last.st ELSE row[j].st
        /\ row'[j].stop = IF last.stop # seen.stop THEN last.stop ELSE row[j].stop
        /\ row'[j].att = last.att
    BY <1>1, <2>1, FlushFields
  <2> QED
    BY <1>1, <2>1, <2>2
<1>6. ASSUME ~MayRetry(p, j)
      PROVE  row'[j].st = "failed" /\ row'[j].stop = row[j].stop
  <2> DEFINE last == Failed(new)
  <2>1. /\ Flush(j, seen, last, {"att", "finished"}) /\ last \in Row
        /\ last.st = "failed" /\ last.stop = new.stop
    BY <1>3, <1>4, <1>6
  <2> HIDE DEF last
  <2>2. /\ row'[j].st = IF last.st # seen.st THEN last.st ELSE row[j].st
        /\ row'[j].stop = IF last.stop # seen.stop THEN last.stop ELSE row[j].stop
    BY <1>1, <2>1, FlushFields
  <2> QED
    BY <1>1, <1>2, <2>1, <2>2
<1> QED
  BY <1>2, <1>5, <1>6

\* What a job thread's step leaves true of its job, whatever the step is.
LEMMA RunnerShared ==
  ASSUME TypeOK, WorkerInv, NEW p \in Procs, NEW j \in Jobs, RunnerStep(p, j)
  PROVE  /\ runner[p][j].pc \in Serving \/ runner[p][j].pc = "exit"
         /\ runner[p][j].pc = "exit" =>
              UNCHANGED <<row, starts, handler>> /\ runner'[p][j].pc = "none"
         /\ HandlersOK(j)'
         /\ SpawnOK(p, j)'
         /\ starts[j] > 0 => starts'[j] > 0
<1>0. /\ JobOK(p, j) /\ SharedTypes
      /\ starts \in [Jobs -> 0..MaxStarts]
  BY TypeParts DEF WorkerInv, TypeOK
<1>1. /\ Opens(p, j) \/ Ends(p, j) \/ Leaves(p, j)
      /\ UNCHANGED sched
  BY <1>0, RunnerFields
<1>2. runner[p][j].pc \in Serving \/ runner[p][j].pc = "exit"
  BY <1>1 DEF Opens, Ends, Leaves, Serving
<1>3. ASSUME runner[p][j].pc = "exit"
      PROVE  UNCHANGED <<row, starts, handler>> /\ runner'[p][j].pc = "none"
  <2>1. UNCHANGED <<row, starts>> /\ runner'[p][j].pc = "none"
    BY <1>1, <1>3 DEF Opens, Ends, Leaves
  <2>2. UNCHANGED handler
    BY <1>3 DEF RunnerStep, RunGone, RunUnknown, RunOpen, RunStart, RunJoin, RunTimeout,
                RunReread, RunFinalWrite, RunFailWrite, RunExit
  <2> QED
    BY <2>1, <2>2
<1>6. starts[j] > 0 => starts'[j] > 0
  BY <1>0, <1>1 DEF Opens, Ends, Leaves
<1>4. HandlersOK(j)'
  <2>1. CASE runner[p][j].pc = "exit"
    BY <1>0, <1>3, <2>1 DEF JobOK, HandlersOK
  <2>2. CASE runner[p][j].pc \in Serving
    <3>1. row[j].st \in {"running", "stopped"}
      BY <1>0, <2>2 DEF JobOK, ThreadOK
    <3>2. row'[j].st # "none"
      BY <1>0, <3>1, RunnerStatus
    <3> SUFFICES ASSUME NEW n \in Starts
                 PROVE  /\ handler'[j][n].pc \in {"none", "poll", "halt", "work",
                                                  "done", "err"}
                        /\ handler'[j][n].pc \in {"poll", "halt"} => j \in Pollers
                        /\ handler'[j][n].pc = "halt" \/ handler'[j][n].late
                             => j \in Timed
                        /\ handler'[j][n].pc # "none" => starts'[j] > 0
      BY <3>2 DEF HandlersOK
    <3>3. /\ handler[j][n].pc \in {"none", "poll", "halt", "work", "done", "err"}
          /\ handler[j][n].pc \in {"poll", "halt"} => j \in Pollers
          /\ handler[j][n].pc = "halt" \/ handler[j][n].late => j \in Timed
          /\ handler[j][n].pc # "none" => starts[j] > 0
      BY <1>0 DEF JobOK, HandlersOK
    <3>4. \/ handler'[j][n] = handler[j][n]
          \/ handler'[j][n] = NoHandler
          \/ /\ handler'[j][n].pc = IF j \in Pollers THEN "poll" ELSE "work"
             /\ ~handler'[j][n].late /\ starts'[j] > 0
          \/ handler'[j][n].pc = handler[j][n].pc /\ j \in Timed
      BY RunnerHandlers
    <3>5. NoHandler.pc = "none" /\ NoHandler.late = FALSE
      BY DEF NoHandler
    <3> QED
      BY <1>6, <3>3, <3>4, <3>5
  <2> QED
    BY <1>2, <2>1, <2>2
<1>5. SpawnOK(p, j)'
  <2> SUFFICES ASSUME Spawning(p, j)
               PROVE  /\ runner'[p][j].pc = "none"
                      /\ row'[j].st \in {"running", "stopped"}
                      /\ Ready(j)'
    BY <1>1 DEF SpawnOK, Spawning, IsNext
  <2>1. /\ runner[p][j].pc = "exit" /\ row[j].st \in {"running", "stopped"}
        /\ Ready(j)
    BY <1>0, <1>2 DEF JobOK, SpawnOK, Serving
  <2> QED
    BY <1>3, <2>1 DEF Ready
<1> QED
  BY <1>2, <1>3, <1>4, <1>5, <1>6

\* What the job thread does with its job is a step of the ledger.
LEMMA RunnerJob ==
  ASSUME TypeOK, WorkerInv, NEW p \in Procs, Procs = {p}, NEW j \in Jobs,
         RunnerStep(p, j)
  PROVE  /\ RowOK(j)' /\ ThreadOK(p, j)'
         /\ Ledger!Next \/ UNCHANGED Ledger!vars
         /\ row'[j].st = "queued" => row[j].st = "queued" \/ starts'[j] > 0
<1>0. /\ RowOK(j) /\ ThreadOK(p, j) /\ SharedTypes
      /\ row[j] \in Row /\ runner[p][j] \in Runner
      /\ starts \in [Jobs -> 0..MaxStarts] /\ starts[j] \in Nat
      /\ MaxRetries[j] \in Nat
  BY TypeParts, RetriesAssumption DEF WorkerInv, JobOK, TypeOK
<1>1. /\ Opens(p, j) \/ Ends(p, j) \/ Leaves(p, j)
      /\ \A k \in Jobs : k # j => row'[k] = row[k]
  BY <1>0, RunnerFields
<1>2. UNION {Known[x] : x \in Procs} = Known[p]
  OBVIOUS
<1>3. ASSUME UNCHANGED starts, NEW to, row'[j].st = to,
             row[j].st \in {"running", "stopped"}
      PROVE  Ledger!Move(j, "running", to)
  BY <1>1, <1>3, LedgerMove
<1>4. ASSUME UNCHANGED starts, row'[j].st = row[j].st
      PROVE  UNCHANGED Ledger!vars
  BY <1>1, <1>4, LedgerStutter
<1>5. CASE Opens(p, j)
  <2>1. /\ row[j].st \in {"running", "stopped"} /\ Ready(j)
        /\ runner[p][j].pc \in {"start", "number"}
    BY <1>0, <1>5 DEF Opens, ThreadOK, Serving
  <2>2. Exists(row[j])
    BY <2>1 DEF Exists, Absent
  <2>3. CASE j \notin Known[p]
    <3>1. starts[j] = 0
      BY <1>0, <2>3 DEF ThreadOK
    <3>2. row'[j] = Failed(row[j]) /\ runner'[p][j].pc = "exit" /\ UNCHANGED starts
      BY <1>0, <1>5, <2>2, <2>3 DEF Opens, ThreadOK
    <3>3. row'[j].st = "failed" /\ row'[j].stop = row[j].stop
      BY <1>0, <3>2 DEF Failed, Row
    <3>4. RowOK(j)' /\ ThreadOK(p, j)'
      BY <1>0, <3>1, <3>2, <3>3 DEF RowOK, ThreadOK, Serving, WithAttempt
    <3>5. Ledger!Fail(j)
      BY <1>2, <1>3, <2>1, <2>3, <3>1, <3>2, <3>3 DEF Ledger!Fail
    <3> QED
      BY <3>1, <3>2, <3>3, <3>4, <3>5 DEF Ledger!Next
  <2>5. CASE /\ runner[p][j].pc = "start" /\ j \in Known[p]
             /\ runner'[p][j].pc = "number" /\ runner'[p][j].seen = row[j]
             /\ row'[j] = row[j] /\ UNCHANGED starts
    <3>1. RowOK(j)' /\ Ready(j)'
      BY <1>0, <2>1, <2>5 DEF RowOK, Ready
    <3>2. ThreadOK(p, j)'
      BY <1>0, <2>1, <2>5, <3>1 DEF ThreadOK, Ready, Serving, WithAttempt
    <3> QED
      BY <1>4, <2>1, <2>5, <3>1, <3>2
  <2>4. CASE /\ runner[p][j].pc = "number"
             /\ row'[j].st = row[j].st /\ row'[j].stop = row[j].stop
             /\ row'[j].att = runner[p][j].seen.att + 1
             /\ runner'[p][j].pc = "join"
             /\ runner'[p][j].att = runner[p][j].seen.att + 1
             /\ starts' = [starts EXCEPT ![j] = @ + 1]
    <3>0. /\ j \in Known[p] /\ runner[p][j].seen.att \in Nat
          /\ runner[p][j].seen.att <= starts[j]
          /\ j \notin Reporting => runner[p][j].seen.att = starts[j]
      BY <1>0, <2>4 DEF ThreadOK, Runner, Row
    <3>2. /\ starts'[j] = starts[j] + 1 /\ ~row[j].stop
          /\ j \notin Reporting => starts[j] <= MaxRetries[j]
      BY <1>0, <2>1, <2>4 DEF Ready
    <3>3. /\ runner'[p][j].att \in 1..starts'[j]
          /\ j \notin Reporting => /\ runner'[p][j].att = starts'[j]
                                   /\ starts'[j] <= MaxRetries[j] + 1
      BY <1>0, <2>4, <3>0, <3>2
    <3>4. RowOK(j)'
      BY <1>0, <2>1, <2>4, <3>2 DEF RowOK
    <3>5. ThreadOK(p, j)'
      BY <2>1, <2>4, <3>0, <3>2, <3>3 DEF ThreadOK, Serving, WithAttempt
    <3>6. Ledger!Call(j)
      <4>1. [k \in Jobs |-> row[k].st]' = [k \in Jobs |-> row[k].st]
        BY <1>1, <2>4
      <4> QED
        BY <1>2, <2>1, <2>4, <3>0, <3>2, <4>1 DEF Ledger!Call
    <3> QED
      BY <2>1, <2>4, <3>4, <3>5, <3>6 DEF Ledger!Next
  <2> QED
    BY <1>0, <1>5, <2>2, <2>3, <2>4, <2>5 DEF Opens
<1>6. CASE Ends(p, j)
  <2>1. /\ runner[p][j].pc \in {"join", "final", "fail"}
        /\ row[j].st \in {"running", "stopped"} /\ UNCHANGED starts
        /\ runner[p][j].att \in 1..starts[j]
        /\ j \notin Reporting => /\ runner[p][j].att = starts[j]
                                 /\ starts[j] <= MaxRetries[j] + 1
        /\ starts[j] > 0 => j \in Known[p]
        /\ runner[p][j].pc \in {"join", "final"} => ~row[j].stop
    BY <1>0, <1>6 DEF Ends, ThreadOK, Serving, WithAttempt
  <2>2. Exists(row[j])
    BY <2>1 DEF Exists, Absent
  <2>3. StopAsked(row[j]).st = row[j].st /\ StopAsked(row[j]).stop
    BY <1>0, <2>2 DEF StopAsked, Row
  <2>4. \/ runner[p][j].pc = "join" /\ runner'[p][j].pc = "final" /\ row'[j] = row[j]
        \/ runner'[p][j].pc = "fail" /\ row'[j] = row[j]
        \/ runner'[p][j].pc = "fail" /\ j \in Timed /\ row'[j] = StopAsked(row[j])
        \/ /\ runner'[p][j].pc = IF runner[p][j].pc = "final" THEN "finalw" ELSE "failw"
           /\ runner[p][j].pc \in {"final", "fail"}
           /\ runner'[p][j].seen = row[j] /\ row'[j] = row[j]
    BY <1>6, <2>2 DEF Ends
  <2>5. runner'[p][j].att = runner[p][j].att
    BY <1>6, <2>2 DEF Ends
  <2>6. row'[j].st = row[j].st /\ (row'[j].stop => j \in Timed)
    BY <1>0, <2>1, <2>3, <2>4 DEF RowOK
  <2>7. RowOK(j)'
    BY <2>1, <2>6 DEF RowOK
  <2>8. ThreadOK(p, j)'
    <3>1. runner'[p][j].pc \in {"final", "fail", "finalw", "failw"}
      BY <2>4
    <3>2. runner'[p][j].pc \in {"final", "finalw"} => ~row'[j].stop
      BY <2>1, <2>4
    <3>3. runner'[p][j].pc \in {"finalw", "failw"} => runner'[p][j].seen = row'[j]
      BY <2>4
    <3> QED
      BY <2>1, <2>5, <2>6, <3>1, <3>2, <3>3 DEF ThreadOK
  <2> QED
    BY <1>4, <2>1, <2>6, <2>7, <2>8
<1>7. CASE Leaves(p, j)
  <2>1. CASE RunFinalWrite(p, j)
    <3>1. /\ runner[p][j].pc = "finalw" /\ runner'[p][j].pc = "exit"
          /\ UNCHANGED starts
      BY <1>7, <2>1 DEF Leaves, RunFinalWrite
    <3>2. /\ row[j].st \in {"running", "stopped"} /\ ~row[j].stop
          /\ runner[p][j].seen.st \in {"running", "stopped"}
          /\ runner[p][j].seen.stop = row[j].stop
          /\ starts[j] > 0 /\ j \in Known[p]
      BY <1>0, <3>1 DEF ThreadOK, Serving, WithAttempt
    <3>3. /\ row'[j].st = IF runner[p][j].seen.st = "running" THEN "completed"
                          ELSE row[j].st
          /\ row'[j].stop = row[j].stop
      BY <2>1, <3>2, FinalRow DEF Exists, Absent
    <3>4. Ledger!Complete(j) \/ UNCHANGED Ledger!vars
      BY <1>3, <1>4, <3>1, <3>2, <3>3 DEF Ledger!Complete
    <3>5. RowOK(j)' /\ ThreadOK(p, j)'
      BY <1>0, <3>1, <3>2, <3>3 DEF RowOK, ThreadOK, Serving, WithAttempt
    <3> QED
      BY <3>1, <3>2, <3>3, <3>4, <3>5 DEF Ledger!Next
  <2>2. CASE RunFailWrite(p, j)
    <3>1. /\ runner[p][j].pc = "failw" /\ runner'[p][j].pc = "exit"
          /\ UNCHANGED starts
      BY <1>7, <2>2 DEF Leaves, RunFailWrite
    <3>2. /\ row[j].st \in {"running", "stopped"}
          /\ runner[p][j].seen.st \in {"running", "stopped"}
          /\ runner[p][j].seen.stop = row[j].stop
          /\ runner[p][j].att \in 1..starts[j]
          /\ j \notin Reporting => runner[p][j].att = starts[j]
          /\ j \in Known[p]
      BY <1>0, <3>1 DEF ThreadOK, Serving, WithAttempt
    <3>3. Exists(row[j])
      BY <3>2 DEF Exists, Absent
    <3>4. ThreadOK(p, j)'
      BY <3>1, <3>2 DEF ThreadOK, Serving, WithAttempt
    <3>5. CASE MayRetry(p, j)
      <4>1. /\ row'[j].st = "queued" /\ row'[j].stop = FALSE
            /\ row'[j].att = runner[p][j].att
        BY <2>2, <3>2, <3>3, <3>5, FailRow
      <4>2. /\ starts[j] > 0 /\ MaxRetries[j] > 0
            /\ j \notin Reporting => starts[j] <= MaxRetries[j]
            /\ runner[p][j].att <= starts[j]
        BY <1>0, <3>2, <3>5 DEF MayRetry
      <4>3. Ledger!Retry(j)
        BY <1>3, <3>1, <3>2, <4>1, <4>2 DEF Ledger!Retry
      <4>4. RowOK(j)'
        BY <3>1, <3>2, <4>1, <4>2 DEF RowOK, Ready
      <4> QED
        BY <3>1, <3>4, <4>2, <4>3, <4>4 DEF Ledger!Next
    <3>6. CASE ~MayRetry(p, j)
      <4>1. row'[j].st = "failed" /\ row'[j].stop = row[j].stop
        BY <2>2, <3>2, <3>3, <3>6, FailRow
      <4>2. starts[j] > MaxRetries[j]
        BY <1>0, <3>2, <3>6 DEF MayRetry
      <4>3. Ledger!Fail(j)
        BY <1>2, <1>3, <3>1, <3>2, <4>1, <4>2 DEF Ledger!Fail
      <4>4. RowOK(j)'
        BY <1>0, <4>1 DEF RowOK
      <4> QED
        BY <3>1, <3>4, <4>1, <4>3, <4>4 DEF Ledger!Next
    <3> QED
      BY <3>5, <3>6
  <2>3. CASE runner[p][j].pc = "exit"
    <3>1. UNCHANGED <<row, starts>> /\ runner'[p][j].pc = "none"
      BY <2>3, RunnerShared
    <3> QED
      BY <1>0, <1>4, <3>1 DEF RowOK, Ready, ThreadOK, Serving, WithAttempt
  <2> QED
    BY <1>7, <2>1, <2>2, <2>3 DEF Leaves
<1> QED
  BY <1>1, <1>5, <1>6, <1>7

LEMMA RunnerLedger ==
  ASSUME TypeOK, WorkerInv, NEW p \in Procs, Procs = {p}, NEW j \in Jobs,
         RunnerStep(p, j)
  PROVE  WorkerInv' /\ (Ledger!Next \/ UNCHANGED Ledger!vars)
<1>0. SharedTypes /\ ClaimsOK(p) /\ JobOK(p, j)
  BY TypeParts DEF WorkerInv
<1>1. /\ \A k \in Jobs : k # j => row'[k] = row[k] /\ runner'[p][k] = runner[p][k]
      /\ UNCHANGED <<sched, qpaused>>
  BY <1>0, RunnerFields
<1>2. /\ RowOK(j)' /\ ThreadOK(p, j)' /\ HandlersOK(j)' /\ SpawnOK(p, j)'
      /\ Ledger!Next \/ UNCHANGED Ledger!vars
      /\ starts[j] > 0 => starts'[j] > 0
      /\ row'[j].st = "queued" => row[j].st = "queued" \/ starts'[j] > 0
  BY RunnerJob, RunnerShared
<1>3. ASSUME NEW k \in Jobs
      PROVE  JobOK(p, k)'
  <2>1. CASE k = j
    BY <1>2, <2>1 DEF JobOK
  <2>2. CASE k # j
    <3>1. JobOK(p, k) /\ starts'[k] = starts[k] /\ handler'[k] = handler[k]
      BY <2>2, RunnerElsewhere DEF WorkerInv
    <3>2. Spawning(p, k)' => Spawning(p, k)
      BY <1>1 DEF Spawning, IsNext
    <3> QED
      BY <1>1, <2>2, <3>1, <3>2, JobKept
  <2> QED
    BY <2>1, <2>2
<1>4. \A k \in Jobs : starts[k] > 0 => starts'[k] > 0
  BY <1>2, RunnerElsewhere
<1>5. \A k \in Jobs : row'[k].st = "running" => row[k].st = "running"
  BY <1>0, RunnerStatus
<1>6. ClaimsOK(p)'
  <2>1. ASSUME sched[p].pc \in Claiming, NEW c \in sched[p].cand
        PROVE  /\ row'[c].st \in {row[c].st, "stopped"}
               /\ Ready(c) => Ready(c)'
               /\ runner'[p][c].pc \in Serving => runner[p][c].pc \in Serving
    <3>1. c \in Jobs
      BY <2>1 DEF TypeOK, Sched
    <3>2. CASE c = j
      <4>1. /\ UNCHANGED <<row, starts, handler>>
            /\ runner'[p][j].pc = "none"
        BY <2>1, <3>2, RunnerShared, ServedNotClaimed
      <4> QED
        BY <3>2, <4>1 DEF Ready, Serving
    <3>3. CASE c # j
      <4>1. starts'[c] = starts[c]
        BY <3>1, <3>3, RunnerElsewhere
      <4> QED
        BY <1>1, <3>1, <3>3, <4>1 DEF Ready
    <3> QED
      BY <3>2, <3>3
  <2>2. \A k \in Jobs : row'[k].st = "queued" => row[k].st = "queued" \/ starts'[k] > 0
    BY <1>1, <1>2
  <2> QED
    BY <1>0, <1>1, <1>4, <1>5, <2>1, <2>2, ClaimsKept
<1> QED
  BY <1>1, <1>2, <1>3, <1>6 DEF WorkerInv

-----------------------------------------------------------------------------
(* Its handlers.                                                           *)

\* A handler finds a stop only after a timeout, and returns, raises or polls on.
LEMMA WorkGoesOn ==
  ASSUME TypeOK, WorkerInv, NEW j \in Jobs, NEW n \in Starts, HandlerStep(j, n)
  PROVE  HandlersOK(j)'
<1>0. /\ RowOK(j) /\ HandlersOK(j) /\ handler[j][n] \in Handler
      /\ row \in [Jobs -> Row]
  BY NonEmptyAssumption DEF WorkerInv, JobOK, TypeOK
<1>1. /\ handler[j][n].pc \in {"poll", "halt", "work"}
      /\ row[j].st \notin {"none", "gone", "paused"} /\ starts[j] > 0
  BY <1>0 DEF HandlersOK, RowOK, HandlerStep, HandlerPoll, HandlerWait, HandlerHalt,
              HandlerWork, HandlerReturn, HandlerRaise
<1>9. row'[j].st # "none" /\ UNCHANGED starts
  <2> DEFINE r == [row[j] EXCEPT !.att = 0]
             s == [row[j] EXCEPT !.st = "stopped"]
  <2>1. r.st = row[j].st /\ s.st = "stopped"
    BY <1>0 DEF Row
  <2>2. UNCHANGED row \/ SetRow(j, r) \/ SetRow(j, s)
    BY DEF HandlerStep, HandlerPoll, HandlerWait, HandlerHalt, HandlerWork,
           HandlerReturn, HandlerRaise
  <2>3. UNCHANGED starts
    BY DEF HandlerStep, HandlerPoll, HandlerWait, HandlerHalt, HandlerWork,
           HandlerReturn, HandlerRaise, HandlerUnchanged
  <2> HIDE DEF r, s
  <2> QED
    BY <1>0, <1>1, <2>1, <2>2, <2>3 DEF SetRow
<1>2. ASSUME NEW h, SetHandler(j, n, h),
             h.pc \in {"none", "poll", "halt", "work", "done", "err"},
             h.pc \in {"poll", "halt"} => j \in Pollers,
             h.pc = "halt" => j \in Timed,
             h.late => handler[j][n].late
      PROVE  HandlersOK(j)'
  <2> SUFFICES ASSUME NEW m \in Starts
               PROVE  /\ handler'[j][m].pc \in {"none", "poll", "halt", "work",
                                                "done", "err"}
                      /\ handler'[j][m].pc \in {"poll", "halt"} => j \in Pollers
                      /\ handler'[j][m].pc = "halt" \/ handler'[j][m].late
                           => j \in Timed
    BY <1>1, <1>9 DEF HandlersOK
  <2>1. handler'[j][m] = IF m = n THEN h ELSE handler[j][m]
    BY <1>2, ExecutionSet
  <2>2. \A x \in {m, n} :
          /\ handler[j][x].pc \in {"none", "poll", "halt", "work", "done", "err"}
          /\ handler[j][x].pc \in {"poll", "halt"} => j \in Pollers
          /\ handler[j][x].pc = "halt" \/ handler[j][x].late => j \in Timed
    BY <1>0 DEF HandlersOK
  <2> QED
    BY <1>2, <2>1, <2>2
<1>3. ASSUME NEW pc, pc \in {"poll", "halt", "work"}, HandlerAt(j, n, pc),
             pc \in {"poll", "halt"} => j \in Pollers,
             pc = "halt" => j \in Timed
      PROVE  HandlersOK(j)'
  <2> DEFINE h == [handler[j][n] EXCEPT !.pc = pc]
  <2>1. h.pc = pc /\ h.late = handler[j][n].late
    BY <1>0 DEF Handler
  <2>2. SetHandler(j, n, h)
    BY <1>3 DEF HandlerAt
  <2> HIDE DEF h
  <2> QED
    BY <1>2, <1>3, <2>1, <2>2
<1>4. ASSUME NEW how \in {"done", "err"}, SetHandler(j, n, Ended(handler[j][n], how))
      PROVE  HandlersOK(j)'
  <2> DEFINE h == Ended(handler[j][n], how)
  <2>1. /\ h.pc \in {"none", "done", "err"}
        /\ h.late => handler[j][n].late
    BY <1>0 DEF Ended, NoHandler, Handler
  <2> HIDE DEF h
  <2> QED
    BY <1>2, <1>4, <2>1 DEF h
<1>5. CASE HandlerPoll(j, n)
  <2>1. handler[j][n].pc = "poll" /\ HandlerAt(j, n, Polled(row[j]))
    BY <1>5 DEF HandlerPoll
  <2>2. j \in Pollers /\ (row[j].stop => j \in Timed)
    BY <1>0, <2>1 DEF HandlersOK, RowOK
  <2>3. Polled(row[j]) = IF row[j].stop THEN "halt" ELSE "work"
    BY <1>1 DEF Polled, Exists, Absent
  <2> QED
    BY <1>3, <2>1, <2>2, <2>3
<1>6. CASE HandlerWork(j, n)
  BY <1>3, <1>6 DEF HandlerWork
<1>7. CASE HandlerReturn(j, n) \/ HandlerRaise(j, n) \/ HandlerHalt(j, n)
  BY <1>4, <1>7 DEF HandlerReturn, HandlerRaise, HandlerHalt
<1>8. ~HandlerWait(j, n)
  BY <1>1 DEF HandlerWait
<1> QED
  BY <1>5, <1>6, <1>7, <1>8 DEF HandlerStep

\* What a handler makes of the row: nothing; "stopped", by one left behind that
\* finds the stop asked of it; or no attempts, by one that its job thread waits
\* for, or one left behind that may report.
LEMMA HandlerRow ==
  ASSUME TypeOK, ThreadsInv, WorkerInv, NEW p \in Procs, Procs = {p},
         NEW j \in Jobs, NEW n \in Starts, HandlerStep(j, n)
  PROVE  /\ \A k \in Jobs : k # j => row'[k] = row[k]
         /\ row[j].st # "none"
         /\ \/ row'[j] = row[j]
            \/ /\ row'[j].st = "stopped" /\ row'[j].stop = row[j].stop
               /\ row'[j].att = row[j].att
               /\ j \in Stopping /\ starts[j] > 0
            \/ /\ row'[j].st = row[j].st /\ row'[j].stop = row[j].stop
               /\ row'[j].att = 0
               /\ runner[p][j].pc = "join" \/ j \in Reporting \/ ~Ready(j)
<1>0. /\ HandlersOK(j) /\ handler[j][n] \in Handler /\ row \in [Jobs -> Row]
      /\ starts \in [Jobs -> 0..MaxStarts]
  BY DEF WorkerInv, JobOK, TypeOK
<1>1. row[j].st # "none" /\ starts[j] > 0
  BY <1>0 DEF HandlersOK, HandlerStep, HandlerPoll, HandlerWait, HandlerHalt,
              HandlerWork, HandlerReturn, HandlerRaise
<1> DEFINE r == [row[j] EXCEPT !.att = 0]
           s == [row[j] EXCEPT !.st = "stopped"]
<1>2. /\ r.st = row[j].st /\ r.stop = row[j].stop /\ r.att = 0
      /\ s.st = "stopped" /\ s.stop = row[j].stop /\ s.att = row[j].att
  BY <1>0 DEF Row
<1>3. \/ UNCHANGED row
      \/ HandlerHalt(j, n) /\ SetRow(j, s)
      \/ HandlerReturn(j, n) /\ j \in Overwriters /\ SetRow(j, r)
  BY DEF HandlerStep, HandlerPoll, HandlerWait, HandlerHalt, HandlerWork,
         HandlerReturn, HandlerRaise
<1> HIDE DEF r, s
<1>4. HandlerHalt(j, n) => j \in Stopping
  BY <1>0 DEF HandlersOK, HandlerHalt, Stopping
<1>5. ASSUME HandlerReturn(j, n), j \in Overwriters
      PROVE  runner[p][j].pc = "join" \/ j \in Reporting \/ ~Ready(j)
  <2>1. handler[j][n].pc = "work" /\ handler[j][n].proc = p
    BY <1>0, <1>5 DEF HandlerReturn, Handler
  <2>2. CASE ~handler[j][n].late
    <3>1. Underway(handler[j][n])
      BY <2>1, <2>2 DEF Underway, Executing
    <3> QED
      BY <2>1, <3>1 DEF ThreadsInv, Owned
  <2>3. CASE handler[j][n].late
    <3>1. j \in Timed /\ MaxRetries[j] \in Nat
      BY <1>0, <2>3, RetriesAssumption DEF HandlersOK
    <3> QED
      BY <1>0, <1>1, <1>5, <3>1 DEF Reporting, Ready
  <2> QED
    BY <2>2, <2>3
<1> QED
  BY <1>0, <1>1, <1>2, <1>3, <1>4, <1>5 DEF SetRow

LEMMA HandlerLedger ==
  ASSUME TypeOK, ThreadsInv, WorkerInv, NEW p \in Procs, Procs = {p},
         NEW j \in Jobs, NEW n \in Starts, HandlerStep(j, n)
  PROVE  WorkerInv' /\ (Ledger!Next \/ UNCHANGED Ledger!vars)
<1>0. /\ JobOK(p, j) /\ ClaimsOK(p) /\ starts \in [Jobs -> 0..MaxStarts]
  BY DEF WorkerInv, TypeOK
<1>1. /\ UNCHANGED <<qpaused, sched, runner, starts>>
      /\ \A k \in Jobs : k # j => handler'[k] = handler[k]
  BY DEF HandlerStep, HandlerPoll, HandlerWait, HandlerHalt, HandlerWork,
         HandlerReturn, HandlerRaise, HandlerUnchanged, HandlerAt, SetHandler,
         TypeOK
<1>2. /\ \A k \in Jobs : k # j => row'[k] = row[k]
      /\ row[j].st # "none"
      /\ row'[j].st \in {row[j].st, "stopped"} /\ row'[j].stop = row[j].stop
      /\ (Ready(j) => Ready(j)') \/ runner[p][j].pc = "join"
      /\ \/ row'[j].st = row[j].st
         \/ j \in Stopping /\ starts[j] > 0
  <2>1. CASE row'[j] = row[j]
    BY <1>1, <2>1, HandlerRow DEF Ready
  <2>2. CASE /\ row'[j].st = "stopped" /\ row'[j].stop = row[j].stop
             /\ row'[j].att = row[j].att
             /\ j \in Stopping /\ starts[j] > 0
    BY <1>1, <2>2, HandlerRow DEF Ready
  <2>3. CASE /\ row'[j].st = row[j].st /\ row'[j].stop = row[j].stop
             /\ row'[j].att = 0
             /\ runner[p][j].pc = "join" \/ j \in Reporting \/ ~Ready(j)
    BY <1>0, <1>1, <2>3, HandlerRow DEF Ready
  <2> QED
    BY <2>1, <2>2, <2>3, HandlerRow
<1>3. JobOK(p, j)'
  <2>1. HandlersOK(j)'
    BY WorkGoesOn
  <2>2. Spawning(p, j)' => Spawning(p, j)
    BY <1>1 DEF Spawning, IsNext
  <2>3. RowOK(j)'
    BY <1>0, <1>1, <1>2 DEF JobOK, RowOK, ThreadOK, Serving
  <2>4. ThreadOK(p, j)'
    BY <1>0, <1>1, <1>2 DEF JobOK, ThreadOK
  <2>5. SpawnOK(p, j)'
    BY <1>0, <1>1, <1>2, <2>2 DEF JobOK, SpawnOK
  <2> QED
    BY <2>1, <2>3, <2>4, <2>5 DEF JobOK
<1>4. ASSUME NEW k \in Jobs, k # j
      PROVE  JobOK(p, k)'
  <2>1. JobOK(p, k) /\ (Spawning(p, k)' => Spawning(p, k))
    BY <1>1 DEF WorkerInv, Spawning, IsNext
  <2> QED
    BY <1>1, <1>2, <1>4, <2>1, JobKept
<1>5. ClaimsOK(p)'
  <2>1. ASSUME sched[p].pc \in Claiming, NEW c \in sched[p].cand
        PROVE  /\ row'[c].st \in {row[c].st, "stopped"}
               /\ Ready(c) => Ready(c)'
               /\ runner'[p][c].pc \in Serving => runner[p][c].pc \in Serving
    <3>1. c \in Jobs
      BY <2>1 DEF TypeOK, Sched
    <3>2. c = j => runner[p][j].pc # "join"
      BY <2>1, ServedNotClaimed DEF Serving
    <3> QED
      BY <1>1, <1>2, <3>1, <3>2 DEF Ready
  <2>2. \A k \in Jobs : row'[k].st \in {row[k].st, "stopped"}
    BY <1>2
  <2> QED
    BY <1>0, <1>1, <2>1, <2>2, ClaimsKept
<1>6. Ledger!Next \/ UNCHANGED Ledger!vars
  <2>1. CASE row'[j].st = row[j].st
    BY <1>1, <1>2, <2>1, LedgerStutter
  <2>2. CASE row'[j].st = "stopped" /\ j \in Stopping /\ starts[j] > 0
    <3>1. \A k \in Jobs : row'[k].st = IF k = j THEN "stopped" ELSE row[k].st
      BY <1>2, <2>2
    <3>2. Ledger!Stop(j)
      BY <1>1, <2>2, <3>1 DEF Ledger!Stop
    <3> QED
      BY <3>2 DEF Ledger!Next
  <2> QED
    BY <1>2, <2>1, <2>2
<1> QED
  BY <1>1, <1>3, <1>4, <1>5, <1>6 DEF WorkerInv

-----------------------------------------------------------------------------
(* The process dies with its threads and starts again.                     *)

LEMMA NothingMoves ==
  ASSUME WorkerInv, UNCHANGED <<row, qpaused, sched, runner, handler, starts>>
  PROVE  WorkerInv' /\ UNCHANGED Ledger!vars
<1>1. ASSUME NEW p \in Procs, NEW j \in Jobs
      PROVE  JobOK(p, j)'
  <2>1. JobOK(p, j) /\ (Spawning(p, j)' => Spawning(p, j))
    BY DEF WorkerInv, Spawning, IsNext
  <2> QED
    BY <2>1, JobKept
<1>2. ASSUME NEW p \in Procs
      PROVE  ClaimsOK(p)'
  BY DEF WorkerInv, ClaimsOK, Taken, CandidateOK, Ready, RowsOf, Spawning, IsNext
<1> QED
  BY <1>1, <1>2, LedgerStutter DEF WorkerInv

LEMMA CrashLedger ==
  ASSUME TypeOK, WorkerInv, NEW p \in Procs, Procs = {p}, Crash(p) \/ Restart(p)
  PROVE  WorkerInv' /\ UNCHANGED Ledger!vars
<1>0. UNCHANGED <<row, qpaused, starts>>
  BY DEF Crash, Restart
<1>1. CASE Restart(p)
  BY <1>1, NothingMoves DEF Restart
<1>2. CASE Crash(p)
  <2>1. /\ sched'[p] = Idle
        /\ \A j \in Jobs : runner'[p][j] = NoRunner
        /\ \A j \in Jobs, n \in Starts : handler'[j][n] \in {NoHandler, handler[j][n]}
    BY <1>2 DEF Crash, TypeOK
  <2>2. /\ sched'[p].pc = "idle"
        /\ \A j \in Jobs : runner'[p][j].pc = "none"
        /\ NoHandler.pc = "none" /\ NoHandler.late = FALSE
    BY <2>1 DEF Idle, NoRunner, NoHandler
  <2>3. ASSUME NEW j \in Jobs
        PROVE  JobOK(p, j)'
    <3>1. JobOK(p, j)
      BY DEF WorkerInv
    <3>2. RowOK(j)' /\ HandlersOK(j)'
      BY <1>0, <2>1, <2>2, <3>1 DEF JobOK, RowOK, HandlersOK, Ready
    <3>3. ThreadOK(p, j)' /\ SpawnOK(p, j)'
      BY <1>0, <2>2, <3>1
      DEF JobOK, ThreadOK, SpawnOK, Serving, WithAttempt, Spawning
    <3> QED
      BY <3>2, <3>3 DEF JobOK
  <2>4. ClaimsOK(p)'
    <3>1. sched'[p].held = "open"
      BY <2>1 DEF Idle
    <3> QED
      BY <2>2, <3>1 DEF ClaimsOK, Claiming
  <2> QED
    BY <1>0, <2>3, <2>4, LedgerStutter DEF WorkerInv
<1> QED
  BY <1>1, <1>2

-----------------------------------------------------------------------------

LEMMA LedgerInit ==
  ASSUME Init
  PROVE  WorkerInv /\ Ledger!Init
<1>1. /\ \A j \in Jobs : row[j] = NoRow /\ starts[j] = 0 /\ row[j].st = "none"
      /\ \A p \in Procs : sched[p].pc = "idle" /\ sched[p].held = "open"
      /\ \A p \in Procs, j \in Jobs : runner[p][j].pc = "none"
      /\ \A j \in Jobs, n \in Starts : handler[j][n] = NoHandler
      /\ \A q \in Queues : ~qpaused[q]
      /\ starts = [j \in Jobs |-> 0]
  BY DEF Init, NoRow, Idle, NoRunner
<1>2. ASSUME NEW p \in Procs, NEW j \in Jobs
      PROVE  JobOK(p, j)
  <2>1. RowOK(j)
    BY <1>1 DEF RowOK, NoRow
  <2>2. ThreadOK(p, j) /\ SpawnOK(p, j)
    BY <1>1 DEF ThreadOK, SpawnOK, Spawning, Serving, WithAttempt
  <2>3. HandlersOK(j)
    <3>1. NoHandler.pc = "none" /\ ~NoHandler.late
      BY DEF NoHandler
    <3>2. \A n \in Starts : handler[j][n].pc = "none" /\ ~handler[j][n].late
      BY <1>1, <3>1
    <3> QED
      BY <3>2 DEF HandlersOK
  <2> QED
    BY <2>1, <2>2, <2>3 DEF JobOK
<1>3. \A p \in Procs : ClaimsOK(p)
  BY <1>1 DEF ClaimsOK, Claiming
<1>5. Ledger!Init
  BY <1>1 DEF Ledger!Init
<1> QED
  BY <1>1, <1>2, <1>3, <1>5 DEF WorkerInv

LEMMA WorkerStep ==
  ASSUME OneWorker, TypeOK, ThreadsInv, WorkerInv, InOrder, [Next]_vars
  PROVE  WorkerInv' /\ [Ledger!Next]_(Ledger!vars)
<1>0. PICK p \in Procs : Procs = {p}
  BY DEF OneWorker
<1>1. ASSUME NEW j \in Jobs, Enqueue(j)
      PROVE  WorkerInv' /\ [Ledger!Next]_(Ledger!vars)
  BY <1>1, EnqueueLedger
<1>2. CASE SchedStep(p)
  BY <1>0, <1>2, SchedLedger
<1>3. CASE Crash(p) \/ Restart(p)
  BY <1>0, <1>3, CrashLedger
<1>4. ASSUME NEW j \in Jobs, RunnerStep(p, j)
      PROVE  WorkerInv' /\ [Ledger!Next]_(Ledger!vars)
  BY <1>0, <1>4, RunnerLedger
<1>5. ASSUME NEW j \in Jobs, NEW n \in Starts, HandlerStep(j, n)
      PROVE  WorkerInv' /\ [Ledger!Next]_(Ledger!vars)
  BY <1>0, <1>5, HandlerLedger DEF OneWorker
<1>6. CASE UNCHANGED vars
  BY <1>6, NothingMoves DEF vars
<1> QED
  BY <1>0, <1>1, <1>2, <1>3, <1>4, <1>5, <1>6 DEF Next, OneWorker

\* One worker process keeps the promise that the ledger states, with any jobs
\* and queues, any budgets of retries, any handlers, timing out or missing, and
\* crashes at any point: every step of its threads is a step of the ledger or
\* invisible in it, as long as jobs are committed in the order of created_at
\* (_tick, _mark_job_running, _spawn_job, _run_job_thread).
THEOREM WorkerKeepsLedger ==
  ASSUME OneWorker
  PROVE  OrderedSpec => ImplementsLedger
<1>1. Init => WorkerInv /\ Ledger!Init /\ ThreadsInv /\ InOrder
  <2>1. Init => ThreadsInv
    BY DEF Init, ThreadsInv, Owned, NoRunner, NoHandler, Underway, Executing
  <2>2. Init => InOrder
    BY DEF Init, InOrder, NoRow
  <2> QED
    BY <2>1, <2>2, LedgerInit
<1>2. /\ TypeOK /\ ThreadsInv /\ WorkerInv /\ InOrder /\ [Next]_vars
         => WorkerInv' /\ [Ledger!Next]_(Ledger!vars)
  BY WorkerStep
<1>3. TypeOK /\ ThreadsInv /\ [Next]_vars => ThreadsInv'
  BY ThreadsStep
<1>4. InOrder /\ [Next /\ InOrder']_vars => InOrder' /\ [Next]_vars
  BY DEF vars, InOrder
<1>5. OrderedSpec => Spec /\ []InOrder
  BY <1>1, <1>4, PTL DEF OrderedSpec, Spec
<1> QED
  BY <1>1, <1>2, <1>3, <1>5, TypeCorrect, PTL DEF Spec, ImplementsLedger, Ledger!Spec

=============================================================================
