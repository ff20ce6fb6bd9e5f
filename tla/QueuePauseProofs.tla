-------------------------- MODULE QueuePauseProofs --------------------------
(***************************************************************************)
(* The theorem about pausing a queue, for any number of processes, queues  *)
(* and jobs, with crashes, controls and retries of any kind.               *)
(***************************************************************************)
EXTENDS MCQueuePause, JobRuntimeProofs

\* The processes that may yet commit a claim on queue q, were it paused now:
\* those that have decided on one, those that serve it with a copy they loaded
\* before, and those that have it still to serve in this tick and have not
\* committed in it, so that they will look at such a copy.
Able(q) ==
  {p \in Procs :
     \/ sched[p].pc = "write" /\ sched[p].queue = q
     \/ ~sched[p].fresh /\ sched[p].pc # "idle" /\ q \in sched[p].todo
     \/ /\ sched[p].pc \in {"query", "claim", "spawn"}
        /\ sched[p].queue = q /\ sched[p].held = "open"}

\* Once a queue is paused, each claim committed takes one process from those
\* that may commit another.
Drains(q) ==
  /\ claims[q] \in Nat
  /\ ~qpaused[q] => claims[q] = 0
  /\ qpaused[q] => claims[q] + Cardinality(Able(q)) <= Cardinality(Procs)

PauseInv == (\A p \in Procs : OwnJobs(p)) /\ \A q \in Queues : Drains(q)

-----------------------------------------------------------------------------

\* The process p commits a claim on queue q.
Commits(p, q) == /\ sched[p].pc = "write" /\ sched'[p].pc = "spawn"
                 /\ sched[p].queue = q

\* While a queue is paused no process becomes able to claim in it, and the one
\* that claims no longer is.
LEMMA AbleStep ==
  ASSUME TypeOK, [Next]_vars, NEW p \in Procs, OwnJobs(p),
         NEW q \in Queues, qpaused[q]
  PROVE  /\ p \in Able(q)' => p \in Able(q) /\ ~Commits(p, q)
         /\ Commits(p, q) => p \in Able(q)
<1>1. Commits(p, q) => p \in Able(q)
  BY DEF Commits, Able
<1>2. ASSUME p \in Able(q)'
      PROVE  p \in Able(q) /\ ~Commits(p, q)
  <2> USE DEF Able, Commits
  <2>1. CASE sched'[p] = sched[p] \/ sched'[p].pc = "idle"
    BY <1>2, <2>1
  <2>2. CASE Ticks(p)
    BY <1>2, <2>2 DEF Ticks, SameTick, SameQueue, QueueCopy
  <2>3. ASSUME NEW j \in Jobs, Claims(p, j)
        PROVE  p \in Able(q) /\ ~Commits(p, q)
    <3>1. CASE ClaimRead(p, j)
      <4>1. /\ sched[p].pc = "claim" /\ sched'[p].pc = "write"
            /\ SameQueue(sched[p], sched'[p])
            /\ j \in sched[p].cand
            /\ sched[p].held = "open" \/ ~qpaused[QueueOf[j]]
        BY <2>3, <3>1
        DEF Claims, ClaimRead, ClaimSkip, ClaimWrite, Spawn, IsNext, Claimable,
            Loaded
      <4>2. QueueOf[j] = sched[p].queue
        BY <4>1 DEF OwnJobs
      <4> QED
        BY <1>2, <4>1, <4>2 DEF SameQueue, SameTick
    <3>2. CASE sched[p].pc = "write" /\ sched'[p].pc = "spawn"
      <4>1. sched'[p].fresh /\ sched'[p].held = "expired"
        BY <2>3, <3>2 DEF Claims
      <4> QED
        BY <1>2, <3>2, <4>1
    <3>3. CASE /\ sched[p].pc = "spawn" /\ sched'[p].pc = "claim"
               /\ SameQueue(sched[p], sched'[p])
      BY <1>2, <3>3 DEF SameQueue, SameTick
    <3>4. CASE /\ ClaimSkip(p, j)
               /\ sched[p].pc = "claim" /\ sched'[p].pc = "claim"
               /\ SameTick(sched[p], sched'[p])
               /\ sched'[p].queue = sched[p].queue
               /\ sched'[p].held = IF row[j].st = "queued" THEN Loaded(p, j)
                                   ELSE sched[p].held
      <4>1. j \in sched[p].cand
        BY <3>4 DEF ClaimSkip, IsNext
      <4>2. QueueOf[j] = sched[p].queue
        BY <3>4, <4>1 DEF OwnJobs
      <4>3. sched[p].queue = q /\ sched'[p].held = "open" => sched[p].held = "open"
        BY <3>4, <4>2 DEF Loaded
      <4> QED
        BY <1>2, <3>4, <4>3 DEF SameTick
    <3> QED
      BY <2>1, <2>3, <3>1, <3>2, <3>3, <3>4 DEF Claims
  <2> QED
    BY <2>1, <2>2, <2>3, SchedMoves
<1> QED
  BY <1>1, <1>2

LEMMA AbleCount ==
  ASSUME IsFiniteSet(Procs), NEW q
  PROVE  /\ IsFiniteSet(Able(q)) /\ Cardinality(Able(q)) \in Nat
         /\ Cardinality(Able(q)) <= Cardinality(Procs)
         /\ IsFiniteSet(Able(q)') /\ Cardinality(Able(q)') \in Nat
         /\ Cardinality(Able(q)') <= Cardinality(Procs)
         /\ Cardinality(Procs) \in Nat
<1>1. Able(q) \subseteq Procs /\ Able(q)' \subseteq Procs
  BY DEF Able
<1> QED
  BY <1>1, FS_Subset, FS_CardinalityType

\* Only a pause changes what is paused.
LEMMA PausedStep ==
  ASSUME TypeOK, [Next]_vars
  PROVE  UNCHANGED qpaused \/ UNCHANGED sched
<1>1. ASSUME NEW p \in Procs, SchedStep(p) \/ Crash(p)
      PROVE  UNCHANGED qpaused
  BY <1>1 DEF SchedStep, TickStart, TickCount, TickEnd, TickQuery, QueueDone,
              ClaimRead, ClaimSkip, ClaimWrite, Spawn, SchedUnchanged, Crash
<1> QED
  BY <1>1, TypeParts, SchedKept DEF Next, vars

LEMMA DrainsStep ==
  ASSUME IsFiniteSet(Procs), TypeOK, PauseInv, [Next]_vars,
         NEW q \in Queues,
         claims'[q] = IF ~qpaused'[q] THEN 0
                      ELSE IF Claimed(q) THEN claims[q] + 1 ELSE claims[q]
  PROVE  Drains(q)'
<1>0. Drains(q)
  BY DEF PauseInv
<1>1. CASE ~qpaused'[q]
  BY <1>1 DEF Drains
<1>2. CASE qpaused'[q] /\ ~qpaused[q]
  <2>1. UNCHANGED sched
    BY <1>2, PausedStep
  <2>2. ~Claimed(q)
    BY <2>1 DEF Claimed
  <2>3. claims[q] = 0
    BY <1>0, <1>2 DEF Drains
  <2> QED
    BY <1>2, <2>2, <2>3, AbleCount DEF Drains
<1>3. CASE qpaused'[q] /\ qpaused[q]
  <2>1. Able(q)' \subseteq Able(q)
    <3>1. ASSUME NEW p \in Able(q)' PROVE p \in Able(q)
      <4>1. p \in Procs
        BY <3>1 DEF Able
      <4> QED
        BY <1>3, <3>1, <4>1, AbleStep DEF PauseInv
    <3> QED
      BY <3>1
  <2>2. CASE ~Claimed(q)
    <3>1. Cardinality(Able(q)') <= Cardinality(Able(q))
      BY <2>1, AbleCount, FS_Subset
    <3> QED
      BY <1>0, <1>3, <2>2, <3>1, AbleCount DEF Drains
  <2>3. CASE Claimed(q)
    <3>1. PICK p \in Procs : Commits(p, q)
      BY <2>3 DEF Claimed, Commits
    <3>2. p \in Able(q) /\ p \notin Able(q)'
      BY <1>3, <3>1, AbleStep DEF PauseInv
    <3>3. Able(q)' \subseteq Able(q) \ {p}
      BY <2>1, <3>2
    <3>4. /\ IsFiniteSet(Able(q) \ {p})
          /\ Cardinality(Able(q) \ {p}) = Cardinality(Able(q)) - 1
      BY <3>2, AbleCount, FS_RemoveElement
    <3>5. Cardinality(Able(q)') <= Cardinality(Able(q)) - 1
      BY <3>3, <3>4, FS_Subset
    <3> QED
      BY <1>0, <1>3, <2>3, <3>5, AbleCount DEF Drains
  <2> QED
    BY <2>2, <2>3
<1> QED
  BY <1>1, <1>2, <1>3

\* Once a queue is paused, each process commits at most one more claim in it,
\* for any number of processes, queues and jobs, in whatever state of their
\* ticks the pause finds them (_tick, _mark_job_running).
THEOREM PausedQueuesDrain ==
  ASSUME IsFiniteSet(Procs)
  PROVE  PauseSpec => []PausedQueueDrains
<1>1. Init /\ claims = [q \in Queues |-> 0] => PauseInv
  BY DEF Init, PauseInv, OwnJobs, Drains, Idle
<1>2. TypeOK /\ PauseInv /\ [Next /\ CountClaims]_<<vars, claims>> => PauseInv'
  <2> SUFFICES ASSUME TypeOK, PauseInv, [Next /\ CountClaims]_<<vars, claims>>
               PROVE  PauseInv'
    OBVIOUS
  <2>1. CASE Next /\ CountClaims
    <3>1. \A p \in Procs : OwnJobs(p)'
      BY <2>1, OwnJobsStep DEF PauseInv
    <3>2. \A q \in Queues :
            claims'[q] = IF ~qpaused'[q] THEN 0
                         ELSE IF Claimed(q) THEN claims[q] + 1 ELSE claims[q]
      BY <2>1 DEF CountClaims
    <3>3. \A q \in Queues : Drains(q)'
      BY <2>1, <3>2, DrainsStep
    <3> QED
      BY <3>1, <3>3 DEF PauseInv
  <2>2. CASE UNCHANGED <<vars, claims>>
    BY <2>2 DEF vars, PauseInv, OwnJobs, Drains, Able
  <2> QED
    BY <2>1, <2>2
<1>3. PauseInv => PausedQueueDrains
  <2> SUFFICES ASSUME PauseInv, NEW q \in Queues
               PROVE  claims[q] <= Cardinality(Procs)
    BY DEF PausedQueueDrains
  <2> QED
    BY AbleCount DEF PauseInv, Drains
<1>4. [Next /\ CountClaims]_<<vars, claims>> => [Next]_vars
  BY DEF vars
<1> QED
  BY <1>1, <1>2, <1>3, <1>4, TypeCorrect, PTL DEF PauseSpec, Spec
=============================================================================
