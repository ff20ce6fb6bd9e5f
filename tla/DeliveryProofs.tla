---------------------------- MODULE DeliveryProofs ----------------------------
(***************************************************************************)
(* Theorems about messages and their delivery, for any jobs, workers,      *)
(* requests, inbox pages and scenes.                                       *)
(***************************************************************************)
EXTENDS Delivery, RedisProofs

-----------------------------------------------------------------------------
(* Delivery runs on the Redis runtime: each of its steps is one of the     *)
(* runtime's, or leaves the runtime alone.                                 *)

LEMMA MailThreadStepIsThreadStep == MailThreadStep => ThreadStep
<1>1. ASSUME NEW j \in Jobs, NEW n \in Starts,
             UserMail(j, n) \/ BroadcastMail(j, n) \/ OtherWork(j, n)
      PROVE  HandlerStep(j, n)
  BY <1>1 DEF UserMail, DeliverUser, BroadcastMail, OtherWork, HandlerStep
<1>2. ASSUME NEW j \in Jobs, NEW n \in Starts,
             \/ HandlerPoll(j, n) \/ HandlerWait(j, n)
             \/ HandlerHalt(j, n) \/ HandlerWork(j, n)
      PROVE  HandlerStep(j, n)
  BY <1>2 DEF HandlerStep
<1> QED
  BY <1>1, <1>2 DEF MailThreadStep, ThreadStep

LEMMA DeliveryMoves == [DeliveryNext]_deliveryVars => RedisMove
<1>1. CASE RedisStep \/ (\E j \in Jobs \ scene.mail : EnqueueJob(j)) \/ MailThreadStep
  BY <1>1, MailThreadStepIsThreadStep DEF RedisMove, RedisNext
<1>2. ASSUME NEW j \in Jobs, PostStep(j)
      PROVE  RedisMove
  <2>1. EnqueueJob(j) \/ FaultElsewhere \/ UNCHANGED allVars
    BY <1>2 DEF PostStep, Post, QueueMail, QueueFails, PostEnds, PostDies,
                FaultElsewhere
  <2> QED
    BY <2>1 DEF RedisMove, RedisNext
<1>3. ASSUME NEW t \in Tabs, TabStep(t)
      PROVE  RedisMove
  <2>1. FaultElsewhere \/ UNCHANGED allVars
    BY <1>3 DEF TabStep, OpenInbox, MarkBegin, MarkTaken, MarkWritten, MarkEnds,
                MarkFails, FaultElsewhere
  <2> QED
    BY <2>1 DEF RedisMove
<1>4. CASE UNCHANGED deliveryVars
  BY <1>4 DEF deliveryVars, RedisMove
<1> QED
  BY <1>1, <1>2, <1>3, <1>4 DEF DeliveryNext

-----------------------------------------------------------------------------
(* Types.                                                                  *)

TabState == [pc    : {"closed", "open", "write", "pending", "failed", "done"},
             shown : SUBSET Jobs, msg : Jobs \cup {0}]

MailTypes ==
  /\ post \in [Jobs -> PostStates]
  /\ marks \in [Jobs -> {0, 1}]
  /\ tab \in [Tabs -> TabState]

LEMMA PostTypes ==
  ASSUME MailTypes, NEW j \in Jobs, PostStep(j)
  PROVE  MailTypes' /\ UNCHANGED <<marks, tab>>
<1>1. UNCHANGED <<marks, tab>>
  BY DEF PostStep, Post, QueueMail, QueueFails, PostEnds, PostDies
<1>2. post' \in [Jobs -> PostStates]
  BY DEF PostStep, Post, QueueMail, QueueFails, PostEnds, PostDies, SetPost,
         MailTypes, PostStates
<1> QED
  BY <1>1, <1>2 DEF MailTypes

\* What a page's request does to its page, one case per action.
TabMoves(t, new) ==
  \/ OpenInbox(t) /\ new = [tab[t] EXCEPT !.pc = "open", !.shown = Unread]
  \/ \E j \in Jobs :
       /\ MarkBegin(t, j)
       /\ new = [pc |-> IF j \in Unread THEN "write" ELSE "done",
                 shown |-> {}, msg |-> j]
  \/ MarkTaken(t) /\ new = [tab[t] EXCEPT !.pc = "done"]
  \/ MarkWritten(t) /\ new = [tab[t] EXCEPT !.pc = "pending"]
  \/ MarkEnds(t) /\ new = [tab[t] EXCEPT !.pc = "done"]
  \/ MarkFails(t) /\ new = [tab[t] EXCEPT !.pc = "failed"]

LEMMA TabStepMoves ==
  ASSUME NEW t \in Tabs, TabStep(t)
  PROVE  \E new : TabMoves(t, new) /\ tab' = [tab EXCEPT ![t] = new]
BY DEF TabStep, TabMoves, OpenInbox, MarkBegin, MarkTaken, MarkWritten, MarkEnds,
       MarkFails

-----------------------------------------------------------------------------
(* Reading.  Two requests never have one mark pending together, and no     *)
(* marker is pending while there is one; so a second marker is never       *)
(* committed, and a request refused for a marker found it committed.       *)

PendingOK(t) ==
  /\ \A j \in tab[t].shown : post[j] # "none"
  /\ tab[t].pc \in {"write", "pending", "done"} => tab[t].msg \in Jobs
  /\ tab[t].pc = "pending" =>
       /\ ~Pending(t)
       /\ Kind[tab[t].msg] = "broadcast" => marks[tab[t].msg] = 0
  /\ tab[t].pc = "done" => marks[tab[t].msg] = 1

TabsInv == \A t \in Tabs : PendingOK(t)

LEMMA TabStepInv ==
  ASSUME MailTypes, TabsInv, NEW t \in Tabs, TabStep(t)
  PROVE  MailTypes' /\ TabsInv'
<1>0. /\ tab[t] \in TabState /\ tab \in [Tabs -> TabState] /\ PendingOK(t)
      /\ marks \in [Jobs -> {0, 1}]
  BY DEF MailTypes, TabsInv
<1>1. PICK new : TabMoves(t, new) /\ tab' = [tab EXCEPT ![t] = new]
  BY TabStepMoves
<1>p. UNCHANGED post
  BY <1>1 DEF TabMoves, OpenInbox, MarkBegin, MarkTaken, MarkWritten, MarkEnds,
              MarkFails
<1>2. ASSUME new \in TabState, new.pc # "pending", UNCHANGED marks,
             \A j \in new.shown : post[j] # "none",
             new.pc \in {"write", "done"} => new.msg \in Jobs,
             new.pc = "done" => marks[new.msg] = 1
      PROVE  MailTypes' /\ TabsInv'
  <2>0. new.shown \subseteq Jobs
    BY <1>2 DEF TabState
  <2>1. MailTypes'
    BY <1>0, <1>1, <1>p, <1>2 DEF MailTypes
  <2>2. ASSUME NEW x \in Tabs
        PROVE  PendingOK(x)'
    <3>1. PendingOK(x)
      BY DEF TabsInv
    <3>2. tab'[x] = IF x = t THEN new ELSE tab[x]
      BY <1>0, <1>1
    <3>3. x # t /\ ~Pending(x) => ~Pending(x)'
      BY <1>0, <1>1, <1>2, <3>2 DEF Pending
    <3> QED
      BY <1>p, <1>2, <2>0, <3>1, <3>2, <3>3 DEF PendingOK
  <2> QED
    BY <2>1, <2>2 DEF TabsInv
<1>3. CASE OpenInbox(t) /\ new = [tab[t] EXCEPT !.pc = "open", !.shown = Unread]
  <2>1. new.pc = "open" /\ new.shown = Unread /\ new \in TabState
    BY <1>0, <1>3 DEF TabState, Unread
  <2>2. \A j \in Unread : post[j] # "none"
    BY DEF Unread
  <2> QED
    BY <1>2, <1>3, <2>1, <2>2 DEF OpenInbox
<1>4. CASE MarkFails(t) /\ new = [tab[t] EXCEPT !.pc = "failed"]
  <2>1. new.pc = "failed" /\ new.shown = tab[t].shown /\ new \in TabState
    BY <1>0, <1>4 DEF TabState
  <2> QED
    BY <1>0, <1>2, <1>4, <2>1 DEF MarkFails, PendingOK
<1>5. ASSUME NEW j \in Jobs, MarkBegin(t, j),
             new = [pc |-> IF j \in Unread THEN "write" ELSE "done",
                    shown |-> {}, msg |-> j]
      PROVE  MailTypes' /\ TabsInv'
  <2>1. /\ new.pc \in {"write", "done"} /\ new.msg = j /\ new.shown = {}
        /\ new \in TabState
        /\ new.pc = "done" => j \notin Unread
    BY <1>5 DEF TabState
  <2>2. j \notin Unread => marks[j] = 1
    BY <1>0, <1>5 DEF Unread, MarkBegin, PendingOK
  <2> QED
    BY <1>2, <1>5, <2>1, <2>2 DEF MarkBegin
<1>6. CASE MarkTaken(t) /\ new = [tab[t] EXCEPT !.pc = "done"]
  <2>1. /\ new.pc = "done" /\ new.msg = tab[t].msg /\ new.shown = tab[t].shown
        /\ new \in TabState
    BY <1>0, <1>6 DEF TabState
  <2>2. tab[t].msg \in Jobs /\ marks[tab[t].msg] = 1
    BY <1>0, <1>6 DEF MarkTaken, Taken, PendingOK
  <2> QED
    BY <1>0, <1>2, <1>6, <2>1, <2>2 DEF MarkTaken, PendingOK
<1>7. CASE MarkWritten(t) /\ new = [tab[t] EXCEPT !.pc = "pending"]
  <2>1. /\ new.pc = "pending" /\ new.msg = tab[t].msg /\ new.shown = tab[t].shown
        /\ new \in TabState /\ new.shown \subseteq Jobs
    BY <1>0, <1>7 DEF TabState
  <2>2. /\ UNCHANGED marks /\ ~Pending(t) /\ tab[t].msg \in Jobs
        /\ Kind[tab[t].msg] = "broadcast" => marks[tab[t].msg] = 0
    BY <1>0, <1>7 DEF MarkWritten, Taken, PendingOK
  <2>3. MailTypes'
    BY <1>0, <1>1, <1>p, <2>1, <2>2 DEF MailTypes
  <2>4. ASSUME NEW x \in Tabs
        PROVE  PendingOK(x)'
    <3>1. PendingOK(x)
      BY DEF TabsInv
    <3>2. tab'[x] = IF x = t THEN new ELSE tab[x]
      BY <1>0, <1>1
    <3>3. CASE x = t
      <4>1. ~Pending(t)'
        BY <1>0, <1>1, <2>1, <2>2 DEF Pending
      <4> QED
        BY <1>0, <1>p, <2>1, <2>2, <3>2, <3>3, <4>1 DEF PendingOK
    <3>4. CASE x # t
      <4>1. tab[x].pc = "pending" => tab[x].msg # tab[t].msg
        BY <2>2, <3>4 DEF Pending
      <4>2. tab[x].pc = "pending" /\ ~Pending(x) => ~Pending(x)'
        BY <1>0, <1>1, <2>1, <3>2, <3>4, <4>1 DEF Pending
      <4>3. \A j \in tab'[x].shown : post'[j] # "none"
        BY <1>p, <3>1, <3>2, <3>4 DEF PendingOK
      <4> QED
        BY <2>2, <3>1, <3>2, <3>4, <4>2, <4>3 DEF PendingOK
    <3> QED
      BY <3>3, <3>4
  <2> QED
    BY <2>3, <2>4 DEF TabsInv
<1>8. CASE MarkEnds(t) /\ new = [tab[t] EXCEPT !.pc = "done"]
  <2>1. /\ new.pc = "done" /\ new.msg = tab[t].msg /\ new.shown = tab[t].shown
        /\ new \in TabState /\ new.shown \subseteq Jobs
    BY <1>0, <1>8 DEF TabState
  <2>2. tab[t].pc = "pending" /\ tab[t].msg \in Jobs /\ ~Pending(t)
    BY <1>0, <1>8 DEF MarkEnds, PendingOK
  <2> DEFINE j == tab[t].msg
             m == IF Kind[j] = "broadcast" THEN marks[j] + 1 ELSE 1
  <2>3. marks' = [marks EXCEPT ![j] = 1]
    <3>1. m = 1
      BY <1>0, <2>2 DEF PendingOK
    <3>2. marks' = [marks EXCEPT ![j] = m]
      BY <1>8 DEF MarkEnds
    <3> HIDE DEF m, j
    <3> QED
      BY <3>1, <3>2
  <2>4. MailTypes'
    BY <1>0, <1>1, <1>p, <2>1, <2>3 DEF MailTypes
  <2>5. ASSUME NEW x \in Tabs
        PROVE  PendingOK(x)'
    <3>1. PendingOK(x)
      BY DEF TabsInv
    <3>2. tab'[x] = IF x = t THEN new ELSE tab[x]
      BY <1>0, <1>1
    <3>3. CASE x = t
      BY <1>0, <1>p, <2>1, <2>2, <2>3, <3>2, <3>3 DEF PendingOK
    <3>4. CASE x # t
      <4>1. tab[x].pc = "pending" => tab[x].msg # tab[t].msg
        BY <2>2, <3>4 DEF Pending
      <4>2. ~Pending(x) => ~Pending(x)'
        BY <1>0, <1>1, <2>1, <3>2 DEF Pending
      <4>3. \A k \in tab'[x].shown : post'[k] # "none"
        BY <1>p, <3>1, <3>2, <3>4 DEF PendingOK
      <4> QED
        BY <1>0, <2>2, <2>3, <3>1, <3>2, <3>4, <4>1, <4>2, <4>3 DEF PendingOK
    <3> QED
      BY <3>3, <3>4
  <2> QED
    BY <2>4, <2>5 DEF TabsInv
<1> QED
  BY <1>1, <1>3, <1>4, <1>5, <1>6, <1>7, <1>8 DEF TabMoves

\* Nothing outside the pages disturbs them, as what is posted stays posted.
LEMMA TabsKept ==
  ASSUME MailTypes, TabsInv, UNCHANGED <<marks, tab>>,
         \A j \in Jobs : post[j] # "none" => post'[j] # "none"
  PROVE  TabsInv'
<1> SUFFICES ASSUME NEW t \in Tabs
             PROVE  PendingOK(t)'
  BY DEF TabsInv
<1>1. PendingOK(t) /\ tab[t] \in TabState /\ tab'[t] = tab[t]
  BY DEF TabsInv, MailTypes
<1>2. tab[t].shown \subseteq Jobs
  BY <1>1 DEF TabState
<1>3. Pending(t)' <=> Pending(t)
  BY DEF Pending
<1> QED
  BY <1>1, <1>2, <1>3 DEF PendingOK

LEMMA MailStep ==
  ASSUME MailTypes, TabsInv, [DeliveryNext]_deliveryVars
  PROVE  MailTypes' /\ TabsInv'
<1>1. CASE UNCHANGED mailVars
  <2>1. MailTypes'
    BY <1>1 DEF mailVars, MailTypes
  <2> QED
    BY <1>1, <2>1, TabsKept DEF mailVars
<1>2. ASSUME NEW j \in Jobs, PostStep(j)
      PROVE  MailTypes' /\ TabsInv'
  <2>1. \A k \in Jobs : post[k] # "none" => post'[k] # "none"
    BY <1>2 DEF PostStep, Post, QueueMail, QueueFails, PostEnds, PostDies, SetPost,
                MailTypes
  <2> QED
    BY <1>2, <2>1, PostTypes, TabsKept
<1> QED
  BY <1>1, <1>2, TabStepInv DEF DeliveryNext, deliveryVars, MailThreadStep

-----------------------------------------------------------------------------
(* False success.  The handler of a message to one user neither polls nor  *)
(* returns: its attempts fail, and so no job thread reaches the write that *)
(* would complete its job.                                                 *)

\* What any step may make of a status: it never removes a row, and completes
\* a job only by the last write of a job thread.
LEMMA RowMoves ==
  ASSUME RedisTypes, RedisMove, NEW k \in Jobs
  PROVE  \/ row'[k].st = row[k].st
         \/ row'[k].st \in LiveStatuses \cup {"failed", "stopped", "gone"}
         \/ /\ row'[k].st = "completed"
            /\ \E p \in Procs : runner[p][k].pc = "finalw"
<1> DEFINE P == \/ row'[k].st = row[k].st
                \/ row'[k].st \in LiveStatuses \cup {"failed", "stopped", "gone"}
                \/ /\ row'[k].st = "completed"
                   /\ \E p \in Procs : runner[p][k].pc = "finalw"
<1>0. SharedTypes
  BY DEF RedisTypes
<1>1. CASE UNCHANGED row
  BY <1>1
<1>2. ASSUME NEW p \in Procs, LoopStep(p) \/ LoopFails(p) \/ CrashWorker(p)
                               \/ RestartWorker(p)
      PROVE  P
  <2>1. UNCHANGED row \/ \E j \in Jobs : MarkWrite(p, j)
    BY <1>2
    DEF LoopStep, LoopFails, LoopStart, TickStart, Pop, PopNothing, MarkRead,
        ClaimRead, MarkRefused, MarkCount, SpawnPopped, PutBack, CrashWorker,
        Crash, RestartWorker, Restart
  <2> QED
    BY <2>1, MarkStatus DEF LiveStatuses
<1>3. ASSUME NEW a \in Admins, AdminStep(a)
      PROVE  P
  <2>1. \/ UNCHANGED row
        \/ \E js : Delete(js)
        \/ \E j \in Jobs : ControlWrite(a, j)
    BY <1>3 DEF AdminStep, JobControl, ControlRead, Cleanup, CleanupAll,
                CleanupRead, CleanupWrite, Reread, PauseQueue, QueuePause,
                FlushNamespace, vars
  <2> QED
    BY <1>0, <2>1, DeleteStatus, ControlStatus
<1>4. CASE ThreadStep
  <2>1. ASSUME NEW p \in Procs, NEW j \in Jobs, RunnerStep(p, j)
        PROVE  P
    BY <1>0, <2>1, RunnerStatus DEF LiveStatuses
  <2>2. ASSUME NEW j \in Jobs, NEW n \in Starts, HandlerStep(j, n)
        PROVE  P
    BY <1>0, <2>2, HandlerStatus
  <2> QED
    BY <1>4, <2>1, <2>2 DEF ThreadStep
<1>5. ASSUME NEW j \in Jobs, EnqueueJob(j)
      PROVE  P
  <2>1. [row[j] EXCEPT !.st = "queued"].st = "queued"
    BY <1>0 DEF SharedTypes, Row
  <2> QED
    BY <1>0, <1>5, <2>1, SetRowStatus DEF EnqueueJob, Enqueue, LiveStatuses
<1> QED
  BY <1>1, <1>2, <1>3, <1>4, <1>5
  DEF RedisMove, RedisNext, RedisStep, FaultElsewhere, Push, PushFails, vars,
      allVars

Direct == {j \in scene.mail : Kind[j] = "user"}

HandlersFail(j) == \A n \in Starts : handler[j][n].pc \in {"none", "work", "err"}

ThreadsFail(j) ==
  \A p \in Procs :
    /\ runner[p][j].pc \notin {"final", "finalw"}
    /\ runner[p][j].pc = "join" => runner[p][j].n \in Starts

Unsent(j) == row[j].st # "completed" /\ HandlersFail(j) /\ ThreadsFail(j)

DirectInv == \A j \in Direct : Unsent(j)

\* Mail is not polled for.
LEMMA DirectJobs ==
  ASSUME scene \in Scenes, NEW j \in Direct
  PROVE  j \in Jobs /\ j \notin Pollers /\ j \in scene.mail /\ Kind[j] = "user"
BY MailAssumption, ScenesAssumption DEF Direct

LEMMA ThreadSet ==
  ASSUME SharedTypes, NEW k \in Jobs, ThreadsFail(k),
         NEW p \in Procs, NEW j \in Jobs, NEW r, SetRunner(p, j, r),
         j = k => /\ r.pc \notin {"final", "finalw"}
                  /\ r.pc = "join" => r.n \in Starts
  PROVE  ThreadsFail(k)'
<1> SUFFICES ASSUME NEW x \in Procs
             PROVE  /\ runner'[x][k].pc \notin {"final", "finalw"}
                    /\ runner'[x][k].pc = "join" => runner'[x][k].n \in Starts
  BY DEF ThreadsFail
<1>1. CASE x = p /\ j = k
  BY <1>1 DEF SetRunner, SharedTypes
<1>2. CASE ~(x = p /\ j = k)
  <2>1. runner'[x][k] = runner[x][k]
    BY <1>2 DEF SetRunner, SharedTypes
  <2> QED
    BY <2>1 DEF ThreadsFail
<1> QED
  BY <1>1, <1>2

LEMMA HandlerSet ==
  ASSUME SharedTypes, NEW k \in Jobs, HandlersFail(k),
         NEW j \in Jobs, NEW n, NEW h, SetHandler(j, n, h),
         j = k /\ n \in Starts => h.pc \in {"none", "work", "err"}
  PROVE  HandlersFail(k)'
BY DEF SetHandler, SharedTypes, HandlersFail

\* The step of a job thread.
LEMMA DirectRunner ==
  ASSUME SharedTypes, NEW k \in Jobs, k \notin Pollers, HandlersFail(k),
         ThreadsFail(k), NEW p \in Procs, NEW j \in Jobs, RunnerStep(p, j)
  PROVE  HandlersFail(k)' /\ ThreadsFail(k)'
<1>0. runner[p][j] \in Runner
  BY DEF SharedTypes
<1>h. UNCHANGED handler => HandlersFail(k)'
  BY DEF HandlersFail
<1>a. ASSUME NEW pc \in {"exit", "fail"}, RunnerAt(p, j, pc)
      PROVE  ThreadsFail(k)'
  <2> DEFINE r == [runner[p][j] EXCEPT !.pc = pc]
  <2>1. r.pc = pc
    BY <1>0 DEF Runner
  <2>2. SetRunner(p, j, r)
    BY <1>a DEF RunnerAt
  <2> HIDE DEF r
  <2> QED
    BY <2>1, <2>2, ThreadSet
<1>1. CASE RunUnknown(p, j) \/ RunFinalWrite(p, j) \/ RunFailWrite(p, j)
  BY <1>1, <1>h, <1>a DEF RunUnknown, RunFinalWrite, RunFailWrite
<1>o. CASE RunGone(p, j) \/ RunOpen(p, j)
  <2>1. PICK pc \in {"exit", "number"}, v \in {NoRow, row[j]} :
          SetRunner(p, j, [runner[p][j] EXCEPT !.pc = pc, !.seen = v])
    BY <1>o DEF RunGone, RunOpen
  <2> DEFINE r == [runner[p][j] EXCEPT !.pc = pc, !.seen = v]
  <2>2. r.pc = pc
    BY <1>0 DEF Runner
  <2>3. SetRunner(p, j, r)
    BY <2>1
  <2> HIDE DEF r
  <2>4. ThreadsFail(k)'
    BY <2>2, <2>3, ThreadSet
  <2> QED
    BY <1>h, <1>o, <2>4 DEF RunGone, RunOpen
<1>2. CASE RunStart(p, j)
  <2> DEFINE n == starts[j] + 1
             h == [pc |-> IF j \in Pollers THEN "poll" ELSE "work",
                   proc |-> p, late |-> FALSE]
             r == [pc |-> "join", n |-> n, att |-> runner[p][j].seen.att + 1,
                   seen |-> NoRow]
  <2>1. SetHandler(j, n, h) /\ SetRunner(p, j, r) /\ starts[j] < MaxStarts
    BY <1>2 DEF RunStart
  <2>2. n \in Starts
    BY <2>1, BoundsAssumption DEF SharedTypes, Starts
  <2> HIDE DEF n
  <2>3. HandlersFail(k)'
    <3>1. j = k => h.pc = "work"
      OBVIOUS
    <3> HIDE DEF h
    <3> QED
      BY <2>1, <3>1, HandlerSet
  <2>4. ThreadsFail(k)'
    <3>1. r.pc = "join" /\ r.n = n
      OBVIOUS
    <3> HIDE DEF r
    <3> QED
      BY <2>1, <2>2, <3>1, ThreadSet
  <2> QED
    BY <2>3, <2>4
<1>3. CASE RunJoin(p, j)
  <2> DEFINE n == runner[p][j].n
  <2>1. /\ SetHandler(j, n, NoHandler)
        /\ \/ handler[j][n].pc = "done" /\ RunnerAt(p, j, "final")
           \/ handler[j][n].pc = "err" /\ RunnerAt(p, j, "fail")
        /\ runner[p][j].pc = "join"
    BY <1>3 DEF RunJoin
  <2>2. j = k => handler[j][n].pc # "done"
    BY <2>1 DEF ThreadsFail, HandlersFail
  <2>3. HandlersFail(k)'
    <3>1. NoHandler.pc = "none"
      BY DEF NoHandler
    <3> QED
      BY <2>1, <3>1, HandlerSet
  <2>4. ThreadsFail(k)'
    <3>1. CASE RunnerAt(p, j, "fail")
      BY <1>a, <3>1
    <3>2. CASE RunnerAt(p, j, "final") /\ j # k
      BY <3>2, ThreadSet DEF RunnerAt
    <3> QED
      BY <2>1, <2>2, <3>1, <3>2
  <2> QED
    BY <2>3, <2>4
<1>4. CASE RunTimeout(p, j)
  <2> DEFINE n == runner[p][j].n
             h == [handler[j][n] EXCEPT !.late = TRUE]
  <2>1. SetHandler(j, n, h) /\ RunnerAt(p, j, "fail")
    BY <1>4 DEF RunTimeout
  <2>2. n \in Starts => h.pc = handler[j][n].pc
    <3>1. n \in Starts => handler[j][n] \in Handler
      BY DEF SharedTypes
    <3> QED
      BY <3>1 DEF Handler
  <2>3. j = k /\ n \in Starts => h.pc \in {"none", "work", "err"}
    BY <2>2 DEF HandlersFail
  <2> HIDE DEF h, n
  <2>4. HandlersFail(k)'
    BY <2>1, <2>3, HandlerSet
  <2> QED
    BY <1>a, <2>1, <2>4
<1>5. CASE RunReread(p, j)
  <2>1. CASE RunnerAt(p, j, "exit")
    BY <1>5, <1>h, <1>a, <2>1 DEF RunReread
  <2>2. CASE SetRunner(p, j, [runner[p][j] EXCEPT
                                !.pc = IF @ = "final" THEN "finalw" ELSE "failw",
                                !.seen = row[j]])
    <3> DEFINE r == [runner[p][j] EXCEPT
                       !.pc = IF @ = "final" THEN "finalw" ELSE "failw",
                       !.seen = row[j]]
    <3>1. j = k => runner[p][j].pc # "final"
      BY DEF ThreadsFail
    <3>2. j = k => r.pc = "failw"
      BY <1>0, <3>1 DEF Runner
    <3>3. SetRunner(p, j, r)
      BY <2>2
    <3> HIDE DEF r
    <3>4. ThreadsFail(k)'
      BY <3>2, <3>3, ThreadSet
    <3> QED
      BY <1>5, <1>h, <3>4 DEF RunReread
  <2> QED
    BY <1>5, <2>1, <2>2 DEF RunReread
<1>6. CASE RunExit(p, j)
  <2>1. NoRunner.pc = "none"
    BY DEF NoRunner
  <2> QED
    BY <1>6, <1>h, <2>1, ThreadSet DEF RunExit
<1> QED
  BY <1>1, <1>o, <1>2, <1>3, <1>4, <1>5, <1>6 DEF RunnerStep

\* A handler's step.
LEMMA DirectHandler ==
  ASSUME SharedTypes, scene \in Scenes, NEW k \in Direct, HandlersFail(k),
         NEW j \in Jobs, NEW n \in Starts,
         \/ HandlerPoll(j, n) \/ HandlerWait(j, n)
         \/ HandlerHalt(j, n) \/ HandlerWork(j, n)
         \/ UserMail(j, n) \/ BroadcastMail(j, n) \/ OtherWork(j, n)
  PROVE  HandlersFail(k)'
<1>0. k \in Jobs /\ k \notin Pollers /\ k \in scene.mail /\ Kind[k] = "user"
  BY DirectJobs
<1>1. CASE j # k
  <2>1. \E h : SetHandler(j, n, h)
    BY DEF HandlerPoll, HandlerWait, HandlerHalt, HandlerWork, HandlerAt,
           UserMail, DeliverUser, HandlerRaise, BroadcastMail, OtherWork,
           HandlerReturn
  <2> QED
    BY <1>0, <1>1, <2>1, HandlerSet
<1>2. CASE j = k
  <2>1. handler[k][n].pc \in {"none", "work", "err"} /\ handler[k][n] \in Handler
    BY <1>0 DEF HandlersFail, SharedTypes
  <2>2. UserMail(k, n)
    BY <1>0, <1>2, <2>1 DEF HandlerPoll, HandlerWait, HandlerHalt, HandlerWork,
                            BroadcastMail, OtherWork
  <2>3. SetHandler(k, n, Ended(handler[k][n], "err"))
    BY <2>2 DEF UserMail, DeliverUser, HandlerRaise
  <2>4. Ended(handler[k][n], "err").pc \in {"none", "err"}
    BY <2>1 DEF Ended, NoHandler, Handler
  <2> QED
    BY <1>0, <2>3, <2>4, HandlerSet
<1> QED
  BY <1>1, <1>2

LEMMA DirectStep ==
  ASSUME RedisTypes, DirectInv, [DeliveryNext]_deliveryVars
  PROVE  DirectInv'
<1>0. /\ RedisMove /\ SharedTypes /\ scene \in Scenes /\ UNCHANGED scene
  BY DeliveryMoves, Accounts DEF RedisTypes, AccountOK
<1>1. Direct' = Direct
  BY <1>0 DEF Direct
<1> SUFFICES ASSUME NEW k \in Direct
             PROVE  Unsent(k)'
  BY <1>1 DEF DirectInv
<1>2. k \in Jobs /\ k \notin Pollers /\ Unsent(k)
  BY <1>0, DirectJobs DEF DirectInv
<1>3. row'[k].st # "completed"
  BY <1>0, <1>2, RowMoves DEF Unsent, ThreadsFail, LiveStatuses
<1> SUFFICES HandlersFail(k)' /\ ThreadsFail(k)'
  BY <1>3 DEF Unsent
<1>4. CASE UNCHANGED <<handler, runner>>
  BY <1>2, <1>4 DEF Unsent, HandlersFail, ThreadsFail
<1>5. CASE MailThreadStep
  <2>1. ASSUME NEW p \in Procs, NEW j \in Jobs, RunnerStep(p, j)
        PROVE  HandlersFail(k)' /\ ThreadsFail(k)'
    BY <1>0, <1>2, <2>1, DirectRunner DEF Unsent
  <2>2. ASSUME NEW j \in Jobs, NEW n \in Starts,
               \/ HandlerPoll(j, n) \/ HandlerWait(j, n)
               \/ HandlerHalt(j, n) \/ HandlerWork(j, n)
               \/ UserMail(j, n) \/ BroadcastMail(j, n) \/ OtherWork(j, n)
        PROVE  HandlersFail(k)' /\ ThreadsFail(k)'
    <3>1. HandlersFail(k)'
      BY <1>0, <1>2, <2>2, DirectHandler DEF Unsent
    <3>2. UNCHANGED runner
      BY <2>2 DEF HandlerPoll, HandlerWait, HandlerHalt, HandlerWork, UserMail,
                  DeliverUser, HandlerRaise, BroadcastMail, OtherWork,
                  HandlerReturn, HandlerUnchanged
    <3> QED
      BY <1>2, <3>1, <3>2 DEF Unsent, ThreadsFail
  <2> QED
    BY <1>5, <2>1, <2>2 DEF MailThreadStep
<1>6. ASSUME NEW p \in Procs, LoopStep(p)
      PROVE  HandlersFail(k)' /\ ThreadsFail(k)'
  <2>1. ASSUME NEW j \in Jobs, SpawnPopped(p, j), ~InFlight(p, j)
        PROVE  HandlersFail(k)' /\ ThreadsFail(k)'
    <3> DEFINE r == [runner[p][j] EXCEPT !.pc = "start"]
    <3>1. SetRunner(p, j, r) /\ UNCHANGED handler
      BY <2>1 DEF SpawnPopped, RunnerAt, SchedUnchanged
    <3>2. r.pc = "start"
      <4>1. runner[p][j] \in Runner
        BY <1>0 DEF SharedTypes
      <4> QED
        BY <4>1 DEF Runner
    <3> HIDE DEF r
    <3>3. ThreadsFail(k)'
      BY <1>0, <1>2, <3>1, <3>2, ThreadSet DEF Unsent
    <3> QED
      BY <1>2, <3>1, <3>3 DEF Unsent, HandlersFail
  <2> QED
    BY <1>4, <1>6, <2>1
    DEF LoopStep, LoopStart, TickStart, Pop, PopNothing, MarkRead, ClaimRead,
        MarkRefused, MarkCount, MarkWrite, ClaimWrite, SpawnPopped, PutBack,
        SchedUnchanged
<1>7. ASSUME NEW p \in Procs, CrashWorker(p)
      PROVE  HandlersFail(k)' /\ ThreadsFail(k)'
  <2>1. HandlersFail(k)'
    BY <1>2, <1>7 DEF CrashWorker, Crash, Unsent, HandlersFail, NoHandler
  <2>2. ThreadsFail(k)'
    BY <1>0, <1>2, <1>7 DEF CrashWorker, Crash, Unsent, ThreadsFail, NoRunner,
                            SharedTypes
  <2> QED
    BY <2>1, <2>2
<1>8. CASE RedisStep /\ ~ \E p \in Procs : LoopStep(p) \/ CrashWorker(p)
  BY <1>4, <1>8
  DEF RedisStep, Push, PushFails, LoopFails, SchedUnchanged, RestartWorker,
      Restart, AdminStep, JobControl, ControlRead, ControlWrite, Cleanup,
      CleanupAll, CleanupRead, CleanupWrite, Reread, PauseQueue, QueuePause,
      FlushNamespace, CtlUnchanged, vars
<1>9. CASE \/ \E j \in Jobs : EnqueueJob(j) \/ PostStep(j)
           \/ \E t \in Tabs : TabStep(t)
  BY <1>4, <1>9
  DEF EnqueueJob, Enqueue, PostStep, Post, QueueMail, QueueFails, PostEnds,
      PostDies, TabStep, OpenInbox, MarkBegin, MarkTaken, MarkWritten, MarkEnds,
      MarkFails, vars, allVars
<1> QED
  BY <1>4, <1>5, <1>6, <1>7, <1>8, <1>9
  DEF DeliveryNext, deliveryVars, allVars, vars

-----------------------------------------------------------------------------
(* The theorems.                                                           *)

DeliveryInv == RedisInv /\ MailTypes /\ TabsInv /\ DirectInv

LEMMA DeliveryInvInit == DeliveryInit => DeliveryInv
<1> SUFFICES ASSUME DeliveryInit
             PROVE  DeliveryInv
  OBVIOUS
<1>1. RedisInv
  BY RedisInvInit DEF DeliveryInit
<1>2. MailTypes
  BY DEF DeliveryInit, MailTypes, PostStates, TabState, NoTab
<1>3. TabsInv
  BY DEF DeliveryInit, TabsInv, PendingOK, NoTab
<1>4. DirectInv
  <2> SUFFICES ASSUME NEW j \in Direct
               PROVE  Unsent(j)
    BY DEF DirectInv
  <2>1. j \in Jobs
    BY DirectJobs DEF DeliveryInit, RedisInit
  <2> QED
    BY <2>1 DEF DeliveryInit, RedisInit, Init, Unsent, HandlersFail, ThreadsFail,
                NoRow, NoHandler, NoRunner
<1> QED
  BY <1>1, <1>2, <1>3, <1>4 DEF DeliveryInv

LEMMA DeliveryInvStep ==
  DeliveryInv /\ [DeliveryNext]_deliveryVars => DeliveryInv'
BY DeliveryMoves, RedisInvMove, MailStep, DirectStep
DEF DeliveryInv, RedisInv

LEMMA DeliveryInvariant == DeliverySpec => []DeliveryInv
BY DeliveryInvInit, DeliveryInvStep, PTL DEF DeliverySpec

\* Every reachable state of the workers, lists, requests, messages and inbox
\* pages has the types they are declared with.
THEOREM DeliveryTypeCorrect == DeliverySpec => []DeliveryTypeOK
<1>1. DeliveryInv => DeliveryTypeOK
  BY RedisInvSuffices DEF DeliveryInv, DeliveryTypeOK, MailTypes, TabState
<1> QED
  BY <1>1, DeliveryInvariant, PTL

\* However workers, requests, crashes and faults interleave, a queued job that
\* no fault and no retry took is on a list, in a hand, or about to be pushed
\* (enqueue_job, _worker_loop_redis, _redis_sync_queued_jobs).
THEOREM NoneIsForgotten == DeliverySpec => []NoneForgotten
<1>1. DeliveryInv => NoneForgotten
  BY DEF DeliveryInv, RedisInv
<1> QED
  BY <1>1, DeliveryInvariant, PTL

\* No queue overruns its concurrency by more than the other workers, which may
\* count at the same time, and the job controls answered
\* (_mark_job_running, request_job_pause).
THEOREM CapacityIsBounded == DeliverySpec => []CapacityBounded
<1>1. DeliveryInv => CapacityBounded
  BY RedisInvSuffices DEF DeliveryInv
<1> QED
  BY <1>1, DeliveryInvariant, PTL

\* No job is ever recorded as completed whose message to one user was not sent
\* (_deliver_user_message_email_job, _run_job_thread).
THEOREM SuccessIsTrue == DeliverySpec => []NoFalseSuccess
<1>1. DeliveryInv => NoFalseSuccess
  BY DEF DeliveryInv, DirectInv, Direct, Unsent, NoFalseSuccess
<1> QED
  BY <1>1, DeliveryInvariant, PTL

\* A request to mark a message that met no fault leaves it read and recorded
\* once, for any number of pages and whichever commits fail
\* (mark_broadcast_read, mark_user_message_read).
THEOREM MarksHold == DeliverySpec => []MarkedOnce
<1>1. DeliveryInv => MarkedOnce
  BY DEF DeliveryInv, TabsInv, PendingOK, MarkedOnce
<1> QED
  BY <1>1, DeliveryInvariant, PTL
=============================================================================
