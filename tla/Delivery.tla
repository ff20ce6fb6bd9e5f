------------------------------- MODULE Delivery -------------------------------
(***************************************************************************)
(* Messages to users: the admin page that posts a message to one user or   *)
(* broadcasts it (admin/routes.py), the jobs that deliver it by email      *)
(* (job_service.py, message_delivery_service.py) on the Redis runtime, and *)
(* the inbox that marks it read (main/routes.py).                          *)
(*                                                                         *)
(* Message j is delivered by job j.  The message row and its job are two   *)
(* commits of the request that posts it, and a third follows while a       *)
(* worker may already run the job.  What the request and the job write to  *)
(* email_error of the message, over each other, decides nothing and is     *)
(* left out.                                                               *)
(***************************************************************************)
EXTENDS RedisRuntime

CONSTANTS
  Kind,  \* whether message j goes to one user or to all
  Tabs   \* inbox pages of one user, each to mark one message read

ASSUME KindAssumption ==
  /\ Kind \in [Jobs -> {"user", "broadcast"}]
  /\ \A j \in Jobs : Kind[j] = "broadcast" => j \in Pollers
ASSUME MailAssumption ==
  \A s \in Scenes :
    /\ s.mail \subseteq s.jobs /\ s.tabs \subseteq Tabs
    /\ \A j \in s.mail : Kind[j] = "user" => j \notin Pollers

VARIABLES
  post,   \* post[j]: the request that posts message j
  marks,  \* marks[j]: how often the user is recorded as having read j
  tab     \* tab[t]: an inbox page, and the request it sends

mailVars     == <<post, marks, tab>>
deliveryVars == <<allVars, mailVars>>

\* "silent" asked for no email, "cut" died before its answer.
PostStates == {"none", "stored", "queued", "answered", "silent", "cut"}

\* A page whose request is in "write" has found its message unread; in
\* "pending" it has written the mark and not committed it.
NoTab == [pc |-> "closed", shown |-> {}, msg |-> 0]

DeliveryTypeOK ==
  /\ RedisTypeOK
  /\ post \in [Jobs -> PostStates]
  /\ marks \in [Jobs -> {0, 1}]
  /\ tab \in [Tabs -> [pc    : {"closed", "open", "write", "pending", "failed",
                                  "done"},
                       shown : SUBSET Jobs, msg : Jobs \cup {0}]]

DeliveryInit ==
  /\ RedisInit
  /\ post = [j \in Jobs |-> "none"]
  /\ marks = [j \in Jobs |-> 0]
  /\ tab = [t \in Tabs |-> NoTab]

SetPost(j, s) == post' = [post EXCEPT ![j] = s]

-----------------------------------------------------------------------------
(* Posting, broadcasts().                                                  *)

\* The message is committed, with or without a request for email.
Post(j) ==
  /\ j \in scene.mail
  /\ post[j] = "none"
  /\ \E s \in {"stored", "silent"} : SetPost(j, s)
  /\ UNCHANGED <<allVars, marks, tab>>

\* Its job is enqueued ...
QueueMail(j) ==
  /\ post[j] = "stored"
  /\ EnqueueJob(j)
  /\ SetPost(j, "queued")
  /\ UNCHANGED <<marks, tab>>

\* ... or cannot be, and the answer says so.  When it was a statement that
\* failed, as in enqueue_job's flush, the session has to be rolled back first:
\* the commit that is to store the error fails too and the request dies.
QueueFails(j) ==
  /\ post[j] = "stored"
  /\ Fault
  /\ \E s \in {"answered", "cut"} : SetPost(j, s)
  /\ UNCHANGED <<vars, scene, list, push, reread, lost, marks, tab>>

\* After the enqueueing the request commits once more and answers.  (Of a
\* message to one user the answer is an error page: success_message is
\* unbound.)
PostEnds(j) ==
  /\ post[j] = "queued"
  /\ j \notin push[Web]
  /\ SetPost(j, "answered")
  /\ UNCHANGED <<allVars, marks, tab>>

PostDies(j) ==
  /\ \/ post[j] = "stored"
     \/ post[j] = "queued" /\ j \notin push[Web]
  /\ Fault
  /\ SetPost(j, "cut")
  /\ UNCHANGED <<vars, scene, list, push, reread, lost, marks, tab>>

PostStep(j) ==
  Post(j) \/ QueueMail(j) \/ QueueFails(j) \/ PostEnds(j) \/ PostDies(j)

-----------------------------------------------------------------------------
(* The delivery handlers.  render_message_email asks url_for for an        *)
(* external link; a handler's thread has an application context and no     *)
(* request, and no SERVER_NAME is configured, so every send_message_email  *)
(* raises before it sends anything.                                        *)

\* Mutant: failures are counted, as for a broadcast, and not raised.
DeliverCounting(j, n) == HandlerReturn(j, n)

\* _deliver_user_message_email_job lets the exception through: the job fails
\* or is retried, and nothing is written to the message.
DeliverUser(j, n) == HandlerRaise(j, n)

UserMail(j, n) ==
  /\ j \in scene.mail
  /\ Kind[j] = "user"
  /\ DeliverUser(j, n)

\* _deliver_broadcast_email_batch_job counts the failures and returns.
BroadcastMail(j, n) ==
  /\ j \in scene.mail
  /\ Kind[j] = "broadcast"
  /\ HandlerReturn(j, n)

OtherWork(j, n) ==
  /\ j \notin scene.mail
  /\ HandlerReturn(j, n) \/ HandlerRaise(j, n)

MailThreadStep ==
  /\ \/ \E p \in Procs, j \in Jobs : RunnerStep(p, j)
     \/ \E j \in Jobs, n \in Starts :
          \/ HandlerPoll(j, n) \/ HandlerWait(j, n)
          \/ HandlerHalt(j, n) \/ HandlerWork(j, n)
          \/ UserMail(j, n) \/ BroadcastMail(j, n) \/ OtherWork(j, n)
  /\ BesideThreads
  /\ UNCHANGED mailVars

-----------------------------------------------------------------------------
(* Reading, main/routes.py.                                                *)

\* The messages the user has not read.
Unread == {j \in Jobs : post[j] # "none" /\ marks[j] = 0}

\* The page shows them, until it is closed and however many are read elsewhere.
OpenInbox(t) ==
  /\ t \in scene.tabs
  /\ tab[t].pc = "closed"
  /\ Unread # {}
  /\ tab' = [tab EXCEPT ![t] = [@ EXCEPT !.pc = "open", !.shown = Unread]]
  /\ UNCHANGED <<allVars, post, marks>>

\* A click: the marker of the broadcast is looked for, or the flag of the
\* message.
MarkBegin(t, j) ==
  /\ tab[t].pc = "open"
  /\ j \in tab[t].shown
  /\ tab' = [tab EXCEPT ![t] = [pc |-> IF j \in Unread THEN "write" ELSE "done",
                                shown |-> {}, msg |-> j]]
  /\ UNCHANGED <<allVars, post, marks>>

\* Another request has written this mark and not committed it.
Pending(t) == \E u \in Tabs \ {t} : tab[u].pc = "pending" /\ tab[u].msg = tab[t].msg

\* Mutant: no unique constraint over message and user.
NeverTaken(t) == FALSE

\* Mutant: a mark another request is writing counts as made.
TakenSoon(t) == marks[tab[t].msg] > 0 \/ Pending(t)

\* uq_broadcast_read_user_message has the marker of another request.
Taken(t) == Kind[tab[t].msg] = "broadcast" /\ marks[tab[t].msg] > 0

\* The INSERT of a taken marker fails and is rolled back, with the same answer.
MarkTaken(t) ==
  /\ tab[t].pc = "write"
  /\ Taken(t)
  /\ tab' = [tab EXCEPT ![t].pc = "done"]
  /\ UNCHANGED <<allVars, post, marks>>

\* Otherwise the INSERT, or the UPDATE of the flag, waits for the transaction
\* of another request with the same mark, and is made.
MarkWritten(t) ==
  /\ tab[t].pc = "write"
  /\ ~Pending(t)
  /\ ~Taken(t)
  /\ tab' = [tab EXCEPT ![t].pc = "pending"]
  /\ UNCHANGED <<allVars, post, marks>>

\* The commit: a marker is a row more, the flag is set again.
MarkEnds(t) ==
  /\ tab[t].pc = "pending"
  /\ LET j == tab[t].msg
     IN  marks' = [marks EXCEPT ![j] = IF Kind[j] = "broadcast" THEN @ + 1 ELSE 1]
  /\ tab' = [tab EXCEPT ![t].pc = "done"]
  /\ UNCHANGED <<allVars, post>>

\* The connection fails: nothing is marked, and the answer is the same.
MarkFails(t) ==
  /\ tab[t].pc \in {"write", "pending"}
  /\ Fault
  /\ tab' = [tab EXCEPT ![t].pc = "failed"]
  /\ UNCHANGED <<vars, scene, list, push, reread, lost, post, marks>>

TabStep(t) ==
  \/ OpenInbox(t) \/ MarkTaken(t) \/ MarkWritten(t) \/ MarkEnds(t) \/ MarkFails(t)
  \/ \E j \in Jobs : MarkBegin(t, j)

-----------------------------------------------------------------------------

DeliveryNext ==
  \/ RedisStep /\ UNCHANGED mailVars
  \/ \E j \in Jobs \ scene.mail : EnqueueJob(j) /\ UNCHANGED mailVars
  \/ MailThreadStep
  \/ \E j \in Jobs : PostStep(j)
  \/ \E t \in Tabs : TabStep(t)

DeliverySpec == DeliveryInit /\ [][DeliveryNext]_deliveryVars

-----------------------------------------------------------------------------
(* Properties.                                                             *)

\* A job never ends as completed when the email of its message was not sent,
\* through timeouts, retries, pauses and stops
\* (_deliver_user_message_email_job, _run_job_thread).
NoFalseSuccess ==
  \A j \in scene.mail : Kind[j] = "user" => row[j].st # "completed"

\* A request to mark a message that met no fault leaves it read, and recorded
\* once: also one from a stale page, or one whose own marker was refused
\* because of another, though the other's commit might have failed
\* (mark_broadcast_read, mark_user_message_read).
MarkedOnce ==
  \A t \in Tabs : tab[t].pc = "done" => marks[tab[t].msg] = 1
=============================================================================
