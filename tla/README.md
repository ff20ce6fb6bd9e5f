# A TLA+ verification of FlaskBase

FlaskBase is a Flask application base: accounts with MFA and API keys, an
administration area, installable add-ons, messages and broadcasts, and a
background job runtime. It runs as several operating-system processes (gunicorn
workers, a job worker process) of several threads each, over one PostgreSQL
database and, optionally, Redis. Only a repeated registration locks a row before
it changes one, and nothing keeps a version column: whatever goes wrong between
two threads goes wrong between a `SELECT` and a later `UPDATE`.

This directory holds the TLA+ modules that model the program, the TLC
configurations that check them on small instances, and the proofs that TLAPS
checks. `PROJECT.json` lists the runs, the source lines each definition
translates, the hazards and the theorems.

    tlc -workers 2 -config JobsWorker.cfg MCJobRuntime     # check a run
    tlapm JobRuntimeProofs.tla                             # check the proofs

The modules, and which extends which:

    JobRuntime --- JobRefinement (JobLedger) --- MCJobRuntime
       |  |  |           `----------- LedgerProofs
       |  |  `---- MCQueuePause --- QueuePauseProofs
       |  `------- JobRuntimeProofs --- RedisProofs --- DeliveryProofs
       `- RedisRuntime ---------------------'           |
              `-------- Delivery ----------------------'
                           `---- MCDelivery
    SignIn --- MCSignIn          ApiKeys --- MCApiKeys
       `------ SignInProofs         `------- ApiKeysProofs
    Settings --- Addons --- MCAddons
                   `------- AddonsProofs

`LedgerProofs` and `QueuePauseProofs` extend `JobRuntimeProofs` too.

## 1. Inventory

Paths are relative to the repository. "Shared" state lives in the database
unless said otherwise; every process reads and writes it concurrently.

| Component | Code | State | Operations |
|---|---|---|---|
| Job runtime, database backend | `app/services/job_service.py` | `job_runs`, `job_queues`; per process `_Runtime.inflight_job_ids`, a scheduler thread, one thread per job, one per handler call | enqueue, tick (count, query, claim, spawn), run, time out, requeue, pause, resume, stop, pause a queue, clean up |
| Job runtime, Redis backend | same file, `_worker_loop_redis` | the above and one Redis list per queue | push, BLPOP, put back, sync at start |
| Messages and broadcasts | handlers in `job_service.py`, `message_delivery_service.py`, `blueprints/admin/routes.py`, `blueprints/main/routes.py` | `user_messages`, `broadcast_messages`, read markers, the delivery job's row | post, queue, deliver a batch, poll, mark as read |
| Sign-in, MFA, registration, sessions | `blueprints/auth/routes.py`, `models.py`, hooks in `app/__init__.py` | `users` (failure counter, lock, MFA secret, recovery codes), `user_sessions`, `account_tokens`; the browser's signed cookie | sign in, challenge, register, confirm, resend, change password, revoke, sign out |
| API keys and token checks | `auth/routes.py`, `services/api_auth.py`, `services/api_runtime.py`, `services/api_access.py` | `api_tokens` | create, reveal once, revoke, validate, match scopes |
| User administration | `blueprints/admin/routes.py` | `users` and everything revoked with them | enable or disable, delete, bulk revocation |
| Settings and page flags | `services/app_settings_service.py`, `pages_service.py`, `config_service.py` | one settings row; a copy cached in every process | read the effective settings, update, write pages, read pages |
| Add-ons | `services/addon_installer.py`, `addon_loader.py`, `addon_config_service.py`, `addon_contract.py` | a folder, a registry row, settings, the blueprints loaded in each process | validate, install, enable, uninstall |
| Add-on stores | `services/addon_data_service.py` | rows under unique keys | upsert, read, delete |
| API bridge | `fastapi_app.py`, `services/fastapi_bridge.py`, `services/access_control.py` | none | route a request, check a token or a session |
| Application shell | `app/__init__.py`, `security.py`, `utils.py` | none of its own | host check, idle timeout, headers, rate limits |
| Process supervision | `cli.py`, `wsgi.py` | the processes | start, stop, restart |
| Logging and audit | `logging_setup.py`, `services/app_logger.py`, `log_policy.py`, `audit.py` | log and audit rows nobody decides on | write |
| Text services | `services/i18n.py`, `html_sanitize.py` | none | translate, sanitise |
| Seeding and administration commands | `services/seed_service.py`, `database_admin_service.py`, `redis_service.py`, `runtime_control.py` | the tables | one-shot commands |
| Main blueprint, bundled add-ons | `blueprints/main`, `addons/` | read-only views but for read markers | show |

How they interact: a web request writes a `job_runs` row (`enqueue_job`); a
scheduler thread in some process finds it by polling, claims it and starts a
job thread, which calls the handler in a third thread. The handlers write
messages and broadcasts. Administrative requests write the same rows. Sign-in,
keys and user administration meet in `users`, `user_sessions` and `api_tokens`;
settings and add-ons meet in the settings row and in each process's cached
copy.

What is hard, and what makes each part correct:

- **Job runtime.** Read-decide-write on rows that the scheduler, the job
  threads, the handlers and administrators of several processes write;
  handlers that outlive their timeout; retries that overlap the thread that
  asked for them; crashes with daemon threads. Correct when: no process runs
  two attempts of a job at once; attempts keep to their budget; a running row
  has a thread; a stop is not lost; a paused queue drains; every job ends.
- **Redis backend.** The list and the table are two stores updated one after
  the other. Correct when no queued row is missing from the list but by a fault
  or a retry, and the ids that are pushed twice do not make jobs pass the slots.
- **Delivery.** The message, its job and its error are written by a request and
  a worker at once. Correct when the job of a message that was not sent is not
  recorded as completed, and a message is recorded as read once. (A broadcast's
  job completes whatever it could send; how much was sent, the code writes to
  the message only.)
- **Sign-in and sessions.** Counters are rewritten from a copy; a request passes
  its checks and finishes after the account was disabled. Correct when a lock is
  reached by the failures that should reach it and is not ended by a stale
  write, a confirmed account stays confirmed, and a disabled one keeps no session.
- **API keys.** A limit checked on a count read earlier, a secret that should be
  shown once, a use of a key that commits after its revocation.
- **Settings.** A row read in one query, loaded again and written in another:
  an update carries along columns that others have written meanwhile.
- **Add-ons.** Four places changed one after another, in several processes, and
  a folder that is copied and removed file by file. Correct when an installed
  add-on is whole and its own until it is uninstalled.

## 2. Plan

Most important first. Every module takes its bounds and data as CONSTANTS with
named assumptions, has one action per operation or transaction, and uses no
RECURSIVE operator, so that theorems can be proved about each of them.

| # | Module | Contents | Composed with | Runs | Theorems |
|---|---|---|---|---|---|
| 1 | `JobRuntime` | threads, requests and crashes over `job_runs` | - | `jobs_worker`, `jobs_fleet`, `jobs_controls` and two violations | type correctness, one attempt per process, stops are kept, late handlers exit, running rows are attended, capacity of several processes, paused queues drain (proved) |
| 2 | `JobLedger` | abstract life of a job | `JobRefinement` maps `JobRuntime` to it | `jobs_ledger` | every step of one process is a step of the ledger (proved) |
| 3 | `RedisRuntime` | Redis lists beside the table, faults | extends `JobRuntime` | `delivery` | types, no queued job is forgotten, capacity (proved) |
| 4 | `Delivery` | posting, the delivery handlers, the inbox | extends `RedisRuntime` | `delivery` | all properties of the run and its types (proved) |
| 5 | `SignIn` | lockout, challenge, registration, sessions, user administration | - | `signin` and one violation | types, locks, confirmed stays confirmed, disabled has no session (proved) |
| 6 | `ApiKeys` | creation, reveal, revocation, calls | - | `keys` and one violation | types and all properties of `keys` (proved) |
| 7 | `Settings`, `Addons` | the settings row and its copies; folders, registry, loaded modules | `Addons` extends `Settings` | `addons` | all five properties of the run (proved) |

All modules of the plan are written, and every property of a run that is not a
liveness property is stated by a theorem. What is left is to look for weaker
hypotheses: the refinement with administrative requests, for which the ledger
would need words for a pause and for a stop that an administrator asks for.

## 3. What the modules model

### JobRuntime

Translated from `app/services/job_service.py`. The correspondence:

| TLA+ | Code |
|---|---|
| `row` | the `job_runs` columns that decide anything: `status`, `stop_requested`, whether `started_at` and `finished_at` are null, and the attempt number kept in `result["_runtime"]` |
| `qpaused` | `job_queues.paused` |
| `sched[p]` | `_worker_loop` and `_tick`: the queues of the tick, the free slots, the candidates, the row the claim was decided on, and what the session holds of a queue: whether it has committed yet (`fresh`), and its copy of the queue being served (`held`) |
| `inflight[p]` | `_Runtime.inflight_job_ids` |
| `runner[p][j]` | `_run_job_thread` with its local `attempt` |
| `handler[j][n]` | the n-th call of the job's handler, in the thread of `_run_handler_with_timeout`; `late` once its job thread has given up on it |
| `ctl[a]` | an administrative request between its read and its write |
| `TickStart` ... `QueueDone` | `_tick`: queues, slot count, query in `created_at` order |
| `ClaimRead`, `ClaimSkip`, `ClaimWrite` | `_mark_job_running` |
| `Spawn` | `_spawn_job` |
| `RunGone` ... `RunExit` | `_run_job_thread`, `_run_handler_with_timeout`, `_try_requeue_failed_job` |
| `HandlerPoll` ... `HandlerRaise` | the loops of the handlers with `_job_control` and `_wait_while_paused` |
| `Crash`, `Restart` | the end and the start of a process; every thread is a daemon |
| `ControlRead`/`ControlWrite`, `Cleanup*`, `QueuePause` | `request_job_pause/resume/stop`, `cleanup_terminal_jobs`, `set_queue_pause` |

A transaction that decides on a row is two actions, because under READ
COMMITTED with no lock any commit may fall between its read and its write. The
write is the operator `Flush`: the unit of work emits the columns whose value
differs from the one loaded, and the columns given a fresh time. So a stale
write overwrites exactly the columns it changed. Two subtleties of SQLAlchemy
decide properties and are kept: a queue looked at twice in a tick is the object
the session holds, as read when the tick began or at the queue's count, until a
commit expires it (`held`, so that of a later queue of a tick one job may still
be claimed after a pause), and a candidate deleted meanwhile either is skipped or
raises and ends the tick (`ClaimSkip`).

Abstractions, all of data or of steps that touch nothing shared:

- ids stand for `created_at`, so that "oldest first" compares numbers. Jobs may be
  committed in another order, as two requests do that enqueue at once; only
  `OrderedSpec`, below, excludes that;
- the writes of the handlers are one step each: their columns are not decided on
  in between. The transaction that records the attempt number is two (`RunOpen`
  reads the row, `RunStart` commits), so two processes may record one number;
- the code clamps the attempt number to 11 in its count; the bound on attempts
  explored is far below;
- `JobQueue.enabled` is omitted (only the seed command writes it), as is the
  creation of a queue row by its first job, whose race is between two inserts;
- progress, messages and the payload are left out; a handler is described by
  three facts: whether it polls, whether it has a timeout, and whether it
  replaces `job.result` at the end;
- `cleanup_terminal_jobs(scope="recent")` may choose any terminal rows up to
  all of them in the code, by a limit; the model takes all it can see.

In the commit modelled, pause, resume, stop, queue pause and cleanup are
service functions without a route that calls them; they are modelled as
operations that any request may perform, which is how they are written.

### JobLedger and JobRefinement

`JobLedger` says what the runtime promises to whoever submits a job when one
worker process serves the queues: a status and a count of handler calls per
job, with eight operations and no threads. It translates no code, and so has no
source lines in the map: it is the promise. `JobRefinement` instantiates it
with `status` as the row's status and `calls` as the number of handler calls;
`ImplementsLedger` then says that every step of the threads is a step of the
ledger or invisible in it. A job completes only after a call, fails only when
its budget is used up, is never called once too often, starts in order and
within its queue's concurrency, and an ended job stays ended, all of that
through crashes.

All eight handlers of the repository have a timeout, and poll the controls or
assign the job's result. So a call may be left behind and act on its job later,
and the ledger says what it can do then, and to which jobs. A call that polls
(`Stopping`) finds the stop that its timeout asked for and marks the job as
stopped, even when the job has ended or is queued for its retry; a job marked so
goes on from the status it had, if its thread was about to move it. A call that
reports a result (`Reporting`, jobs with retries) drops the attempt number kept
inside the result, and the budget of that job starts again. Every other job keeps
its budget and, once ended, its status. The refinement is stated for `OrderedSpec`:
the requests that enqueue commit in the order of `created_at`.

`MCJobRuntime` gives the constants their small values. `MCQueuePause` adds a
history variable that counts the claims of a queue since it was paused, and the
scenes of `jobs_fleet`.

### RedisRuntime

The same `job_service.py` with a Redis URL. It extends `JobRuntime` and reuses
its actions for everything that does not concern the lists: the claim's read and
write, the job threads, the handlers, the controls, crashes.

| TLA+ | Code |
|---|---|
| `list[q]` | the Redis list of queue q, oldest push first |
| `push[x]` | ids whose row x has committed as queued and has still to push: a web request after `enqueue_job`, an administrator after a resume, a process at its start |
| `lost` | history: queued rows whose id a fault, a crash, a flush or a retry left on no list |
| `Push`, `PushFails` | `_redis_enqueue`, which returns False on any exception |
| `LoopStart`, `Pop`, `PopNothing` | the loop of `_worker_loop_redis`, with BLPOP over the keys of the unpaused queues |
| `MarkRead` ... `MarkWrite`, `PutBack` | `_mark_job_running(enforce_capacity=True)` and the push back of a refused id |
| `RestartWorker`, `PauseQueue`, `Reread` | `_redis_sync_queued_jobs`, `set_queue_pause`, the second look of `request_job_pause` |
| `LoopFails`, `FlushNamespace` | a lost connection with an id in hand; the administrator's flush |

What the model makes visible, all of it behaviour of the code: a retry is
committed as queued and pushed by nobody, so it waits for the next start of a
process or resume of its queue; BLPOP takes from the first list that has
something, so the ids of a full queue are popped and put back for as long as it
is full; a start pushes queued rows whether or not they are on a list, so ids
are duplicated and the claim has to refuse the second. A slot is counted and
taken in two steps, so each other worker may exceed a queue's concurrency by one.
Left out: the limits of 2000 and 5000 rows of the two synchronisations, and the
fallback to the database loop, which is `JobRuntime`.

### Delivery

Message j is delivered by job j. `Post`, `QueueMail`, `QueueFails` and
`PostEnds` are the commits of `broadcasts()` in `admin/routes.py`, between
which a worker may run the job and the request may die. When the enqueueing fails
in its own flush, the session has to be rolled back, the commit that is to store
the error fails too and the request dies: `QueueFails` has both ends. `UserMail`
and `BroadcastMail` are the two delivery handlers, in the handler threads of
`JobRuntime`.

`OpenInbox` and `MarkBegin` are a page of the inbox and the click on it, which
looks for the marker. Then the INSERT waits for that of another request
(`Pending`), is refused by the unique constraint and rolled back (`Taken`,
`MarkTaken`), or is made (`MarkWritten`) and committed or lost (`MarkEnds`,
`MarkFails`). The answer is the same in all cases.

Two things a reader of the code may not expect are in the module because the
code does them. `render_message_email` calls `url_for(..., _external=True)` in a
thread with an application context and no request, and no `SERVER_NAME` is
configured, so every delivery raises before it sends: a direct message's job
fails or retries, and a broadcast's job counts the failures and ends as completed.
And for a direct message the request uses, after its last commit, a variable
that was never assigned (`success_message`), so the answer is an error page.
`email_error` of the message is left out: the request and the job write it over
each other, nothing decides on it, and no text promises what it says; nothing
would hold of it but what the assignments say.

### SignIn

`auth/routes.py`, the user pages of `admin/routes.py` and the hook of
`app/__init__.py`.

| TLA+ | Code |
|---|---|
| `acct[u]` | the `users` row: `is_active`, `email_verified`, `account_status`, `signup_source`, `failed_login_count`, `locked_until` (none, in force, over), `mfa_enabled` |
| `links[u]`, `live` | pending confirmation tokens; unrevoked `user_sessions` rows |
| `cookie[b]` | the signed cookie: the user, the pending challenge with its count of codes, the enrolment |
| `req[b]` | the request a browser is served, with the account as its session loaded it |
| `admin` | toggle, edit and their second commit, the revocation |
| `Login*`, `Finalize`, `Reload` | `login_post`, `_finalize_login`, `_issue_browser_session` |
| `Challenge*`, `Mfa*` | the MFA challenge, setup, enable, disable |
| `Register*`, `Resend`, `Void`, `Mint` | `register_post`, `resend_confirmation`, `_create_confirmation_token` |
| `Confirm*` | `confirm_email`, with the rollback of a failing `audit` |
| `Logout`, `ChangePassword`, `RowExpires`, `IdleTimeout` | the ends of a session; a revocation is lost when the `audit` of the browser token fails before the commit (`LeaveRow`) |

As in `JobRuntime`, a request that loads a row and commits later is two
actions, and `Written` keeps the columns the request did not change. An expired
object is loaded again after a commit (`Reload`). What another transaction holds
locked (`with_for_update` in `register_post`, rows updated and not committed) is
`Locked`: a repeated registration locks the latest pending token only, so two
requests may void each other's, and the database ends one (`VoidDeadlocks`).
Passwords and codes are right or wrong; time passes as `LockEnds`,
`LinkExpires`, `RowExpires`. Password reset tokens are left out: no route
issues one.

### ApiKeys

The keys of one user. `CreateRead`/`CreateInsert` are `_create_personal_api_key`
around its limit, `ShowRead`/`ShowMark` the one-time display of pending keys,
`CallRead` ... `CallEnds` a call from `validate_api_token` over the commit of
`last_used_at` to the guard of its route. `HasScopes` translates
`token_has_scopes`; `Denotes` says independently what a scope stands for, and
`ServedIsGranted` compares the two on every served call. Scopes are sequences of
words. `create.json` shows a key and leaves it pending, so it is shown once
more, and page loads that are served together all show what was pending when they
read it: the run `keys_shown_once` has the counterexample. A settings form that is
saved while keys are pending marks them without showing them (`lost`).

### Settings and Addons

`Settings` has the settings row, and each process's cached copy of it;
`Addons` completes its actions and states the specification.

| TLA+ | Code |
|---|---|
| `row` | `app_settings`: the page and feature switches (`pages_json`), the add-ons' ITEMS (`addons_json`) |
| `cache[w]` | `app.config` of process w as the last update it served, or its start, left it |
| `Base` | `get_effective_settings`: plain dictionaries |
| `SaveForm`, `Import`, `Register`, `Unregister` | the handlers, up to `update_settings`, with what they are about to assign (`new`) |
| `LoadRow`, `Commit`, `Refresh`, `Apply`, `Fail` | `update_settings`: `ensure_app_settings_row`, the assignments and the commit, `refresh`, `_apply_runtime_to_app`, the rollback |
| `SavePages`, `ToggleMaintenance`, `CliMaintenance` | `write_pages` and its callers; `EditPages` edits the cached dictionaries in place, as they do |
| `Sync`, `Load`, `ImportModules` | `sync_addon_runtime_state`, `load_addons`: names, checksums, imports, the registry rows they record |
| `folder[x]`, `CopyFirst`, `CopyRest`, `CopyFails` | `copytree` in `install_addon_zip`: the folder appears with some file and is complete later; a file that cannot be copied is left out and the install fails |
| `reg[x]`, `CommitInstall`, `InstallConflict` | the registry row with its checksum, in one commit with the settings; the unique name |
| `UninstallCheck`, `RemovePart`, `RemoveClash`, `RemoveFails` | `uninstall_addon`: `rmtree` removes one file after the other, and ends at an error; the registry row stays |
| `RestartWorker` | a process that ends anywhere, in the middle of a copy or a removal too, and starts again |
| `torn`, `installed`, `rivals`, `undone` | history: add-ons uninstalled during an install; installed and not uninstalled since; requests that had read the settings before the pages were saved, and whether one has written since |

A session does not keep the settings row of its request. `get_effective_settings`
returns dictionaries and drops the row, the session's identity map is weak, and so
`update_settings` loads the row again, assigns every column from the dictionaries
and writes those that differ from what it has just loaded. An update therefore
takes back page switches that were committed since it read the settings, and the
only thing that remains of them is what `PagesKept` says.

The contents of a folder are the ZIP each part is from, so that a checksum is
the pair of its parts. Consequences of the code that the model shows and that
no text of the repository forbids: an update takes effect in the process that
served it, others keep their copy until they restart or serve one; two threads of
a process may apply their rows in the opposite order of their commits; a form
rendered before an install switches the new add-on off; a failed install leaves
a folder that the next install refuses; an uninstall that is cut leaves a part of
the folder under the old checksum, which `load_addons` then refuses; a page switch
whose commit fails stays in the process's copy. Left out: the insertion of the
first row, revisions and export times.

### Scenes

In `SignIn`, `ApiKeys`, `Settings` and `RedisRuntime` the operations are too many
to explore all together. The constant `Scenes` is a set of records, each naming
the operations that may happen in one behaviour and how many requests, failures
or crashes; the variable `scene` is chosen at the start and never changes. A
scene bounds what happens together and takes no interleaving away from it; the
theorems about these modules hold for every set of scenes, the one that allows
every operation included.

## 4. The runs

| Run | Question | Instance | Answer |
|---|---|---|---|
| `jobs_worker` | does every job end, and does each running row have a thread? | one process, one queue of concurrency 1, three jobs without retries, all with timeouts: one polls, one reports a result, one has no handler; one stop request | `NoLostJob`, `LateHandlerExits`, `EveryJobEnds` hold |
| `jobs_fleet` | what do two processes do that count the slots of one queue and claim its rows at once, and how many jobs does a queue still start once it is paused? | two processes, three scenes (`FleetScenes`): one job with a handler and a retry, up to three calls, a crash in place of one of them; the same with two more jobs in its queue of concurrency 1, and one call or crash; two jobs of a type without handler in a queue of concurrency 2, and one pause | each process has at most one attempt of a job under way (`OneAttemptPerProcess`), the queue runs at most one job for each process (`FleetBounded`), and a paused queue starts at most one more in each (`PausedQueueDrains`) |
| `jobs_controls` | what survives administrators in between? | one process, two jobs, one polling, two requests of any kind | `StopKept` and the types that stale writes leave hold |
| `jobs_ledger` | do the threads do what was promised? | one process, three jobs in two queues of concurrency 1: two with a timeout that report a result, of which the first polls and has a retry, and one of an unknown type; one crash; calls left behind go on | `ImplementsLedger` holds |
| `jobs_retry_lost` | is a retry ever lost? | one process, one job, one retry | violation, see below |
| `jobs_late_handler` | does a handler given up on exit when there is a retry? | one process, one polling job with a timeout and a retry | violation, see below |
| `delivery` | is a queued job or a message ever forgotten on the Redis backend? | one queue of concurrency 1; eleven scenes of up to two workers, three jobs, two messages, two inbox pages, two requests, one crash, one fault | `NoneForgotten`, `CapacityBounded`, `NoFalseSuccess`, `MarkedOnce` hold |
| `signin` | do locks, confirmations and revocations survive requests that loaded the account earlier? | two browsers, one contested account and another user; eight scenes | `LockHolds`, `FailuresLock`, `ConfirmedStaysConfirmed`, `DisabledHasNoSession` hold |
| `signin_enrolment` | does a confirmed enrolment turn MFA on? | one user who signs in and enrols | violation, see below |
| `keys` | what does the interleaving of requests do to limits, pending keys, revocations and scopes? | two requests at a time, a limit of 1, up to three keys, nine scopes, four routes; seven scenes | `KeysBounded`, `NoneHidden`, `RevokedStays`, `ServedIsGranted` hold |
| `keys_shown_once` | is a key shown only once? | that of `keys` | violation, see below |
| `addons` | what do stale settings and interrupted installs do? | two processes, two requests at a time of two to four in all, one built-in and one installable add-on, two ZIPs; five scenes | `PagesKept`, `OnUnlessSwitchedOff`, `OneSource`, `InstalledWhole` hold |

**The four disagreements.**

1. `jobs_retry_lost`. The job thread commits the retry as `queued` and only then
   leaves `inflight_job_ids`. A tick in between claims the row, commits
   `running`, finds the id in flight and starts no thread. The row stays
   `running` with nobody attending it, holds a slot of its queue, and the retry
   announced in its message never happens.
2. `jobs_late_handler`. The timeout marks a stop "so that handlers that poll
   control can exit"; the requeue that follows clears it. A handler that polls
   after that continues, beside the retry.
3. `signin_enrolment`. `_recovery_code_hash` uses `hashlib`, which
   `auth/routes.py` never imports. `mfa_enable` sets the flag, hashes the new
   recovery codes and fails before its commit, so an enrolment confirmed with a
   right code is rolled back, although the repository's `README.md` lists the
   enrolment flow. A recovery code at the challenge fails likewise, which is why
   the model's challenge has none; and `signin` starts the scenes about MFA with
   an account that has it on.
4. `keys_shown_once`. The repository's `README.md` says that "raw tokens are
   revealed only once", and the page that it is "shown only once".
   `api_keys_create_json` answers with the raw key and leaves its reveal row
   pending, so the next page load shows it again; page loads served together show
   it each.

**Where the properties stop.** They hold under the constants given. Outside,
some of them fail for reasons that no text of the repository calls a promise;
these are no findings, but a reader should know them:

- Two processes may both claim a queued row and both run the job, and each
  counts slots for itself: with N processes a queue may run N times its
  concurrency. `OneAttemptPerProcess` and `FleetBounded` are what the code does
  keep, and `ImplementsLedger` is stated for one process. A resume puts a job
  back to running without counting slots, so `FleetBounded` does not hold
  through resumes, and `jobs_fleet` has none. `JOB_RUNTIME_MODE` and
  `JOB_PROCESS_ROLE` are set by `cli.py` and never decide whether the scheduler
  starts, so every web worker that calls `init_job_runtime` serves the queues
  too, although the repository's `README.md` speaks of a dedicated worker process.
- A crash leaves its rows `running` on the database backend: nothing looks for
  them at start. So `jobs_ledger` promises no end through crashes, and
  `jobs_worker` has none.
- A job paused while its non-polling handler ends, then resumed, becomes
  `running` again without a thread (`finished_at` is still null), and a stop
  requested while a job fails with retries left is cleared with the requeue.
  So `NoLostJob` is not asked of `jobs_controls`, and `StopKept` speaks of jobs
  without retries.
- A handler left behind by its timeout acts on its job later. One that replaces
  `job.result` drops the attempt number kept inside: the count restarts, and a job
  with a retry may be called more than `max_retries + 1` times. One that polls finds
  the stop its timeout asked for and sets the status: a job that had ended, or
  was requeued, becomes stopped. The ledger allows both, for the jobs that can
  meet them. A handler its thread still waits for does no such harm, as the thread
  writes the number back.
- On the Redis backend `NoneForgotten` exempts what faults and retries have left
  on no list, until a start or a resume finds it; `CapacityBounded` allows one
  more running job for each other worker, and one for each job control answered,
  since a pause decided on an old copy may put a row back to running.
- A request that was let in before an account was disabled issues its session
  after the revocation, and `toggle_user` may die between its two commits;
  `DisabledHasNoSession` names both. `ConfirmedStaysConfirmed` exempts accounts
  whose status an administrator set before they were confirmed.
- `LockHolds` allows the end of a lock by a sign-in that had loaded a lock: a
  challenge passed or a link followed does not look at it.
- `PagesKept` exempts what a form, an install or an uninstall undoes that had
  read the settings before the pages were saved or imported (`undone`, until they
  are saved again).
- `InstalledWhole` and `OneSource` exempt folders that an uninstall tore during
  an install. The former speaks of add-ons whose install has succeeded, until an
  uninstall removes the first file; what an interrupted install or removal leaves
  is in the model and nothing is promised of it.
- `NoFalseSuccess` speaks of messages to one user: a broadcast's job completes
  whatever could be sent. `MarkedOnce` speaks of requests that met no fault.

**Bounds.** `MaxStarts` bounds the handler calls of a job: two or three, one
more than the retries of its instance allow, so that a call too many is
reachable. `MaxCrashes` is one: a second crash finds the process in a state the
first one already produces, as all its threads are reset. `Admins` are one-shot
requests: two are enough for every pair of operations in every order, and for a
read of one around the write of the other. Two jobs compete for a slot and for
the order of the queue; the third brings a second queue, an unknown type or, in
`jobs_fleet`, one job more than the two processes may run. That run follows
repeated calls of a job only while it is the only one: attempts of one job are
told apart per job, and slots are held by rows, not by calls. With the other two
jobs in the queue it stops where one of these ends after the call or the crash:
an ended job holds no slot. In the third scene the jobs have a type without a
handler: what a pause does is decided before any handler is called. Each scene
begins with a pause of the queue it has no jobs in, so that the ticks pass it by.
Deadlock is checked in all passing runs on `MCJobRuntime` and `MCQueuePause`:
the schedulers never stop. It is not in `signin`, `keys`, `addons` and
`delivery`, whose behaviours may end: requests, keys and faults are bounded, and
nobody has to send the next one.

Two of everything is the least at which the hazards of the newer modules happen:
two requests that both read before either writes, one of them in another process
than the change; two links that are valid at once, and a third to mint; three
failures for a lock, the least the code admits (it clamps the setting to 3..25),
so that two counted as one are told apart from a lock. The other limits of the
code (20 keys, 10 codes) are reached at 1 and 2. `addons` has 4 requests where installs meet uninstalls: two installs, an
uninstall and the next install. Symmetry is used over web processes and slots
in `addons` and over slots in `keys`, where they are interchangeable and no
liveness is checked; not in `delivery`, whose instance singles out a worker, nor
in `signin`, which checks liveness.

`jobs_ledger` explores the states of `OrderedSpec`, as `Spec` under the constraint
`InOrder`, which only an `Enqueue` can break. It has two jobs in one queue of
concurrency 1, so that order and capacity bind, and a third in a queue of its own,
served later in the same tick; up to three calls of the first job, one more than
its retry allows, so that a call too many by a late report is reached. It has no
administrative requests, since the ledger has no word for them; `jobs_controls`
has them all.

**Mutants.** Each property is also run against a version of the code with one
plausible mistake (`PROJECT.json` lists them: no in-flight set, one retry too
many, no stop at the timeout, newest first, a queue checked only when the tick
starts, settings edited from the process's copy, an unfinished mark that counts as made, a copy into a folder that exists, a
put-back that forgets paused jobs, ...), and must then fail. The mutated
operators stand in the modules, marked as such, before the definitions they
replace.

**Fairness.** `FairSpec` assumes weak fairness of each process's scheduler
thread and of each job thread: the operating system runs them, their loops have
no exit, and their waits on the database and on `join(timeout)` end. Nothing is
assumed of a handler, which may hang for ever (the timeout is what ends the
job), of a request, which may never come, nor of a crash. `EveryJobEnds` is
stated as "and stays ended", so that a job which keeps coming back would
violate it; it is checked with a timeout on every job, because without one a
hanging handler legitimately holds its job. `SignIn`'s `FairSpec` assumes of a
request whose failed sign-in is being counted that it is served to its end
(after its sleep of 0.35 seconds it only commits); `FailuresLock` then says that
failures which go on with no success lock the account again and again, though
two of them may be counted as one.

## 5. What is proved

`JobRuntimeProofs` proves, for every value of the constants that satisfies the
named assumptions (jobs are a finite set of naturals, queues and processes are
not empty, concurrency is positive, and so on), and for the last three theorems
what they assume besides:

- **TypeCorrect**, `Spec => []TypeOK`. `TypeOK` is inductive by itself. The
  interesting part is a lemma on `Flushed`: the row a stale write leaves is a
  mixture of three rows, and still a row.
- **OneAttempt**, `Spec => []OneAttemptPerProcess`. The property is not
  inductive: it speaks of handlers, but what admits a second one is the set of
  ids in flight. The strengthening `ThreadsInv` says that a job thread exists
  only while its id is in flight in its process, that one in `"join"` owns the
  handler execution it counts, and that every execution under way is owned by
  the job thread of its process; two executions of one process then have the
  same owner. `ThreadsInv` has a proof step for each action of `Next`.
- **StopIsKept**, `Spec => StopKept`. The only write that could clear a stop is
  the requeue, and a job without retries is never requeued: the step follows if
  a thread that failed has an attempt number above zero. That is the invariant
  `Numbered`, which holds because the number is the local variable that
  `RunStart` set, whatever stale writes or handlers do to the row. Lemma
  `FlushKeepsStop` shows that no other stale write can clear the column, for it
  does not emit it.
- **LateHandlersExit**, `Spec => LateHandlerExits`, if no handler is registered
  with retries. The invariant `LateInv` carries the stop from the timeout to the
  poll: an execution left behind has its stop in the row, or the row is deleted,
  which `_job_control` reads as a stop; and executions are numbered up to
  `starts`, so that a new one is not taken for one left behind. The hypothesis is
  needed: `jobs_late_handler` is the counterexample with one retry.
- **RunningIsAttended**, `Spec => []NoLostJob`, for any number of processes,
  without retries, pauses and crashes. `RunningInv` gives each running row
  someone who attends it: a claim about to spawn its thread (and no thread of
  that process is in the way, `ClaimAlone`), or a thread that will end it
  (`WillEnd`). With two processes the last write of a thread may leave the row
  running, because it was decided on a copy that another one had ended
  meanwhile; the invariant says that a thread that stops attending has seen
  the row otherwise than running, and lemma `OnwardStep` that a row that left
  `running` does not come back to it without a claim. Each hypothesis is needed:
  a retry is lost in `jobs_retry_lost`, a resume and a crash leave a running row
  without thread by what the code does.
- **FleetIsBounded**, `Spec => []FleetBounded`, for finitely many processes of
  which nobody resumes a job. The bound is not inductive: a tick that has counted
  its slots may still fill them, whatever the other processes start meanwhile.
  `FleetOK(q)` counts, beside the rows running, the claims each process has still
  open (`Unclaimed`: the slots it counted, then the candidates it queried and has
  not committed), and says that both together are at most the processes times the
  concurrency. A count moves at most what the rows running leave of one process's
  share, and a commit fills one place it frees. The open claims are counted as
  a set of places, a subset of the grid of processes and `1..Concurrency[q]`, so
  that no sum over the processes is needed. `OwnJobs` (candidates are of the
  queue they were queried for) ties a commit to its queue.

`QueuePauseProofs` proves **PausedQueuesDrain**,
`PauseSpec => []PausedQueueDrains`, for finitely many processes and any queues,
jobs, retries, controls and crashes. `Able(q)` is the set of processes that may
yet commit a claim on q were it paused now: those between the claim's read and
its write, those that serve q with a copy they loaded before, and those that have
q still to serve in a tick in which they have not committed. Once q is paused, `Drains(q)` is inductive:
the claims made since, plus the processes still able, are at most the processes.
A commit takes its process out of `Able(q)`, and nothing puts one in while the
pause lasts, a crash and a new tick included.

`LedgerProofs` proves **WorkerKeepsLedger**, `OrderedSpec => ImplementsLedger`, from
`OneWorker`: there is one process, and nobody pauses or stops jobs. Jobs, queues,
concurrency, budgets of retries, missing handlers, timeouts, crashes and what the
handlers do are any; the calls left behind included, whose steps are `Stop` and
invisible ones. The invariant `WorkerInv` says
per job what its row, its thread and its executions know of each other (`RowOK`,
`ThreadOK`, `HandlersOK`): a queued row is ready, its number counts the calls made,
unless a late report has dropped it, and is within the budget; a thread's number is
that of the call; and what a thread is about to decide on is the row as it is, or
as it was before a late call marked it, since nobody else writes it.
`ClaimsOK` says of the scheduler what order and capacity need: a candidate leaves
out no older job that waits for its first attempt, and the candidates with the
rows running fit the queue. Both come from the query, by lemmas that count
`Oldest` through the rank of each job (`OldestBounded`, `OldestClosed`), and
survive until the claim, because with one process the running rows can only
become fewer meanwhile and what is queued then is newer, by `InOrder`, or a retry.
Each action has a lemma that gives `WorkerInv'` and the step of the ledger it is:
`Enqueue` is `Submit`, `ClaimWrite` `Begin`, `RunStart` `Call`, the two last writes
`Complete`, `Retry` or `Fail`, `HandlerHalt` of a late call `Stop`, and everything
else, crashes included, is invisible.

`AddonsProofs` proves all five properties of the run `addons`, for any processes,
concurrent requests, pages, add-ons and ZIPs, from the assumptions that the
add-ons of the application are add-ons, that ZIPs are numbered from 1, and that
scenes bound requests, failures and restarts by natural numbers.

- **TypeCorrect**. `TypeOK` needs one strengthening, `ImportsFound`: a load that
  is between its look at the folders and its imports imports no more than it had
  found and enabled.
- **PagesStay**, `Spec => []PagesKept`. Inductive invariant `PagesInv`: as long as
  none of them has written, a form, an install or an uninstall that had not read
  the settings before the pages were saved is about to write just those pages.
  By lemma `BaseRead` what a request is about to write back comes from the row;
  by lemma `WrittenRow` each column that a commit leaves was in the table or is
  the request's, whatever row it loaded in between.
- **FoldersWhole** and **InstalledStays**, `Spec => []OneSource` and
  `Spec => []InstalledWhole`. Both follow from `InstallInv`, which says of each
  add-on that was not torn: only one request fills its folder; until it has
  copied the rest, the folder has the part it copied; from then on the folder is
  whole and the checksum it is about to register is the folder's; and nobody
  fills the folder of an add-on that is installed, which is whole under its own
  checksum. That a second install cannot begin is the one thing `copytree`
  contributes: it creates the folder or fails. What an interrupted copy or
  removal leaves is a folder that nobody fills. Each action that touches an add-on
  has a lemma; lemma `Elsewhere` covers the others.
- **OffIsExplained**, `Spec => []OnUnlessSwitchedOff`. The invariant `OffInv`
  follows the ITEMS maps through the row, the copies in processes and
  requests, and what is about to be written: an add-on that is off in any of
  them was switched off by a form or an import that committed.

`ApiKeysProofs` proves the type invariant and all properties of the run
`keys`, for any requests at once, limit, scopes and routes. Assumed is that the
requests served together are finitely many (`SlotsAssumption`; a process has as
many threads as it was started with), that a limit is positive, and that a scope
is a sequence of words.

- **TypeCorrect**. `TypeOK` needs `Numbered` (key numbers are 1..n, and there is
  room for each key that is about to be inserted) and `Emptied` (keys go with
  their user).
- **RevocationLasts**, `Spec => RevokedStays`. Lemma `NextStep` sorts every
  step into three kinds, `KeyStep`: keys age, one is added, or all go; a stale use that
  commits after a revocation is of the first kind, as it writes only
  `last_used_at`.
- **LimitHolds**, `Spec => []KeysBounded`. The property is
  stated with the creations that have counted and not yet inserted among the keys,
  and so is inductive, given `KeysInv`: the last request to count adds itself to
  fewer than the limit and at most one insert of each other request.
- **NoKeyHidden**, `Spec => []NoneHidden`.
- **OnlyGrantedServed**, `Spec => []ServedIsGranted`. `ValidatedInv` carries what
  the validation found through the commit of `last_used_at` to the guard: a
  key's scopes never change. Lemma `HasScopesDenotes` shows that
  `token_has_scopes` grants a scope only if the key's scopes denote it, for all
  sequences of words and any wildcards.

`SignInProofs` proves the type invariant and the three safety properties of the
run `signin`. Its assumption `SeedsAssumption` says that an account, when it is
seeded, is missing, confirmed, or as registration leaves it.

- **TypeCorrect** is inductive by itself.
- **ConfirmationLasts** and **DisablingEndsSessions**,
  `Spec => []ConfirmedStaysConfirmed` and `Spec => []DisabledHasNoSession`, follow
  from one invariant, `SignInInv`. `Regular` says of a row *and of every stale
  copy of it* that an unconfirmed account is inactive and waiting, or its status
  had been set early; without it for the copies, nothing could be said of the
  row their commit leaves. `RequestOK` and `AdminOK` say what a request
  may be about to write: a registration has found the row unconfirmed, a toggle
  or edit never sets "pending" and carries the lock it loaded. Lemmas about
  `Written` treat the mixture of three rows that a commit leaves.
- **LocksHold**, `Spec => LockHolds`, is the action property from the same
  invariant.

`RedisProofs` and `DeliveryProofs` prove every property of the run `delivery`, the
composed system: database rows, threads, Redis lists, delivery requests, handlers
and inbox pages. The proofs are composed as the modules are. The lemmas on types in
`JobRuntimeProofs` speak of `SharedTypes`, the types of everything but the
scheduler, whose states the two backends have of their own; each action of
`JobRuntime` that the Redis backend reuses is proved about once. `RedisProofs`
proves its invariant for `RedisMove`, which is a step of `RedisNext`, a fault
elsewhere, or no change of this module's variables; by lemma `DeliveryMoves` each
step of `Delivery` is one. Assumed is that processes and requests are finitely
many and are told apart (`PushersAssumption`), that queues have distinct ranks
(`RankAssumption`, the order of BLPOP's keys), and that the handler of a direct
message does not poll the controls (`MailAssumption`, as in the code).

- **RedisRuntimeCorrect**: the types, `NoneForgotten` and `CapacityBounded`, whatever
  the jobs are for; **DeliveryTypeCorrect**, **NoneIsForgotten** and
  **CapacityIsBounded** say it of the composed system.
  `NoneForgotten` needs `PushersInv`: what a restart or an answer overwrites in
  `push` is empty, because a process that is down has nothing to push and a
  request only has something once it is answered. `CapacityBounded` is not
  inductive, since slots are counted and taken in two steps: `Reserved(q)` counts,
  with the rows running, the workers that have counted a free slot and not written yet.
- **SuccessIsTrue**, `DeliverySpec => []NoFalseSuccess`. `Unsent` says of a direct
  message that its handler executions only work or fail, that no job thread is on
  its way to complete the job, and that the row is not completed; a stale write
  cannot bring "completed" back, for only a job thread's last write emits it.
- **MarksHold**, `DeliverySpec => []MarkedOnce`, from `TabsInv`: no two requests have
  one mark pending together, and none is pending while the marker is there; so a
  second marker is never committed, and a request that was refused for a marker
  found a committed one.

Only model-checked: the liveness `EveryJobEnds` and `FailuresLock`, as temporal
reasoning under fairness is outside these provers. The four violations are
counterexamples and have nothing to prove.

## 6. What is not modelled, and why

- Add-on data, config and secret stores: apart from the registry row, which
  `Addons` has, only the seed command calls them, in one process.
- Text services (translation, sanitising), manifests and ZIP validation:
  stateless conversions of characters, better tested.
- Logging, audit and redaction: nothing decides on what they write. The one
  effect that matters, a failing `audit` that rolls its caller's session back, is
  in `SignIn`.
- Seeding and database commands: one operator, one shot. The flush of the Redis
  namespace is in `RedisRuntime`, the maintenance command in `Settings`; the
  import of settings from the command line is an import request served by a
  process of its own.
- Process supervision: `cmd_serve_stack` and `cmd_worker`, the supervisor's
  loop, are called by no command that `main()` registers; ports and child
  processes are input and output. Processes that come and go are in
  `Crash`/`Restart` and `RestartWorker`.
- The API bridge's routing, headers, rate limits, templates, assets, dashboards
  and bundled add-ons: no state of their own, or views of what is modelled.
- Within modelled components: `reset_user_password` and password reset tokens,
  the rate and the client address of API calls, the expiry of messages, the
  insertion of the first settings row, `JobQueue.enabled`.
