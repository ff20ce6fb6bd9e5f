-------------------------------- MODULE SignIn --------------------------------
(***************************************************************************)
(* Accounts and browser sessions: sign-in with its lockout counter, the    *)
(* MFA challenge and enrolment, self-registration with its confirmation    *)
(* links, and the administration of users (app/blueprints/auth/routes.py,  *)
(* the user pages of app/blueprints/admin/routes.py, the request hook of   *)
(* app/__init__.py).                                                       *)
(*                                                                         *)
(* A request loads an account, decides, and commits later; other requests  *)
(* commit in between.  The load and the commit are therefore two actions,  *)
(* and the request keeps the account it loaded in req[b].seen.  What the   *)
(* commit leaves in the table is the operator Written.                     *)
(*                                                                         *)
(* An operator marked "mutant" is a plausible mistake in the code that the *)
(* operator after it models; no specification uses it.                     *)
(***************************************************************************)
EXTENDS Naturals, FiniteSets

CONSTANTS
  Users,       \* e-mail addresses, registered or not
  Subjects,    \* bound: the users who are guessed at, registered, administered
  Browsers,    \* one request of a browser is served at a time
  Links,       \* confirmation tokens of a user that are valid at once
  MaxAttempts, \* AUTH.MAX_FAILED_LOGIN_ATTEMPTS
  MaxAdmin,    \* bound: the most toggles and edits of an administrator
  MaxCodes,    \* wrong MFA codes a challenge allows (10 in the code)
  Scenes       \* bound: the accounts of the subjects at the start, which
               \* operations are requested together, and how many toggles
               \* and edits

ASSUME SubjectsAssumption == Subjects \subseteq Users
ASSUME NonEmptyAssumption == Users # {} /\ Links # {}
ASSUME LimitsAssumption   ==
  MaxAttempts \in Nat \ {0} /\ MaxCodes \in Nat \ {0} /\ MaxAdmin \in Nat

Operations == {"wrong", "right", "switch", "mfa", "leave", "register", "resend",
               "confirm", "create", "delete", "toggle", "edit"}

VARIABLES
  scene,   \* the member of Scenes this behaviour explores
  acct,    \* acct[u]: the users row
  links,   \* links[u]: the valid confirmation tokens of u
  live,    \* pairs <<b, u>>: unrevoked, unexpired user_sessions rows
  cookie,  \* cookie[b]: the signed session cookie of browser b
  req,     \* req[b]: the request of b that is being served
  admin,   \* the administrator's request on a user
  history  \* history[u]: what explains an exception, see the properties

vars == <<scene, acct, links, live, cookie, req, admin, history>>

-----------------------------------------------------------------------------
(* The rows and the cookie.                                                *)

Account == [st       : {"none", "row", "gone"},
            active   : BOOLEAN,                     \* is_active
            verified : BOOLEAN,                     \* email_verified
            status   : {"active", "pending_verification", "disabled"},
            self     : BOOLEAN,                     \* signup_source is self_signup
            fails    : 0..(MaxAttempts - 1),             \* failed_login_count
            lock     : {"none", "set", "over"},     \* locked_until
            mfa      : BOOLEAN]                     \* mfa_enabled

NoAccount == [st |-> "none", active |-> FALSE, verified |-> FALSE,
              status |-> "disabled", self |-> FALSE, fails |-> 0,
              lock |-> "none", mfa |-> FALSE]

\* create_user and the seed: active, confirmed.
Created == [NoAccount EXCEPT !.st = "row", !.active = TRUE, !.verified = TRUE,
                             !.status = "active"]

\* register_post: neither active nor confirmed.
Registered == [NoAccount EXCEPT !.st = "row", !.self = TRUE,
                                !.status = "pending_verification"]

Scene == [ops : SUBSET Operations, seed : Account, admin : 0..MaxAdmin]

ASSUME ScenesAssumption == Scenes \subseteq Scene

\* At the start an account is missing, confirmed, or as registration left it.
ASSUME SeedsAssumption ==
  \A s \in Scenes :
    \/ s.seed = NoAccount
    \/ /\ s.seed.st = "row"
       /\ IF s.seed.verified THEN s.seed.status # "pending_verification"
          ELSE ~s.seed.active /\ s.seed.status = "pending_verification"

Cookie == [kind  : {"anonymous", "user", "challenge"},
           user  : Users,
           codes : 0..MaxCodes,                    \* mfa_pending["attempts"]
           enrol : {"none", "started", "confirmed"}] \* mfa_setup

Anonymous == [kind |-> "anonymous", user |-> CHOOSE u \in Users : TRUE,
              codes |-> 0, enrol |-> "none"]

Request == [pc   : {"idle", "switched", "fail", "final", "reload", "insert",
                    "latest", "void", "mint", "confirm"},
            user : Users,
            seen : Account,          \* the account as this request loaded it
            set  : SUBSET Links]     \* token rows it read or holds locked

NoRequest == [pc |-> "idle", user |-> CHOOSE u \in Users : TRUE,
              seen |-> NoAccount, set |-> {}]

At(pc, u, seen) == [NoRequest EXCEPT !.pc = pc, !.user = u, !.seen = seen]

AdminRequest == [op   : {"idle", "toggle", "edit", "revoke"},
                 left : 0..MaxAdmin,
                 user : Users, seen : Account, new : Account]

NoAdmin == [op |-> "idle", left |-> 0, user |-> CHOOSE u \in Users : TRUE,
            seen |-> NoAccount, new |-> NoAccount]

Excuses == {"set_early", "issued_late", "request_died"}

TypeOK ==
  /\ scene \in Scenes
  /\ acct \in [Users -> Account]
  /\ links \in [Users -> SUBSET Links]
  /\ live \subseteq Browsers \X Users
  /\ cookie \in [Browsers -> Cookie]
  /\ req \in [Browsers -> Request]
  /\ admin \in AdminRequest
  /\ history \in [Users -> SUBSET Excuses]

Init ==
  /\ scene \in Scenes
  /\ acct = [u \in Users |-> IF u \in Subjects THEN scene.seed ELSE Created]
  /\ links = [u \in Users |-> {}]
  /\ live = {}
  /\ cookie = [b \in Browsers |-> Anonymous]
  /\ req = [b \in Browsers |-> NoRequest]
  /\ admin = [NoAdmin EXCEPT !.left = scene.admin]
  /\ history = [u \in Users |-> {}]

-----------------------------------------------------------------------------
(* The unit of work and the cookie.                                        *)

Exists(u) == acct[u].st = "row"

\* Mutant: the commit writes every column, not only those that changed.
WrittenWhole(current, loaded, new) ==
  IF current.st = "row" THEN new ELSE current

\* What a commit leaves in the table: only columns whose value differs from
\* the loaded one are emitted.  A row deleted meanwhile fails the commit.
Written(current, loaded, new) ==
  IF current.st = "row"
  THEN [c \in DOMAIN current |->
          IF new[c] # loaded[c] THEN new[c] ELSE current[c]]
  ELSE current

Store(u, loaded, new) ==
  acct' = [acct EXCEPT ![u] = Written(@, loaded, new)]

SetReq(b, r)    == req' = [req EXCEPT ![b] = r]
SetCookie(b, c) == cookie' = [cookie EXCEPT ![b] = c]
Answer(b)       == SetReq(b, NoRequest)

\* current_user.is_authenticated: the cookie names a user, the row is still
\* there and its is_active holds.  The session row is not looked at.
Authenticated(b, u) ==
  /\ cookie[b].kind = "user" /\ cookie[b].user = u
  /\ Exists(u) /\ acct[u].active

Free(b) == req[b].pc = "idle"

RowsOf(u) == {r \in live : r[2] = u}

\* The session row of the browser is revoked, with its token.  The token's
\* audit may fail before the commit and roll both back; and a row may be left
\* of an earlier sign-in whose revocation was lost that way.
LeaveRow(b, u) == \E gone \in BOOLEAN : live' = IF gone THEN live \ {<<b, u>>} ELSE live

-----------------------------------------------------------------------------
(* Sign-in with a password.                                                *)

\* login_post as far as the load of the account: nobody is signed in in this
\* browser, or the user who was has just been signed out, and u's lock, if
\* any, is over.
Admitted(b, u) ==
  /\ \/ Free(b) /\ \A w \in Users : ~Authenticated(b, w)
     \/ req[b].pc = "switched" /\ req[b].user = u
  /\ u \in Subjects \/ "switch" \in scene.ops
  /\ Exists(u)
  /\ acct[u].lock # "set"

\* Another user signs in in a browser: the session row of the one who was
\* signed in is revoked, in a commit of its own, and the cookie cleared.
LoginSwitch(b, u) ==
  /\ "switch" \in scene.ops
  /\ Free(b)
  /\ \E w \in Users \ {u} :
       /\ Authenticated(b, w)
       /\ LeaveRow(b, w)
  /\ SetCookie(b, Anonymous)
  /\ SetReq(b, At("switched", u, NoAccount))
  /\ UNCHANGED <<scene, acct, links, admin, history>>

\* _is_pending_email_confirmation, with EMAIL_CONFIRM_REQUIRED on.
Pending(a) ==
  ~a.verified /\ (a.status = "pending_verification" \/ a.self)

\* After a switch, the account is locked, gone or waits for confirmation.
LoginRefused(b) ==
  /\ req[b].pc = "switched"
  /\ LET a == acct[req[b].user] IN a.st # "row" \/ a.lock = "set" \/ Pending(a)
  /\ Answer(b)
  /\ UNCHANGED <<scene, acct, links, live, cookie, admin, history>>

\* A wrong password, or any password while the account is not active.
LoginWrong(b, u) ==
  /\ "wrong" \in scene.ops
  /\ Admitted(b, u)
  /\ u \in Subjects \/ ~acct[u].active
  /\ SetReq(b, At("fail", u, acct[u]))
  /\ UNCHANGED <<scene, acct, links, live, cookie, admin, history>>

\* Mutant: one failure more is allowed at the limit.
CountedBeyond(a) ==
  IF a.fails >= MaxAttempts
  THEN [a EXCEPT !.fails = 0, !.lock = "set"]
  ELSE [a EXCEPT !.fails = @ + 1]

\* Mutant: an inactive account's failures are not counted.
CountedIfActive(a) ==
  IF ~a.active THEN a
  ELSE IF a.fails + 1 >= MaxAttempts
       THEN [a EXCEPT !.fails = 0, !.lock = "set"]
       ELSE [a EXCEPT !.fails = @ + 1]

\* The failure is counted on the loaded account; at the limit the account is
\* locked and the count starts again.
Counted(a) ==
  IF a.fails + 1 >= MaxAttempts
  THEN [a EXCEPT !.fails = 0, !.lock = "set"]
  ELSE [a EXCEPT !.fails = @ + 1]

\* The commit of a failure comes 0.35 seconds after the load.
LoginFail(b) ==
  /\ req[b].pc = "fail"
  /\ LET u == req[b].user
         a == req[b].seen
     IN  Store(u, a, Counted(a))
  /\ Answer(b)
  /\ UNCHANGED <<scene, links, live, cookie, admin, history>>

\* The right password of an active, confirmed account.
Welcome(b, u) ==
  /\ "right" \in scene.ops
  /\ Admitted(b, u) /\ acct[u].active /\ ~Pending(acct[u])

LoginAccept(b, u) ==
  /\ Welcome(b, u)
  /\ ~acct[u].mfa
  /\ SetReq(b, At("final", u, acct[u]))
  /\ UNCHANGED <<scene, acct, links, live, cookie, admin, history>>

\* With MFA on, the browser is sent to the challenge; only its cookie knows.
LoginChallenge(b, u) ==
  /\ Welcome(b, u)
  /\ acct[u].mfa
  /\ SetCookie(b, [Anonymous EXCEPT !.kind = "challenge", !.user = u])
  /\ Answer(b)
  /\ UNCHANGED <<scene, acct, links, live, admin, history>>

\* A user object whose session has committed is loaded again when used next.
Reload(b) ==
  /\ req[b].pc = "reload"
  /\ IF Exists(req[b].user)
     THEN SetReq(b, At("final", req[b].user, acct[req[b].user]))
     ELSE Answer(b)
  /\ UNCHANGED <<scene, acct, links, live, cookie, admin, history>>

\* _finalize_login and _issue_browser_session: the counter and the lock are
\* cleared and a session row is added in one commit.  login_user has looked at
\* the loaded is_active; the row is added whatever it said.
Finalize(b) ==
  LET u == req[b].user
      a == req[b].seen
  IN  /\ req[b].pc = "final"
      /\ IF Exists(u)
         THEN /\ Store(u, a, [a EXCEPT !.fails = 0, !.lock = "none"])
              /\ live' = live \cup {<<b, u>>}
              /\ SetCookie(b, IF a.active
                              THEN [Anonymous EXCEPT !.kind = "user", !.user = u]
                              ELSE Anonymous)
              /\ history' = [history EXCEPT ![u] =
                   IF acct[u].active THEN @ ELSE @ \cup {"issued_late"}]
         ELSE SetCookie(b, Anonymous) /\ UNCHANGED <<acct, live, history>>
      /\ Answer(b)
      /\ UNCHANGED <<scene, links, admin>>

\* locked_until passes.
LockEnds(u) ==
  /\ acct[u].lock = "set"
  /\ acct' = [acct EXCEPT ![u].lock = "over"]
  /\ UNCHANGED <<scene, links, live, cookie, req, admin, history>>

-----------------------------------------------------------------------------
(* The MFA challenge and enrolment.                                        *)

Challenged(b) == Free(b) /\ cookie[b].kind = "challenge"

\* The account is no longer there, active or enrolled, or 600 seconds passed.
ChallengeEnds(b) ==
  /\ Challenged(b)
  /\ SetCookie(b, Anonymous)
  /\ UNCHANGED <<scene, acct, links, live, req, admin, history>>

Challengeable(b) ==
  LET u == cookie[b].user
  IN  Challenged(b) /\ Exists(u) /\ acct[u].active /\ acct[u].mfa

\* A wrong code: the attempts are counted in the cookie, which is dropped at
\* the limit.
ChallengeWrong(b) ==
  /\ Challengeable(b)
  /\ LET n == cookie[b].codes + 1
     IN  SetCookie(b, IF n >= MaxCodes THEN Anonymous
                      ELSE [cookie[b] EXCEPT !.codes = n])
  /\ UNCHANGED <<scene, acct, links, live, req, admin, history>>

\* A right authenticator code.  (A recovery code fails the request:
\* _recovery_code_hash uses hashlib, which the module does not import.)
ChallengePassed(b) ==
  /\ Challengeable(b)
  /\ SetReq(b, At("reload", cookie[b].user, NoAccount))
  /\ SetCookie(b, Anonymous)
  /\ UNCHANGED <<scene, acct, links, live, admin, history>>

\* mfa_setup keeps the new secret in the cookie.
MfaSetup(b, u) ==
  /\ "mfa" \in scene.ops
  /\ Free(b) /\ Authenticated(b, u)
  /\ SetCookie(b, [cookie[b] EXCEPT !.enrol = "started"])
  /\ UNCHANGED <<scene, acct, links, live, req, admin, history>>

MfaSetupEnds(b) ==
  /\ Free(b) /\ cookie[b].enrol # "none"
  /\ SetCookie(b, [cookie[b] EXCEPT !.enrol = "none"])
  /\ UNCHANGED <<scene, acct, links, live, req, admin, history>>

\* What the commit of mfa_enable would store.
Enrolled(a) == [a EXCEPT !.mfa = TRUE]

\* The recovery codes are hashed before the commit; hashlib is not imported,
\* so the request fails, the transaction is rolled back, and the secret stays
\* in the cookie.
EnableOutcome(a) == a

\* A right authenticator code is sent to mfa_enable.
MfaEnable(b, u) ==
  /\ Free(b) /\ Authenticated(b, u)
  /\ cookie[b].enrol = "started"
  /\ acct' = [acct EXCEPT ![u] = EnableOutcome(@)]
  /\ SetCookie(b, [cookie[b] EXCEPT !.enrol = "confirmed"])
  /\ UNCHANGED <<scene, links, live, req, admin, history>>

\* A right password and authenticator code are sent to mfa_disable.
MfaDisable(b, u) ==
  /\ "mfa" \in scene.ops
  /\ Free(b) /\ Authenticated(b, u)
  /\ acct[u].mfa
  /\ acct' = [acct EXCEPT ![u].mfa = FALSE]
  /\ SetCookie(b, [cookie[b] EXCEPT !.enrol = "none"])
  /\ UNCHANGED <<scene, links, live, req, admin, history>>

-----------------------------------------------------------------------------
(* The end of a session.                                                   *)

\* Whatever becomes of the row, the browser is signed out.
Logout(b, u) ==
  /\ "leave" \in scene.ops
  /\ Free(b) /\ Authenticated(b, u)
  /\ LeaveRow(b, u)
  /\ SetCookie(b, Anonymous)
  /\ UNCHANGED <<scene, acct, links, req, admin, history>>

\* The new password and the revocation of all rows are one commit.
ChangePassword(b, u) ==
  /\ "leave" \in scene.ops
  /\ Free(b) /\ Authenticated(b, u)
  /\ live' = live \ RowsOf(u)
  /\ SetCookie(b, Anonymous)
  /\ UNCHANGED <<scene, acct, links, req, admin, history>>

\* expires_at passes; it is set once, at sign-in.
RowExpires(b, u) ==
  /\ "leave" \in scene.ops
  /\ <<b, u>> \in live
  /\ live' = live \ {<<b, u>>}
  /\ UNCHANGED <<scene, acct, links, cookie, req, admin, history>>

\* The hook signs out a browser idle for the session timeout: by then the
\* row, given the same time at sign-in, has expired.
IdleTimeout(b, u) ==
  /\ Free(b) /\ Authenticated(b, u)
  /\ <<b, u>> \notin live
  /\ SetCookie(b, Anonymous)
  /\ UNCHANGED <<scene, acct, links, live, req, admin, history>>

-----------------------------------------------------------------------------
(* Registration and confirmation links.                                    *)

\* A pending token another request has updated and not committed, or holds
\* with FOR UPDATE.
Locked(b, u) ==
  UNION {req[c].set : c \in {c \in Browsers \ {b} :
                               req[c].pc \in {"void", "mint"} /\ req[c].user = u}}

\* register_post finds no account ...
RegisterNew(b, u) ==
  /\ "register" \in scene.ops
  /\ Free(b) /\ u \in Subjects /\ acct[u].st = "none"
  /\ SetReq(b, At("insert", u, NoAccount))
  /\ UNCHANGED <<scene, acct, links, live, cookie, admin, history>>

\* ... and inserts one, unless the unique address is taken by then.
RegisterInsert(b) ==
  LET u == req[b].user
  IN  /\ req[b].pc = "insert"
      /\ IF acct[u].st = "none"
         THEN /\ acct' = [acct EXCEPT ![u] = Registered]
              /\ SetReq(b, At("void", u, NoAccount))
         ELSE Answer(b) /\ UNCHANGED acct
      /\ UNCHANGED <<scene, links, live, cookie, admin, history>>

\* register_post finds an unconfirmed account.
RegisterAgain(b, u) ==
  /\ "register" \in scene.ops
  /\ Free(b) /\ u \in Subjects /\ Exists(u) /\ ~acct[u].verified
  /\ SetReq(b, At("latest", u, acct[u]))
  /\ UNCHANGED <<scene, acct, links, live, cookie, admin, history>>

\* It locks the latest pending token, if there is one; when that is recent
\* the request ends.  (Which is the latest is not kept: any may be.)
RegisterLatest(b) ==
  LET u == req[b].user
  IN  /\ req[b].pc = "latest"
      /\ \/ links[u] = {} /\ SetReq(b, [req[b] EXCEPT !.pc = "void"])
         \/ \E t \in links[u] \ Locked(b, u) :
              \/ SetReq(b, [req[b] EXCEPT !.pc = "void", !.set = {t}])
              \/ Answer(b)
      /\ UNCHANGED <<scene, acct, links, live, cookie, admin, history>>

\* resend_confirmation: no lock; a recent token ends the request.
Resend(b, u) ==
  /\ "resend" \in scene.ops
  /\ Free(b) /\ Exists(u) /\ Pending(acct[u])
  /\ SetReq(b, At("void", u, NoAccount))
  /\ UNCHANGED <<scene, acct, links, live, cookie, admin, history>>

\* _create_confirmation_token voids the pending tokens it sees ...
Void(b) ==
  LET u == req[b].user
  IN  /\ req[b].pc = "void"
      /\ links[u] \cap Locked(b, u) = {}
      /\ SetReq(b, [req[b] EXCEPT !.pc = "mint", !.set = links[u]])
      /\ UNCHANGED <<scene, acct, links, live, cookie, admin, history>>

\* ... or, waiting for a token of a request that waits for one of its own, is
\* chosen by the database to fail.
VoidDeadlocks(b) ==
  LET u == req[b].user
  IN  /\ req[b].pc = "void"
      /\ \E c \in Browsers \ {b} :
           /\ req[c].pc = "void" /\ req[c].user = u
           /\ links[u] \cap req[c].set # {}
           /\ links[u] \cap req[b].set # {}
      /\ Answer(b)
      /\ UNCHANGED <<scene, acct, links, live, cookie, admin, history>>

\* Mutant: an UPDATE statement sets the columns of whatever row there is.
RejoinedByUpdate(current, loaded) ==
  [current EXCEPT !.active = FALSE, !.status = "pending_verification"]

\* register_post made the account it had loaded pending again.
Rejoined(current, loaded) ==
  Written(current, loaded, [loaded EXCEPT !.active = FALSE,
                                          !.status = "pending_verification"])

\* ... and inserts a new one; the same commit stores what register_post set on
\* the account it had loaded.
Mint(b) ==
  LET u == req[b].user
      a == req[b].seen
  IN  /\ req[b].pc = "mint"
      /\ IF Exists(u)
         THEN LET free == Links \ (links[u] \cup UNION {req[c].set : c \in Browsers})
              IN
                /\ free # {}
                /\ links' = [links EXCEPT ![u] =
                              (@ \ req[b].set) \cup {CHOOSE t \in free : TRUE}]
                /\ IF a.st = "row"
                   THEN acct' = [acct EXCEPT ![u] = Rejoined(@, a)]
                   ELSE UNCHANGED acct
         ELSE UNCHANGED <<links, acct>>
      /\ Answer(b)
      /\ UNCHANGED <<scene, live, cookie, admin, history>>

LinkExpires(u, t) ==
  /\ t \in links[u] \ UNION {req[c].set : c \in Browsers}
  /\ links' = [links EXCEPT ![u] = @ \ {t}]
  /\ UNCHANGED <<scene, acct, live, cookie, req, admin, history>>

\* confirm_email loads the token and the account.
ConfirmRead(b, u, t) ==
  /\ "confirm" \in scene.ops
  /\ Free(b) /\ t \in links[u]
  /\ SetReq(b, [At("confirm", u, acct[u]) EXCEPT !.set = {t}])
  /\ UNCHANGED <<scene, acct, links, live, cookie, admin, history>>

\* The account was confirmed before: the link is consumed and no more.
ConfirmAgain(b) ==
  LET u == req[b].user
  IN  /\ req[b].pc = "confirm" /\ req[b].seen.verified
      /\ req[b].set \cap Locked(b, u) = {}
      /\ links' = [links EXCEPT ![u] = @ \ req[b].set]
      /\ Answer(b)
      /\ UNCHANGED <<scene, acct, live, cookie, admin, history>>

\* The account is confirmed and activated, every pending link is void, and
\* the browser is signed in with the account as it is then.
ConfirmWrite(b) ==
  LET u == req[b].user
      a == req[b].seen
  IN  /\ req[b].pc = "confirm" /\ ~a.verified
      /\ (req[b].set \cup links[u]) \cap Locked(b, u) = {}
      /\ IF Exists(u)
         THEN /\ Store(u, a, [a EXCEPT !.verified = TRUE, !.active = TRUE,
                                       !.status = "active"])
              /\ links' = [links EXCEPT ![u] = {}]
              /\ SetReq(b, At("reload", u, NoAccount))
         ELSE Answer(b) /\ UNCHANGED <<acct, links>>
      /\ UNCHANGED <<scene, live, cookie, admin, history>>

\* audit is called before the commit and rolls the transaction back when it
\* fails: nothing is stored, and the sign-in follows all the same.
ConfirmRolledBack(b) ==
  /\ req[b].pc = "confirm" /\ ~req[b].seen.verified
  /\ SetReq(b, At("reload", req[b].user, NoAccount))
  /\ UNCHANGED <<scene, acct, links, live, cookie, admin, history>>

-----------------------------------------------------------------------------
(* The administration of users.                                            *)

CreateUser(u) ==
  /\ "create" \in scene.ops
  /\ u \in Subjects /\ acct[u].st = "none"
  /\ acct' = [acct EXCEPT ![u] = Created]
  /\ UNCHANGED <<scene, links, live, cookie, req, admin, history>>

\* Everything that refers to the user goes in one commit.
DeleteUser(u) ==
  /\ "delete" \in scene.ops
  /\ u \in Subjects /\ Exists(u)
  /\ acct' = [acct EXCEPT ![u] = [NoAccount EXCEPT !.st = "gone"]]
  /\ links' = [links EXCEPT ![u] = {}]
  /\ live' = live \ RowsOf(u)
  /\ UNCHANGED <<scene, cookie, req, admin, history>>

Begin(op, u, new) ==
  /\ admin.op = "idle" /\ admin.left > 0
  /\ u \in Subjects /\ Exists(u)
  /\ admin' = [op |-> op, left |-> admin.left - 1, user |-> u,
               seen |-> acct[u], new |-> new]

\* The request is answered.
AdminEnds == admin' = [NoAdmin EXCEPT !.left = admin.left]

StatusFor(active) == IF active THEN "active" ELSE "disabled"

ToggleRead(u) ==
  /\ "toggle" \in scene.ops
  /\ Begin("toggle", u, [acct[u] EXCEPT !.active = ~@,
                                        !.status = StatusFor(~acct[u].active)])
  /\ UNCHANGED <<scene, acct, links, live, cookie, req, history>>

\* The form carries is_active and email_verified, whatever they are now.
EditRead(u) ==
  /\ "edit" \in scene.ops
  /\ \E active, verified \in BOOLEAN :
       Begin("edit", u, [acct[u] EXCEPT !.active = active,
                                        !.verified = verified,
                                        !.status = StatusFor(active)])
  /\ UNCHANGED <<scene, acct, links, live, cookie, req, history>>

\* The first commit of toggle_user and edit_user.
AdminWrite ==
  LET u == admin.user
      a == Written(acct[u], admin.seen, admin.new)
  IN  /\ admin.op \in {"toggle", "edit"}
      /\ acct' = [acct EXCEPT ![u] = a]
      /\ IF Exists(u) THEN admin' = [admin EXCEPT !.op = "revoke"] ELSE AdminEnds
      /\ history' = [history EXCEPT ![u] =
           IF ~a.verified THEN @ \cup {"set_early"} ELSE @]
      /\ UNCHANGED <<scene, links, live, cookie, req>>

\* Mutant: the rows are revoked only when the account is enabled.
RevokedIfEnabled(u) == IF acct[u].active THEN RowsOf(u) ELSE {}

\* The rows the second commit revokes.
Revoked(u) == RowsOf(u)

AdminRevoke ==
  /\ admin.op = "revoke"
  /\ live' = live \ Revoked(admin.user)
  /\ AdminEnds
  /\ UNCHANGED <<scene, acct, links, cookie, req, history>>

\* The request ends between its commits (an error, a killed worker).
AdminDies ==
  /\ admin.op = "revoke"
  /\ AdminEnds
  /\ history' = [history EXCEPT ![admin.user] = @ \cup {"request_died"}]
  /\ UNCHANGED <<scene, acct, links, live, cookie, req>>

-----------------------------------------------------------------------------
LoginStep(b) ==
  \/ \E u \in Users : \/ LoginSwitch(b, u) \/ LoginWrong(b, u)
                      \/ LoginAccept(b, u) \/ LoginChallenge(b, u)
  \/ LoginRefused(b) \/ LoginFail(b) \/ Reload(b) \/ Finalize(b)

MfaStep(b) ==
  \/ ChallengeEnds(b) \/ ChallengeWrong(b) \/ ChallengePassed(b)
  \/ MfaSetupEnds(b)
  \/ \E u \in Users : MfaSetup(b, u) \/ MfaEnable(b, u) \/ MfaDisable(b, u)

EndStep(b) ==
  \E u \in Users : \/ Logout(b, u) \/ ChangePassword(b, u)
                   \/ RowExpires(b, u) \/ IdleTimeout(b, u)

RegisterStep(b) ==
  \/ RegisterInsert(b) \/ RegisterLatest(b) \/ Void(b) \/ VoidDeadlocks(b) \/ Mint(b)
  \/ \E u \in Users : RegisterNew(b, u) \/ RegisterAgain(b, u) \/ Resend(b, u)

ConfirmStep(b) ==
  \/ ConfirmAgain(b) \/ ConfirmWrite(b) \/ ConfirmRolledBack(b)
  \/ \E u \in Users : \E t \in Links : ConfirmRead(b, u, t)

AdminStep ==
  \/ \E u \in Users : \/ CreateUser(u) \/ DeleteUser(u)
                      \/ ToggleRead(u) \/ EditRead(u)
  \/ AdminWrite \/ AdminRevoke \/ AdminDies

TimeStep ==
  \/ \E u \in Users : LockEnds(u)
  \/ \E u \in Users : \E t \in Links : LinkExpires(u, t)

Next ==
  \/ \E b \in Browsers : \/ LoginStep(b) \/ MfaStep(b) \/ EndStep(b)
                         \/ RegisterStep(b) \/ ConfirmStep(b)
  \/ AdminStep
  \/ TimeStep

Spec == Init /\ [][Next]_vars

\* A request that is being served is served to its end.
Fairness == \A b \in Browsers : WF_vars(LoginFail(b))

FairSpec == Spec /\ Fairness

-----------------------------------------------------------------------------
(* What must hold.                                                         *)

\* A confirmed account is not pushed back to waiting for its confirmation by
\* a registration, a resend or an edit that had loaded it unconfirmed, unless
\* an administrator had set its status before it was confirmed (register_post
\* and confirm_email on one account).
ConfirmedStaysConfirmed ==
  \A u \in Users :
    acct[u].verified /\ acct[u].status = "pending_verification"
      => "set_early" \in history[u]

\* An account an administrator disabled has no live session row, but for a row that
\* a sign-in under way added after it was disabled, rows that an
\* administrator's request still has to revoke or died before revoking, and
\* accounts whose status was set before they were confirmed (toggle_user,
\* edit_user, delete_user against _finalize_login).
DisabledHasNoSession ==
  \A u \in Users :
    ~acct[u].active /\ acct[u].status = "disabled" /\ RowsOf(u) # {}
      => \/ admin.op = "revoke" /\ admin.user = u
         \/ history[u] # {}

\* Failures that go on with no sign-in, although each is counted on a copy
\* that other failures may have overtaken, lock the account again and again
\* (the read and the write of failed_login_count in login_post).
NoClearing(u) == \A b \in Browsers : ~(req[b].pc = "final" /\ req[b].user = u)

FailuresLock ==
  \A u \in Subjects :
    (/\ []<>(\E b \in Browsers : req[b].pc = "fail" /\ req[b].user = u)
     /\ <>[]NoClearing(u)
     /\ <>[]Exists(u))
      => []<>(acct[u].lock = "set")

\* A lock in force ends only when its time has come, its account is deleted, or
\* a sign-in completes that had loaded a lock: one that was over (login_post)
\* or the very one (after a challenge or a link, which do not look at it).  A
\* sign-in that loaded the account before it was locked leaves the lock.
LockHolds ==
  [][\A u \in Users :
       acct[u].lock = "set" /\ acct'[u].lock # "set"
         => \/ acct'[u].lock = "over"
            \/ ~Exists(u)'
            \/ \E b \in Browsers :
                 req[b].pc = "final" /\ req[b].seen.lock # "none"]_vars

\* An enrolment confirmed with a right code has MFA on ("MFA enrollment and
\* challenge flow", README.md).
ConfirmedEnrolmentHolds ==
  \A b \in Browsers :
    cookie[b].enrol = "confirmed" => acct[cookie[b].user].mfa

=============================================================================
