------------------------------ MODULE SignInProofs ------------------------------
(***************************************************************************)
(* Theorems about accounts and browser sessions, for any users, browsers,  *)
(* links and limits.                                                       *)
(***************************************************************************)
EXTENDS SignIn, TLAPS

-----------------------------------------------------------------------------
(* The data.                                                               *)

LEMMA WrittenType ==
  ASSUME NEW current \in Account, NEW loaded \in Account, NEW new \in Account
  PROVE  Written(current, loaded, new) \in Account
<1>1. CASE current.st # "row"
  BY <1>1 DEF Written
<1>2. CASE current.st = "row"
  <2> DEFINE f == [c \in DOMAIN current |->
                     IF new[c] # loaded[c] THEN new[c] ELSE current[c]]
  <2>1. DOMAIN current = {"st", "active", "verified", "status", "self", "fails",
                          "lock", "mfa"}
    BY DEF Account
  <2>2. f = [st |-> f["st"], active |-> f["active"], verified |-> f["verified"],
             status |-> f["status"], self |-> f["self"], fails |-> f["fails"],
             lock |-> f["lock"], mfa |-> f["mfa"]]
    BY <2>1
  <2>3. /\ f["st"] \in {"none", "row", "gone"}
        /\ f["active"] \in BOOLEAN /\ f["verified"] \in BOOLEAN
        /\ f["status"] \in {"active", "pending_verification", "disabled"}
        /\ f["self"] \in BOOLEAN /\ f["mfa"] \in BOOLEAN
        /\ f["fails"] \in 0..(MaxAttempts - 1)
        /\ f["lock"] \in {"none", "set", "over"}
    BY <2>1 DEF Account
  <2>4. f \in Account
    BY <2>2, <2>3 DEF Account
  <2> QED
    BY <1>2, <2>4 DEF Written
<1> QED
  BY <1>1, <1>2

\* Column by column: what the commit sets is what it changed.
LEMMA WrittenColumns ==
  ASSUME NEW current \in Account, NEW loaded \in Account, NEW new \in Account
  PROVE  LET w == Written(current, loaded, new)
         IN  /\ current.st # "row" => w = current
             /\ current.st = "row" =>
                  /\ w.st = IF new.st # loaded.st THEN new.st ELSE current.st
                  /\ w.active = IF new.active # loaded.active THEN new.active
                                ELSE current.active
                  /\ w.verified = IF new.verified # loaded.verified
                                  THEN new.verified ELSE current.verified
                  /\ w.status = IF new.status # loaded.status THEN new.status
                                ELSE current.status
                  /\ w.lock = IF new.lock # loaded.lock THEN new.lock
                              ELSE current.lock
BY DEF Written, Account

\* A commit that changes nothing leaves the row as it is.
LEMMA WrittenNothing ==
  ASSUME NEW current \in Account, NEW loaded
  PROVE  Written(current, loaded, loaded) = current
<1>1. current = [c \in DOMAIN current |-> current[c]]
  BY DEF Account
<1> QED
  BY <1>1 DEF Written

LEMMA Defaults ==
  /\ NoAccount \in Account /\ Created \in Account /\ Registered \in Account
  /\ [NoAccount EXCEPT !.st = "gone"] \in Account
  /\ Anonymous \in Cookie
  /\ NoRequest \in Request
  /\ NoRequest.pc = "idle" /\ NoRequest.seen = NoAccount
  /\ \A n \in 0..MaxAdmin : /\ [NoAdmin EXCEPT !.left = n] \in AdminRequest
                            /\ [NoAdmin EXCEPT !.left = n].op = "idle"
                            /\ [NoAdmin EXCEPT !.left = n].seen = NoAccount
<1>1. 0 \in 0..(MaxAttempts - 1) /\ 0 \in 0..MaxCodes /\ 0 \in 0..MaxAdmin
  BY LimitsAssumption
<1>2. NoAccount \in Account
  BY <1>1 DEF NoAccount, Account
<1>3. (CHOOSE u \in Users : TRUE) \in Users
  BY NonEmptyAssumption
<1>4. /\ Created \in Account /\ Registered \in Account
      /\ [NoAccount EXCEPT !.st = "gone"] \in Account
  BY <1>1 DEF NoAccount, Created, Registered, Account
<1>5. Anonymous \in Cookie
  BY <1>1, <1>3 DEF Anonymous, Cookie
<1>6. NoRequest \in Request
  BY <1>2, <1>3 DEF NoRequest, Request
<1>7. ASSUME NEW n \in 0..MaxAdmin
      PROVE  /\ [NoAdmin EXCEPT !.left = n] \in AdminRequest
             /\ [NoAdmin EXCEPT !.left = n].op = "idle"
             /\ [NoAdmin EXCEPT !.left = n].seen = NoAccount
  BY <1>2, <1>3 DEF NoAdmin, AdminRequest
<1> QED
  BY <1>2, <1>4, <1>5, <1>6, <1>7 DEF NoRequest

Pcs == {"idle", "switched", "fail", "final", "reload", "insert", "latest",
        "void", "mint", "confirm"}

LEMMA AtType ==
  ASSUME NEW pc \in Pcs, NEW u \in Users, NEW seen \in Account
  PROVE  /\ At(pc, u, seen) \in Request
         /\ At(pc, u, seen).pc = pc /\ At(pc, u, seen).user = u
         /\ At(pc, u, seen).seen = seen
BY Defaults DEF At, NoRequest, Request, Pcs

\* One request, one cookie, one row at a time.
LEMMA AssignedReq ==
  ASSUME TypeOK, NEW b \in Browsers, NEW r \in Request, SetReq(b, r)
  PROVE  /\ req' \in [Browsers -> Request]
         /\ req'[b] = r /\ \A c \in Browsers \ {b} : req'[c] = req[c]
BY DEF SetReq, TypeOK

LEMMA AssignedCookie ==
  ASSUME TypeOK, NEW b \in Browsers, NEW c \in Cookie, SetCookie(b, c)
  PROVE  cookie' \in [Browsers -> Cookie]
BY DEF SetCookie, TypeOK

LEMMA AssignedAccount ==
  ASSUME TypeOK, NEW u \in Users, NEW a \in Account,
         acct' = [acct EXCEPT ![u] = a]
  PROVE  /\ acct' \in [Users -> Account]
         /\ acct'[u] = a /\ \A w \in Users \ {u} : acct'[w] = acct[w]
BY DEF TypeOK

LEMMA Stored ==
  ASSUME TypeOK, NEW u \in Users, NEW loaded \in Account, NEW new \in Account,
         Store(u, loaded, new)
  PROVE  /\ acct' \in [Users -> Account]
         /\ acct'[u] = Written(acct[u], loaded, new)
         /\ \A w \in Users \ {u} : acct'[w] = acct[w]
<1>1. Written(acct[u], loaded, new) \in Account
  BY WrittenType DEF TypeOK
<1> QED
  BY <1>1, AssignedAccount DEF Store

-----------------------------------------------------------------------------
(* Type correctness.                                                       *)

LEMMA Loaded ==
  ASSUME TypeOK, NEW b \in Browsers
  PROVE  /\ req[b] \in Request /\ req[b].user \in Users
         /\ req[b].seen \in Account /\ req[b].pc \in Pcs
         /\ acct[req[b].user] \in Account
         /\ cookie[b] \in Cookie /\ cookie[b].user \in Users
BY DEF TypeOK, Request, Cookie, Pcs

LEMMA FailsCleared ==
  ASSUME NEW a \in Account
  PROVE  [a EXCEPT !.fails = 0, !.lock = "none"] \in Account
<1>1. 0 \in 0..(MaxAttempts - 1)
  BY LimitsAssumption
<1> QED
  BY <1>1 DEF Account

LEMMA CountedType ==
  ASSUME NEW a \in Account
  PROVE  Counted(a) \in Account
<1>1. /\ a.fails \in Nat /\ 0 \in 0..(MaxAttempts - 1)
      /\ ~(a.fails + 1 >= MaxAttempts) => a.fails + 1 \in 0..(MaxAttempts - 1)
  BY LimitsAssumption DEF Account
<1>2. [a EXCEPT !.fails = 0, !.lock = "set"] \in Account
  BY <1>1 DEF Account
<1>3. \A n \in 0..(MaxAttempts - 1) : [a EXCEPT !.fails = n] \in Account
  BY DEF Account
<1> QED
  BY <1>1, <1>2, <1>3 DEF Counted

LEMMA LoginType ==
  ASSUME TypeOK, NEW b \in Browsers, LoginStep(b)
  PROVE  TypeOK'
<1>1. ASSUME NEW u \in Users, LoginSwitch(b, u)
      PROVE  TypeOK'
  <2>1. At("switched", u, NoAccount) \in Request
    BY AtType, Defaults DEF Pcs
  <2>2. req' \in [Browsers -> Request] /\ cookie' \in [Browsers -> Cookie]
    BY <1>1, <2>1, Defaults, AssignedReq, AssignedCookie DEF LoginSwitch
  <2> QED
    BY <1>1, <2>2 DEF LoginSwitch, LeaveRow, TypeOK
<1>2. ASSUME NEW u \in Users, LoginWrong(b, u)
      PROVE  TypeOK'
  <2>1. At("fail", u, acct[u]) \in Request
    BY AtType DEF Pcs, TypeOK
  <2>2. req' \in [Browsers -> Request]
    BY <1>2, <2>1, AssignedReq DEF LoginWrong
  <2> QED
    BY <1>2, <2>2 DEF LoginWrong, TypeOK
<1>3. ASSUME NEW u \in Users, LoginAccept(b, u)
      PROVE  TypeOK'
  <2>1. At("final", u, acct[u]) \in Request
    BY AtType DEF Pcs, TypeOK
  <2>2. req' \in [Browsers -> Request]
    BY <1>3, <2>1, AssignedReq DEF LoginAccept
  <2> QED
    BY <1>3, <2>2 DEF LoginAccept, TypeOK
<1>4. ASSUME NEW u \in Users, LoginChallenge(b, u)
      PROVE  TypeOK'
  <2>1. [Anonymous EXCEPT !.kind = "challenge", !.user = u] \in Cookie
    BY Defaults DEF Cookie
  <2>2. req' \in [Browsers -> Request] /\ cookie' \in [Browsers -> Cookie]
    BY <1>4, <2>1, Defaults, AssignedReq, AssignedCookie DEF LoginChallenge, Answer
  <2> QED
    BY <1>4, <2>2 DEF LoginChallenge, TypeOK
<1>5. CASE LoginRefused(b)
  <2>1. req' \in [Browsers -> Request]
    BY <1>5, Defaults, AssignedReq DEF LoginRefused, Answer
  <2> QED
    BY <1>5, <2>1 DEF LoginRefused, TypeOK
<1>6. CASE LoginFail(b)
  <2>1. Counted(req[b].seen) \in Account
    BY Loaded, CountedType
  <2>2. acct' \in [Users -> Account]
    BY <1>6, <2>1, Loaded, Stored DEF LoginFail
  <2>3. req' \in [Browsers -> Request]
    BY <1>6, Defaults, AssignedReq DEF LoginFail, Answer
  <2> QED
    BY <1>6, <2>2, <2>3 DEF LoginFail, TypeOK
<1>7. CASE Reload(b)
  <2>1. At("final", req[b].user, acct[req[b].user]) \in Request
    BY AtType, Loaded DEF Pcs
  <2>2. req' \in [Browsers -> Request]
    BY <1>7, <2>1, Defaults, AssignedReq DEF Reload, Answer
  <2> QED
    BY <1>7, <2>2 DEF Reload, TypeOK
<1>8. CASE Finalize(b)
  <2> DEFINE u == req[b].user
             a == req[b].seen
             n == [a EXCEPT !.fails = 0, !.lock = "none"]
             c == [Anonymous EXCEPT !.kind = "user", !.user = u]
  <2>1. n \in Account
    BY Loaded, FailsCleared
  <2>2. c \in Cookie
    BY Loaded, Defaults DEF Cookie
  <2>3. req' \in [Browsers -> Request]
    BY <1>8, Defaults, AssignedReq DEF Finalize, Answer
  <2>4. acct' \in [Users -> Account]
    <3>1. CASE Exists(u)
      BY <1>8, <2>1, <3>1, Loaded, Stored DEF Finalize
    <3>2. CASE ~Exists(u)
      BY <1>8, <3>2 DEF Finalize, TypeOK
    <3> QED
      BY <3>1, <3>2
  <2>5. cookie' \in [Browsers -> Cookie]
    BY <1>8, <2>2, Defaults, AssignedCookie DEF Finalize
  <2>6. live' \subseteq Browsers \X Users
    BY <1>8, Loaded DEF Finalize, TypeOK
  <2>7. history' \in [Users -> SUBSET Excuses]
    BY <1>8, Loaded DEF Finalize, TypeOK, Excuses
  <2> QED
    BY <1>8, <2>3, <2>4, <2>5, <2>6, <2>7 DEF Finalize, TypeOK
<1> QED
  BY <1>1, <1>2, <1>3, <1>4, <1>5, <1>6, <1>7, <1>8 DEF LoginStep

LEMMA MfaType ==
  ASSUME TypeOK, NEW b \in Browsers, MfaStep(b)
  PROVE  TypeOK'
<1>0. /\ cookie[b] \in Cookie
      /\ \A e \in {"none", "started", "confirmed"} :
           [cookie[b] EXCEPT !.enrol = e] \in Cookie
  BY Loaded DEF Cookie
<1>1. CASE ChallengeEnds(b)
  <2>1. cookie' \in [Browsers -> Cookie]
    BY <1>1, Defaults, AssignedCookie DEF ChallengeEnds
  <2> QED
    BY <1>1, <2>1 DEF ChallengeEnds, TypeOK
<1>2. CASE ChallengeWrong(b)
  <2> DEFINE n == cookie[b].codes + 1
             c == IF n >= MaxCodes THEN Anonymous
                  ELSE [cookie[b] EXCEPT !.codes = n]
  <2>1. c \in Cookie
    BY <1>0, Defaults, LimitsAssumption DEF Cookie
  <2>2. SetCookie(b, c)
    BY <1>2 DEF ChallengeWrong
  <2> HIDE DEF c
  <2>3. cookie' \in [Browsers -> Cookie]
    BY <2>1, <2>2, AssignedCookie
  <2> QED
    BY <1>2, <2>3 DEF ChallengeWrong, TypeOK
<1>3. CASE ChallengePassed(b)
  <2>1. At("reload", cookie[b].user, NoAccount) \in Request
    BY AtType, Defaults, Loaded DEF Pcs
  <2>2. req' \in [Browsers -> Request] /\ cookie' \in [Browsers -> Cookie]
    BY <1>3, <2>1, Defaults, AssignedReq, AssignedCookie DEF ChallengePassed
  <2> QED
    BY <1>3, <2>2 DEF ChallengePassed, TypeOK
<1>4. CASE MfaSetupEnds(b)
  <2>1. cookie' \in [Browsers -> Cookie]
    BY <1>0, <1>4, AssignedCookie DEF MfaSetupEnds
  <2> QED
    BY <1>4, <2>1 DEF MfaSetupEnds, TypeOK
<1>5. ASSUME NEW u \in Users, MfaSetup(b, u)
      PROVE  TypeOK'
  <2>1. cookie' \in [Browsers -> Cookie]
    BY <1>0, <1>5, AssignedCookie DEF MfaSetup
  <2> QED
    BY <1>5, <2>1 DEF MfaSetup, TypeOK
<1>6. ASSUME NEW u \in Users, MfaEnable(b, u)
      PROVE  TypeOK'
  <2>1. cookie' \in [Browsers -> Cookie]
    BY <1>0, <1>6, AssignedCookie DEF MfaEnable
  <2>2. acct' \in [Users -> Account]
    BY <1>6 DEF MfaEnable, EnableOutcome, TypeOK
  <2> QED
    BY <1>6, <2>1, <2>2 DEF MfaEnable, TypeOK
<1>7. ASSUME NEW u \in Users, MfaDisable(b, u)
      PROVE  TypeOK'
  <2>1. cookie' \in [Browsers -> Cookie]
    BY <1>0, <1>7, AssignedCookie DEF MfaDisable
  <2>2. [acct[u] EXCEPT !.mfa = FALSE] \in Account
    BY DEF TypeOK, Account
  <2>3. acct' \in [Users -> Account]
    BY <1>7, <2>2 DEF MfaDisable, TypeOK
  <2> QED
    BY <1>7, <2>1, <2>3 DEF MfaDisable, TypeOK
<1> QED
  BY <1>1, <1>2, <1>3, <1>4, <1>5, <1>6, <1>7 DEF MfaStep

LEMMA EndType ==
  ASSUME TypeOK, NEW b \in Browsers, EndStep(b)
  PROVE  TypeOK'
<1>1. PICK u \in Users : \/ Logout(b, u) \/ ChangePassword(b, u)
                         \/ RowExpires(b, u) \/ IdleTimeout(b, u)
  BY DEF EndStep
<1>2. cookie' \in [Browsers -> Cookie]
  BY <1>1, Defaults, AssignedCookie
     DEF Logout, ChangePassword, RowExpires, IdleTimeout, TypeOK
<1>3. live' \subseteq live /\ UNCHANGED <<scene, acct, links, req, admin, history>>
  BY <1>1 DEF Logout, LeaveRow, ChangePassword, RowExpires, IdleTimeout
<1> QED
  BY <1>2, <1>3 DEF TypeOK

\* Locking and voiding tokens changes no more than what the request holds.
LEMMA TokenMoves ==
  ASSUME TypeOK, NEW b \in Browsers,
         RegisterLatest(b) \/ Void(b) \/ VoidDeadlocks(b)
  PROVE  /\ UNCHANGED <<scene, acct, links, live, cookie, admin, history>>
         /\ req[b].pc \in {"latest", "void"}
         /\ \/ Answer(b)
            \/ \E r \in Request : /\ SetReq(b, r)
                                 /\ r.user = req[b].user /\ r.seen = req[b].seen
                                 /\ r.pc \in {"void", "mint"}
<1>0. req[b] \in Request
  BY Loaded
<1>1. links[req[b].user] \in SUBSET Links
  BY <1>0 DEF TypeOK, Request
<1>2. ASSUME NEW pc \in {"void", "mint"}, NEW s \in SUBSET Links
      PROVE  /\ [req[b] EXCEPT !.pc = pc, !.set = s] \in Request
             /\ [req[b] EXCEPT !.pc = pc, !.set = s].user = req[b].user
             /\ [req[b] EXCEPT !.pc = pc, !.set = s].seen = req[b].seen
             /\ [req[b] EXCEPT !.pc = pc, !.set = s].pc = pc
  BY <1>0 DEF Request
<1>3. /\ [req[b] EXCEPT !.pc = "void"] = [req[b] EXCEPT !.pc = "void", !.set = req[b].set]
      /\ req[b].set \in SUBSET Links
  BY <1>0 DEF Request
<1>4. CASE RegisterLatest(b)
  <2>1. \/ Answer(b)
        \/ \E s \in SUBSET Links :
             SetReq(b, [req[b] EXCEPT !.pc = "void", !.set = s])
    BY <1>1, <1>3, <1>4 DEF RegisterLatest
  <2> QED
    BY <1>2, <1>4, <2>1 DEF RegisterLatest
<1>5. CASE Void(b)
  BY <1>1, <1>2, <1>5 DEF Void
<1>6. CASE VoidDeadlocks(b)
  BY <1>6 DEF VoidDeadlocks
<1> QED
  BY <1>4, <1>5, <1>6

LEMMA RegisterType ==
  ASSUME TypeOK, NEW b \in Browsers, RegisterStep(b)
  PROVE  TypeOK'
<1>0. \A u \in Users : /\ acct[u] \in Account
                       /\ links[u] \in SUBSET Links
                       /\ At("insert", u, NoAccount) \in Request
                       /\ At("void", u, NoAccount) \in Request
                       /\ At("latest", u, acct[u]) \in Request
  BY AtType, Defaults DEF Pcs, TypeOK
<1>1. CASE RegisterInsert(b)
  <2>1. req' \in [Browsers -> Request]
    BY <1>0, <1>1, Loaded, Defaults, AssignedReq DEF RegisterInsert, Answer
  <2>2. acct' \in [Users -> Account]
    BY <1>1, Loaded, Defaults, AssignedAccount DEF RegisterInsert, TypeOK
  <2> QED
    BY <1>1, <2>1, <2>2 DEF RegisterInsert, TypeOK
<1>2. CASE RegisterLatest(b) \/ Void(b) \/ VoidDeadlocks(b)
  <2>1. req' \in [Browsers -> Request]
    BY <1>2, TokenMoves, Defaults, AssignedReq DEF Answer
  <2> QED
    BY <1>2, <2>1, TokenMoves DEF TypeOK
<1>3. CASE Mint(b)
  <2> DEFINE u == req[b].user
             a == req[b].seen
             free == Links \ (links[u] \cup UNION {req[c].set : c \in Browsers})
             n == [a EXCEPT !.active = FALSE, !.status = "pending_verification"]
  <2>1. req' \in [Browsers -> Request]
    BY <1>3, Defaults, AssignedReq DEF Mint, Answer
  <2>2. n \in Account
    BY Loaded DEF Account
  <2>3. acct' \in [Users -> Account]
    <3>1. Rejoined(acct[u], a) \in Account
      BY <2>2, Loaded, WrittenType DEF Rejoined
    <3> QED
      BY <1>3, <3>1, Loaded, AssignedAccount DEF Mint, TypeOK
  <2>4. links' \in [Users -> SUBSET Links]
    <3>1. CASE Exists(u)
      <4>1. /\ free # {}
            /\ links' = [links EXCEPT ![u] =
                          (@ \ req[b].set) \cup {CHOOSE t \in free : TRUE}]
        BY <1>3, <3>1 DEF Mint
      <4>2. (CHOOSE t \in free : TRUE) \in Links
        BY <4>1
      <4> HIDE DEF free
      <4> QED
        BY <1>0, <4>1, <4>2, Loaded DEF TypeOK
    <3>2. CASE ~Exists(u)
      BY <1>3, <3>2 DEF Mint, TypeOK
    <3> QED
      BY <3>1, <3>2
  <2> QED
    BY <1>3, <2>1, <2>3, <2>4 DEF Mint, TypeOK
<1>4. ASSUME NEW u \in Users, RegisterNew(b, u) \/ RegisterAgain(b, u) \/ Resend(b, u)
      PROVE  TypeOK'
  <2>1. req' \in [Browsers -> Request]
    BY <1>0, <1>4, AssignedReq DEF RegisterNew, RegisterAgain, Resend
  <2> QED
    BY <1>4, <2>1 DEF RegisterNew, RegisterAgain, Resend, TypeOK
<1> QED
  BY <1>1, <1>2, <1>3, <1>4 DEF RegisterStep

LEMMA ConfirmType ==
  ASSUME TypeOK, NEW b \in Browsers, ConfirmStep(b)
  PROVE  TypeOK'
<1>0. At("reload", req[b].user, NoAccount) \in Request
  BY AtType, Defaults, Loaded DEF Pcs
<1>1. ASSUME NEW u \in Users, NEW t \in Links, ConfirmRead(b, u, t)
      PROVE  TypeOK'
  <2>1. [At("confirm", u, acct[u]) EXCEPT !.set = {t}] \in Request
    <3>1. At("confirm", u, acct[u]) \in Request
      BY AtType DEF Pcs, TypeOK
    <3> QED
      BY <3>1 DEF Request
  <2>2. req' \in [Browsers -> Request]
    BY <1>1, <2>1, AssignedReq DEF ConfirmRead
  <2> QED
    BY <1>1, <2>2 DEF ConfirmRead, TypeOK
<1>2. CASE ConfirmAgain(b)
  <2>1. req' \in [Browsers -> Request]
    BY <1>2, Defaults, AssignedReq DEF ConfirmAgain, Answer
  <2>2. links' \in [Users -> SUBSET Links]
    BY <1>2, Loaded DEF ConfirmAgain, TypeOK
  <2> QED
    BY <1>2, <2>1, <2>2 DEF ConfirmAgain, TypeOK
<1>3. CASE ConfirmWrite(b)
  <2> DEFINE u == req[b].user
             a == req[b].seen
             n == [a EXCEPT !.verified = TRUE, !.active = TRUE,
                            !.status = "active"]
  <2>1. n \in Account
    BY Loaded DEF Account
  <2>2. req' \in [Browsers -> Request]
    BY <1>0, <1>3, Defaults, AssignedReq DEF ConfirmWrite, Answer
  <2>3. CASE Exists(u)
    <3>1. acct' \in [Users -> Account]
      BY <1>3, <2>1, <2>3, Loaded, Stored DEF ConfirmWrite
    <3>2. links' \in [Users -> SUBSET Links]
      BY <1>3, <2>3 DEF ConfirmWrite, TypeOK
    <3> QED
      BY <1>3, <2>2, <3>1, <3>2 DEF ConfirmWrite, TypeOK
  <2>4. CASE ~Exists(u)
    BY <1>3, <2>2, <2>4 DEF ConfirmWrite, TypeOK
  <2> QED
    BY <2>3, <2>4
<1>4. CASE ConfirmRolledBack(b)
  <2>1. req' \in [Browsers -> Request]
    BY <1>0, <1>4, AssignedReq DEF ConfirmRolledBack
  <2> QED
    BY <1>4, <2>1 DEF ConfirmRolledBack, TypeOK
<1> QED
  BY <1>1, <1>2, <1>3, <1>4 DEF ConfirmStep

LEMMA BeginType ==
  ASSUME TypeOK, NEW op \in {"toggle", "edit"}, NEW u \in Users,
         NEW new \in Account, Begin(op, u, new)
  PROVE  /\ admin' \in AdminRequest
         /\ admin.op = "idle" /\ Exists(u)
         /\ admin'.op = op /\ admin'.user = u /\ admin'.seen = acct[u]
         /\ admin'.new = new
<1>1. admin.left - 1 \in 0..MaxAdmin /\ acct[u] \in Account
  BY LimitsAssumption DEF Begin, TypeOK, AdminRequest
<1> QED
  BY <1>1 DEF Begin, AdminRequest

LEMMA AdminEndsType ==
  ASSUME TypeOK, AdminEnds
  PROVE  /\ admin' \in AdminRequest /\ admin'.op = "idle"
         /\ admin'.seen = NoAccount
<1>1. admin.left \in 0..MaxAdmin
  BY DEF TypeOK, AdminRequest
<1> QED
  BY <1>1, Defaults DEF AdminEnds

LEMMA AdminType ==
  ASSUME TypeOK, AdminStep
  PROVE  TypeOK'
<1>0. /\ admin.user \in Users /\ admin.seen \in Account /\ admin.new \in Account
      /\ acct[admin.user] \in Account
      /\ history[admin.user] \in SUBSET Excuses
  BY DEF TypeOK, AdminRequest
<1>1. ASSUME NEW u \in Users, CreateUser(u)
      PROVE  TypeOK'
  BY <1>1, Defaults DEF CreateUser, TypeOK
<1>2. ASSUME NEW u \in Users, DeleteUser(u)
      PROVE  TypeOK'
  BY <1>2, Defaults DEF DeleteUser, TypeOK
<1>3. ASSUME NEW u \in Users, ToggleRead(u)
      PROVE  TypeOK'
  <2>1. [acct[u] EXCEPT !.active = ~@, !.status = StatusFor(~acct[u].active)]
          \in Account
    BY DEF TypeOK, Account, StatusFor
  <2>2. admin' \in AdminRequest
    BY <1>3, <2>1, BeginType DEF ToggleRead
  <2> QED
    BY <1>3, <2>2 DEF ToggleRead, TypeOK
<1>4. ASSUME NEW u \in Users, EditRead(u)
      PROVE  TypeOK'
  <2>1. \A active, verified \in BOOLEAN :
          [acct[u] EXCEPT !.active = active, !.verified = verified,
                          !.status = StatusFor(active)] \in Account
    BY DEF TypeOK, Account, StatusFor
  <2>2. admin' \in AdminRequest
    BY <1>4, <2>1, BeginType DEF EditRead
  <2> QED
    BY <1>4, <2>2 DEF EditRead, TypeOK
<1>5. CASE AdminWrite
  <2> DEFINE a == Written(acct[admin.user], admin.seen, admin.new)
  <2>1. a \in Account
    BY <1>0, WrittenType
  <2>2. acct' = [acct EXCEPT ![admin.user] = a]
    BY <1>5 DEF AdminWrite
  <2>3. history' \in [Users -> SUBSET Excuses]
    BY <1>0, <1>5 DEF AdminWrite, TypeOK, Excuses
  <2> HIDE DEF a
  <2>4. acct' \in [Users -> Account]
    BY <1>0, <2>1, <2>2, AssignedAccount
  <2>5. admin' \in AdminRequest
    <3>1. [admin EXCEPT !.op = "revoke"] \in AdminRequest
      BY DEF TypeOK, AdminRequest
    <3> QED
      BY <1>5, <3>1, AdminEndsType DEF AdminWrite
  <2> QED
    BY <1>5, <2>3, <2>4, <2>5 DEF AdminWrite, TypeOK
<1>6. CASE AdminRevoke
  BY <1>6, AdminEndsType DEF AdminRevoke, TypeOK
<1>7. CASE AdminDies
  <2>1. history' \in [Users -> SUBSET Excuses]
    BY <1>0, <1>7 DEF AdminDies, TypeOK, Excuses
  <2> QED
    BY <1>7, <2>1, AdminEndsType DEF AdminDies, TypeOK
<1> QED
  BY <1>1, <1>2, <1>3, <1>4, <1>5, <1>6, <1>7 DEF AdminStep

LEMMA TimeType ==
  ASSUME TypeOK, TimeStep
  PROVE  TypeOK'
<1>1. ASSUME NEW u \in Users, LockEnds(u)
      PROVE  TypeOK'
  <2>1. [acct[u] EXCEPT !.lock = "over"] \in Account
    BY DEF TypeOK, Account
  <2>2. acct' \in [Users -> Account]
    BY <1>1, <2>1 DEF LockEnds, TypeOK
  <2> QED
    BY <1>1, <2>2 DEF LockEnds, TypeOK
<1>2. ASSUME NEW u \in Users, NEW t \in Links, LinkExpires(u, t)
      PROVE  TypeOK'
  BY <1>2 DEF LinkExpires, TypeOK
<1> QED
  BY <1>1, <1>2 DEF TimeStep

LEMMA TypeInit == Init => TypeOK
<1> SUFFICES ASSUME Init PROVE TypeOK
  OBVIOUS
<1>1. scene \in Scene
  BY ScenesAssumption DEF Init
<1>2. acct \in [Users -> Account]
  BY <1>1, Defaults DEF Init, Scene
<1>3. admin \in AdminRequest
  BY <1>1, Defaults DEF Init, Scene
<1> QED
  BY <1>2, <1>3, Defaults DEF Init, TypeOK

LEMMA TypeStep ==
  ASSUME TypeOK, [Next]_vars
  PROVE  TypeOK'
<1>1. CASE UNCHANGED vars
  BY <1>1 DEF vars, TypeOK
<1>2. CASE Next
  BY <1>2, LoginType, MfaType, EndType, RegisterType, ConfirmType, AdminType,
     TimeType DEF Next
<1> QED
  BY <1>1, <1>2

\* The state is of its type: accounts, links and session rows of known users,
\* and cookies and requests that hold what they loaded (the rows of User,
\* UserSession and EmailVerificationToken, and the requests on them).
THEOREM TypeCorrect == Spec => []TypeOK
<1>1. TypeOK /\ [Next]_vars => TypeOK'
  BY TypeStep
<1> QED
  BY TypeInit, <1>1, PTL DEF Spec

-----------------------------------------------------------------------------
(* Accounts, requests and the administrator.                               *)

\* An account as the application means it, with the excuses h: an address
\* without a row has nothing, and an account that is not confirmed is inactive
\* and waits for its confirmation, unless its status had been set before.
Regular(a, h) ==
  /\ a.st # "row" => /\ ~a.active /\ ~a.verified
                     /\ a.status = "disabled" /\ a.lock = "none"
  /\ a.st = "row" /\ ~a.verified =>
       \/ ~a.active /\ a.status = "pending_verification"
       \/ "set_early" \in h

Confirmed(a, h) ==
  a.verified /\ a.status = "pending_verification" => "set_early" \in h

\* A row that is neither active nor pending has no session, or an excuse.
Signed(u) ==
  ~acct[u].active /\ acct[u].status = "disabled" /\ RowsOf(u) # {}
    => \/ admin.op = "revoke" /\ admin.user = u
       \/ history[u] # {}

UserOK(u) == /\ Regular(acct[u], history[u]) /\ Confirmed(acct[u], history[u])
             /\ Signed(u)

\* A registration sets a row it found unconfirmed.
RequestOK(b) ==
  /\ Regular(req[b].seen, history[req[b].user])
  /\ req[b].pc \in {"latest", "void", "mint"} /\ req[b].seen.st = "row"
       => ~req[b].seen.verified

\* A toggle or an edit loaded a row, and sets neither its lock nor pending.
AdminOK ==
  /\ Regular(admin.seen, history[admin.user])
  /\ admin.op \in {"toggle", "edit"} =>
       /\ admin.seen.st = "row"
       /\ admin.new.status # "pending_verification"
       /\ admin.new.lock = admin.seen.lock /\ admin.new.st = admin.seen.st

SignInInv == /\ TypeOK
             /\ \A u \in Users : UserOK(u)
             /\ \A b \in Browsers : RequestOK(b)
             /\ AdminOK

LEMMA RegularDefaults ==
  ASSUME NEW h
  PROVE  /\ Regular(NoAccount, h) /\ Regular([NoAccount EXCEPT !.st = "gone"], h)
         /\ Regular(Created, h) /\ Confirmed(Created, h)
         /\ Confirmed([NoAccount EXCEPT !.st = "gone"], h)
         /\ Regular(Registered, h) /\ Confirmed(Registered, h)
BY DEF Regular, Confirmed, NoAccount, Created, Registered

\* What registration stores: nothing, when all has gone its way.
LEMMA RejoinedRegular ==
  ASSUME NEW current \in Account, NEW loaded \in Account, NEW h,
         Regular(current, h), Confirmed(current, h), Regular(loaded, h),
         loaded.st = "row", ~loaded.verified
  PROVE  LET w == Rejoined(current, loaded)
         IN  /\ Regular(w, h) /\ Confirmed(w, h)
             /\ w = current \/ "set_early" \in h
             /\ w.lock = current.lock
<1> DEFINE new == [loaded EXCEPT !.active = FALSE,
                                 !.status = "pending_verification"]
           w   == Written(current, loaded, new)
<1>1. new \in Account
  BY DEF Account
<1>2. /\ new.st = loaded.st /\ new.verified = loaded.verified
      /\ new.lock = loaded.lock
  BY DEF Account
<1>3. CASE "set_early" \in h
  <2> HIDE DEF new
  <2>1. w.lock = current.lock /\ w.st = current.st
        /\ (current.st # "row" => w = current)
    BY <1>1, <1>2, WrittenColumns
  <2> HIDE DEF w
  <2>2. Regular(w, h) /\ Confirmed(w, h)
    BY <1>3, <2>1 DEF Regular, Confirmed
  <2> QED
    BY <1>3, <2>1, <2>2 DEF Rejoined, w, new
<1>4. CASE "set_early" \notin h
  <2>1. ~loaded.active /\ loaded.status = "pending_verification"
    BY <1>4 DEF Regular
  <2>2. new = loaded
    BY <2>1 DEF Account
  <2>3. w = current
    BY <2>2, WrittenNothing
  <2> QED
    BY <2>3 DEF Rejoined
<1> QED
  BY <1>3, <1>4

\* What a confirmation stores.
LEMMA ConfirmedRegular ==
  ASSUME NEW current \in Account, NEW loaded \in Account, NEW h,
         Regular(loaded, h), current.st = "row", ~loaded.verified
  PROVE  LET w == Written(current, loaded,
                          [loaded EXCEPT !.verified = TRUE, !.active = TRUE,
                                         !.status = "active"])
         IN  /\ Regular(w, h) /\ Confirmed(w, h)
             /\ w.active \/ "set_early" \in h
             /\ w.lock = current.lock
<1> DEFINE new == [loaded EXCEPT !.verified = TRUE, !.active = TRUE,
                                 !.status = "active"]
           w   == Written(current, loaded, new)
<1>1. /\ new \in Account /\ new.st = loaded.st /\ new.lock = loaded.lock
      /\ new.verified = TRUE /\ new.active = TRUE /\ new.status = "active"
      /\ loaded.verified = FALSE
  BY DEF Account
<1> HIDE DEF new
<1>2. /\ w.st = "row" /\ w.verified = TRUE /\ w.lock = current.lock
      /\ w.active = IF new.active # loaded.active THEN new.active
                    ELSE current.active
      /\ w.status = IF new.status # loaded.status THEN new.status
                    ELSE current.status
  BY <1>1, WrittenColumns
<1>3. "set_early" \in h \/ (w.active /\ w.status = "active")
  BY <1>1, <1>2 DEF Regular
<1> HIDE DEF w
<1>4. Regular(w, h) /\ Confirmed(w, h) /\ (w.active \/ "set_early" \in h)
  BY <1>2, <1>3 DEF Regular, Confirmed
<1> QED
  BY <1>2, <1>4 DEF w, new

\* What a toggle or an edit stores.
LEMMA EditedRegular ==
  ASSUME NEW current \in Account, NEW loaded \in Account, NEW new \in Account,
         NEW h,
         Regular(current, h), Confirmed(current, h), Regular(loaded, h),
         loaded.st = "row", new.st = loaded.st, new.lock = loaded.lock,
         new.status # "pending_verification"
  PROVE  LET w  == Written(current, loaded, new)
             h2 == IF ~w.verified THEN h \cup {"set_early"} ELSE h
         IN  Regular(w, h2) /\ Confirmed(w, h2) /\ w.lock = current.lock
<1> DEFINE w  == Written(current, loaded, new)
           h2 == IF ~w.verified THEN h \cup {"set_early"} ELSE h
<1>1. CASE current.st # "row"
  BY <1>1, WrittenColumns DEF Regular, Confirmed
<1>2. CASE current.st = "row"
  <2>1. /\ w.st = "row" /\ w.lock = current.lock
        /\ w.verified = IF new.verified # loaded.verified THEN new.verified
                        ELSE current.verified
        /\ w.status = IF new.status # loaded.status THEN new.status
                      ELSE current.status
    BY <1>2, WrittenColumns
  <2> HIDE DEF w
  <2>2. Regular(w, h2)
    BY <2>1 DEF Regular
  <2>3. Confirmed(w, h2)
    BY <2>1 DEF Confirmed, Regular, Account
  <2> QED
    BY <2>1, <2>2, <2>3 DEF w
<1> QED
  BY <1>1, <1>2

\* A commit that sets neither existence, nor activity, nor confirmation.
LEMMA WrittenBeside ==
  ASSUME NEW current \in Account, NEW loaded \in Account, NEW new \in Account,
         NEW h, Regular(current, h), Confirmed(current, h),
         new.st = loaded.st, new.active = loaded.active,
         new.verified = loaded.verified, new.status = loaded.status
  PROVE  LET w == Written(current, loaded, new)
         IN  /\ Regular(w, h) /\ Confirmed(w, h)
             /\ w.active = current.active /\ w.status = current.status
             /\ w.lock = IF current.st = "row" /\ new.lock # loaded.lock
                         THEN new.lock ELSE current.lock
<1> DEFINE w == Written(current, loaded, new)
<1>1. /\ w.st = current.st /\ w.active = current.active
      /\ w.verified = current.verified /\ w.status = current.status
      /\ w.lock = IF current.st = "row" /\ new.lock # loaded.lock
                  THEN new.lock ELSE current.lock
  BY WrittenColumns
<1> HIDE DEF w
<1>2. Regular(w, h) /\ Confirmed(w, h)
  BY <1>1 DEF Regular, Confirmed
<1> QED
  BY <1>1, <1>2 DEF w

-----------------------------------------------------------------------------
(* What a step leaves alone stays well.                                    *)

LEMMA RegularGrows ==
  ASSUME NEW a, NEW h, NEW h2, h \subseteq h2, Regular(a, h)
  PROVE  Regular(a, h2)
BY DEF Regular

HistoryGrows == \A u \in Users : history[u] \subseteq history'[u]

LEMMA UserKept ==
  ASSUME NEW w \in Users, UserOK(w), acct'[w] = acct[w],
         history'[w] = history[w], RowsOf(w)' \subseteq RowsOf(w),
         admin.op = "revoke" /\ admin.user = w
           => admin'.op = "revoke" /\ admin'.user = w
  PROVE  UserOK(w)'
BY DEF UserOK, Signed

LEMMA RequestKept ==
  ASSUME TypeOK, NEW b \in Browsers, RequestOK(b), req'[b] = req[b], HistoryGrows
  PROVE  RequestOK(b)'
<1>1. history[req[b].user] \subseteq history'[req[b].user]
  BY Loaded DEF HistoryGrows
<1>2. Regular(req[b].seen, history'[req[b].user])
  BY <1>1, RegularGrows DEF RequestOK
<1> QED
  BY <1>2 DEF RequestOK

LEMMA AdminKept ==
  ASSUME TypeOK, AdminOK, UNCHANGED admin, HistoryGrows
  PROVE  AdminOK'
<1>1. history[admin.user] \subseteq history'[admin.user]
  BY DEF HistoryGrows, TypeOK, AdminRequest
<1>2. Regular(admin.seen, history'[admin.user])
  BY <1>1, RegularGrows DEF AdminOK
<1> QED
  BY <1>2 DEF AdminOK

\* A step of one browser's request, on one account.
LEMMA BrowserStep ==
  ASSUME SignInInv, TypeOK', NEW b \in Browsers, NEW u \in Users,
         \A c \in Browsers \ {b} : req'[c] = req[c],
         \A w \in Users \ {u} : /\ acct'[w] = acct[w] /\ history'[w] = history[w]
                                /\ RowsOf(w)' \subseteq RowsOf(w),
         history[u] \subseteq history'[u], UNCHANGED admin,
         UserOK(u)', RequestOK(b)'
  PROVE  SignInInv'
<1>1. HistoryGrows
  BY DEF HistoryGrows
<1>2. \A w \in Users : UserOK(w)'
  BY UserKept DEF SignInInv
<1>3. \A c \in Browsers : RequestOK(c)'
  BY <1>1, RequestKept DEF SignInInv
<1>4. AdminOK'
  BY <1>1, AdminKept DEF SignInInv
<1> QED
  BY <1>2, <1>3, <1>4 DEF SignInInv

\* A step that at most ends sessions, beside the request.
LEMMA QuietStep ==
  ASSUME SignInInv, TypeOK', NEW b \in Browsers,
         \A c \in Browsers \ {b} : req'[c] = req[c],
         UNCHANGED <<acct, history, admin>>, live' \subseteq live,
         RequestOK(b)'
  PROVE  SignInInv'
<1>1. \A w \in Users : RowsOf(w)' \subseteq RowsOf(w)
  BY DEF RowsOf
<1>2. \A w \in Users : UserOK(w)'
  BY <1>1, UserKept DEF SignInInv
<1>3. PICK u \in Users : TRUE
  BY NonEmptyAssumption
<1> QED
  BY <1>1, <1>2, <1>3, BrowserStep

\* The request that a browser goes on with.
LEMMA NewRequestOK ==
  ASSUME TypeOK, NEW b \in Browsers, NEW r \in Request, SetReq(b, r),
         Regular(r.seen, history'[r.user]),
         r.pc \in {"latest", "void", "mint"} /\ r.seen.st = "row"
           => ~r.seen.verified
  PROVE  RequestOK(b)' /\ \A c \in Browsers \ {b} : req'[c] = req[c]
BY AssignedReq DEF RequestOK

LEMMA FreshRequestOK ==
  ASSUME TypeOK, NEW b \in Browsers, NEW pc \in Pcs, NEW u \in Users,
         SetReq(b, At(pc, u, NoAccount)) \/ Answer(b)
  PROVE  RequestOK(b)' /\ \A c \in Browsers \ {b} : req'[c] = req[c]
<1>1. NoAccount.st # "row"
  BY DEF NoAccount
<1>2. CASE SetReq(b, At(pc, u, NoAccount))
  BY <1>1, <1>2, AtType, Defaults, RegularDefaults, NewRequestOK
<1>3. CASE Answer(b)
  BY <1>1, <1>3, Defaults, RegularDefaults, NewRequestOK DEF Answer
<1> QED
  BY <1>2, <1>3

LEMMA AnsweredOK ==
  ASSUME TypeOK, NEW b \in Browsers, Answer(b)
  PROVE  RequestOK(b)' /\ \A c \in Browsers \ {b} : req'[c] = req[c]
<1>1. PICK u \in Users : TRUE
  BY NonEmptyAssumption
<1> QED
  BY <1>1, FreshRequestOK DEF Pcs

\* A request that loads the account of u.
LEMMA LoadingOK ==
  ASSUME SignInInv, NEW b \in Browsers, NEW pc \in Pcs, NEW u \in Users,
         SetReq(b, At(pc, u, acct[u])), UNCHANGED history,
         pc \in {"latest", "void", "mint"} => ~acct[u].verified
  PROVE  RequestOK(b)' /\ \A c \in Browsers \ {b} : req'[c] = req[c]
<1>1. Regular(acct[u], history'[u]) /\ acct[u] \in Account /\ TypeOK
  BY DEF SignInInv, UserOK, TypeOK
<1> QED
  BY <1>1, AtType, NewRequestOK

-----------------------------------------------------------------------------
(* The steps.                                                              *)

\* What a step may do to a lock.
LockKept(u) ==
  acct[u].lock = "set" /\ acct'[u].lock # "set"
    => \/ acct'[u].lock = "over"
       \/ ~Exists(u)'
       \/ \E b \in Browsers : req[b].pc = "final" /\ req[b].seen.lock # "none"

StepOK == SignInInv' /\ \A u \in Users : LockKept(u)

LEMMA LockSame ==
  ASSUME UNCHANGED acct
  PROVE  \A u \in Users : LockKept(u)
BY DEF LockKept

LEMMA LoginInvStep ==
  ASSUME SignInInv, NEW b \in Browsers, LoginStep(b)
  PROVE  StepOK
<1>0. TypeOK /\ TypeOK'
  BY LoginType DEF SignInInv
<1>1. ASSUME NEW u \in Users, LoginSwitch(b, u)
      PROVE  StepOK
  <2>1. RequestOK(b)' /\ \A c \in Browsers \ {b} : req'[c] = req[c]
    BY <1>0, <1>1, FreshRequestOK DEF LoginSwitch, Pcs
  <2>2. UNCHANGED <<acct, history, admin>> /\ live' \subseteq live
    BY <1>1 DEF LoginSwitch, LeaveRow
  <2> QED
    BY <1>0, <2>1, <2>2, QuietStep, LockSame DEF StepOK
<1>2. ASSUME NEW u \in Users, LoginWrong(b, u) \/ LoginAccept(b, u)
      PROVE  StepOK
  <2>1. UNCHANGED <<acct, live, history, admin>>
    BY <1>2 DEF LoginWrong, LoginAccept
  <2>2. RequestOK(b)' /\ \A c \in Browsers \ {b} : req'[c] = req[c]
    BY <1>2, <2>1, LoadingOK DEF LoginWrong, LoginAccept, Pcs
  <2> QED
    BY <1>0, <2>1, <2>2, QuietStep, LockSame DEF StepOK
<1>3. CASE LoginRefused(b) \/ \E u \in Users : LoginChallenge(b, u)
  <2>1. UNCHANGED <<acct, live, history, admin>>
    BY <1>3 DEF LoginChallenge, LoginRefused
  <2>2. RequestOK(b)' /\ \A c \in Browsers \ {b} : req'[c] = req[c]
    BY <1>0, <1>3, AnsweredOK DEF LoginChallenge, LoginRefused
  <2> QED
    BY <1>0, <2>1, <2>2, QuietStep, LockSame DEF StepOK
<1>4. CASE LoginFail(b)
  <2>0. PICK u \in Users, a \in Account : u = req[b].user /\ a = req[b].seen
    BY <1>0, Loaded
  <2> DEFINE n == Counted(a)
             w == Written(acct[u], a, n)
  <2>1. /\ n \in Account /\ acct[u] \in Account /\ UserOK(u)
        /\ Regular(acct[u], history[u]) /\ Confirmed(acct[u], history[u])
    BY <1>0, CountedType DEF SignInInv, UserOK, TypeOK
  <2>2. /\ n.st = a.st /\ n.active = a.active
        /\ n.verified = a.verified /\ n.status = a.status
        /\ n.lock # a.lock => n.lock = "set"
    BY <2>1 DEF Counted, Account
  <2>3. /\ Store(u, a, n)
        /\ UNCHANGED <<live, history, admin>>
    BY <1>4, <2>0 DEF LoginFail
  <2> HIDE DEF n
  <2>4. /\ acct'[u] = w /\ \A v \in Users \ {u} : acct'[v] = acct[v]
    BY <1>0, <2>1, <2>3, Stored
  <2>5. /\ Regular(w, history[u]) /\ Confirmed(w, history[u])
        /\ w.active = acct[u].active /\ w.status = acct[u].status
        /\ w.lock = IF acct[u].st = "row" /\ n.lock # a.lock THEN n.lock
                    ELSE acct[u].lock
    BY <2>1, <2>2, WrittenBeside
  <2> HIDE DEF w
  <2>6. UserOK(u)'
    BY <2>1, <2>3, <2>4, <2>5 DEF UserOK, Signed, RowsOf
  <2>7. RequestOK(b)' /\ \A c \in Browsers \ {b} : req'[c] = req[c]
    BY <1>0, <1>4, AnsweredOK DEF LoginFail
  <2>8. SignInInv'
    BY <1>0, <2>1, <2>3, <2>4, <2>6, <2>7, BrowserStep DEF RowsOf
  <2>9. \A v \in Users : LockKept(v)
    BY <2>2, <2>4, <2>5 DEF LockKept
  <2> QED
    BY <2>8, <2>9 DEF StepOK
<1>5. CASE Reload(b)
  <2>1. UNCHANGED <<acct, live, history, admin>> /\ req[b].user \in Users
    BY <1>0, <1>5, Loaded DEF Reload
  <2>2. RequestOK(b)' /\ \A c \in Browsers \ {b} : req'[c] = req[c]
    <3>1. CASE SetReq(b, At("final", req[b].user, acct[req[b].user]))
      BY <2>1, <3>1, LoadingOK DEF Pcs
    <3>2. CASE Answer(b)
      BY <1>0, <3>2, AnsweredOK
    <3> QED
      BY <1>5, <3>1, <3>2 DEF Reload
  <2> QED
    BY <1>0, <2>1, <2>2, QuietStep, LockSame DEF StepOK
<1>6. CASE Finalize(b)
  <2>0. PICK u \in Users, a \in Account : u = req[b].user /\ a = req[b].seen
    BY <1>0, Loaded
  <2> DEFINE n == [a EXCEPT !.fails = 0, !.lock = "none"]
             w == Written(acct[u], a, n)
  <2>1. /\ n \in Account /\ acct[u] \in Account /\ UserOK(u)
        /\ Regular(acct[u], history[u]) /\ Confirmed(acct[u], history[u])
    BY <1>0, FailsCleared DEF SignInInv, UserOK, TypeOK
  <2>2. /\ n.st = a.st /\ n.active = a.active /\ n.verified = a.verified
        /\ n.status = a.status /\ n.lock = "none"
    BY <2>1 DEF Account
  <2>3. RequestOK(b)' /\ \A c \in Browsers \ {b} : req'[c] = req[c]
    BY <1>0, <1>6, AnsweredOK DEF Finalize
  <2>4. CASE ~Exists(u)
    <3>1. UNCHANGED <<acct, live, history, admin>>
      BY <1>6, <2>4, <2>0 DEF Finalize
    <3> QED
      BY <1>0, <2>3, <3>1, QuietStep, LockSame DEF StepOK
  <2>5. CASE Exists(u)
    <3>1. /\ Store(u, a, n) /\ live' = live \cup {<<b, u>>}
          /\ history' = [history EXCEPT ![u] =
               IF acct[u].active THEN @ ELSE @ \cup {"issued_late"}]
          /\ admin' = admin /\ req[b].pc = "final"
      BY <1>6, <2>5, <2>0 DEF Finalize
    <3> HIDE DEF n
    <3>3. /\ acct'[u] = w /\ \A v \in Users \ {u} : acct'[v] = acct[v]
      BY <1>0, <2>1, <3>1, Stored
    <3>4. /\ Regular(w, history[u]) /\ Confirmed(w, history[u])
          /\ w.active = acct[u].active /\ w.status = acct[u].status
          /\ w.lock = IF acct[u].st = "row" /\ n.lock # a.lock THEN n.lock
                      ELSE acct[u].lock
      BY <2>1, <2>2, WrittenBeside
    <3> HIDE DEF w
    <3>5. /\ history[u] \subseteq history'[u]
          /\ \A v \in Users \ {u} : history'[v] = history[v]
          /\ ~acct[u].active => "issued_late" \in history'[u]
      BY <1>0, <2>1, <3>1 DEF TypeOK
    <3>6. Regular(w, history'[u]) /\ Confirmed(w, history'[u])
      BY <3>4, <3>5, RegularGrows DEF Confirmed
    <3>7. UserOK(u)'
      BY <3>3, <3>4, <3>5, <3>6 DEF UserOK, Signed
    <3>8. \A v \in Users \ {u} : RowsOf(v)' \subseteq RowsOf(v)
      BY <3>1 DEF RowsOf
    <3>9. SignInInv'
      BY <1>0, <2>3, <2>1, <3>1, <3>3, <3>5, <3>7, <3>8, BrowserStep
    <3>10. \A v \in Users : LockKept(v)
      BY <2>2, <2>0, <3>1, <3>3, <3>4 DEF LockKept
    <3> QED
      BY <3>9, <3>10 DEF StepOK
  <2> QED
    BY <2>4, <2>5
<1> QED
  BY <1>1, <1>2, <1>3, <1>4, <1>5, <1>6 DEF LoginStep

LEMMA MfaInvStep ==
  ASSUME SignInInv, NEW b \in Browsers, MfaStep(b)
  PROVE  StepOK
<1>0. TypeOK /\ TypeOK'
  BY MfaType DEF SignInInv
<1>1. CASE \/ ChallengeEnds(b) \/ ChallengeWrong(b) \/ MfaSetupEnds(b)
           \/ \E u \in Users : MfaSetup(b, u) \/ MfaEnable(b, u)
  <2>1. UNCHANGED <<acct, live, history, admin, req>>
    <3>1. ASSUME NEW u \in Users
          PROVE  [acct EXCEPT ![u] = EnableOutcome(@)] = acct
      BY <1>0 DEF TypeOK, EnableOutcome
    <3> QED
      BY <1>1, <3>1 DEF ChallengeEnds, ChallengeWrong, MfaSetupEnds, MfaSetup,
                        MfaEnable
  <2>2. HistoryGrows
    BY <2>1 DEF HistoryGrows
  <2>3. RequestOK(b)'
    BY <1>0, <2>1, <2>2, RequestKept DEF SignInInv
  <2> QED
    BY <1>0, <2>1, <2>3, QuietStep, LockSame DEF StepOK
<1>2. CASE ChallengePassed(b)
  <2>1. UNCHANGED <<acct, live, history, admin>> /\ cookie[b].user \in Users
    BY <1>0, <1>2, Loaded DEF ChallengePassed
  <2>2. RequestOK(b)' /\ \A c \in Browsers \ {b} : req'[c] = req[c]
    BY <1>0, <1>2, <2>1, FreshRequestOK DEF ChallengePassed, Pcs
  <2> QED
    BY <1>0, <2>1, <2>2, QuietStep, LockSame DEF StepOK
<1>3. ASSUME NEW u \in Users, MfaDisable(b, u)
      PROVE  StepOK
  <2>1. /\ UNCHANGED <<live, history, admin, req>>
        /\ acct' = [acct EXCEPT ![u].mfa = FALSE] /\ acct[u] \in Account
    BY <1>0, <1>3 DEF MfaDisable, TypeOK
  <2>2. /\ \A v \in Users \ {u} : acct'[v] = acct[v]
        /\ acct'[u].st = acct[u].st /\ acct'[u].active = acct[u].active
        /\ acct'[u].verified = acct[u].verified
        /\ acct'[u].status = acct[u].status /\ acct'[u].lock = acct[u].lock
    BY <1>0, <2>1 DEF TypeOK, Account
  <2>3. HistoryGrows
    BY <2>1 DEF HistoryGrows
  <2>4. RequestOK(b)'
    BY <1>0, <2>1, <2>3, RequestKept DEF SignInInv
  <2>5. UserOK(u)'
    BY <2>1, <2>2 DEF SignInInv, UserOK, Regular, Confirmed, Signed, RowsOf
  <2>6. SignInInv'
    BY <1>0, <2>1, <2>2, <2>4, <2>5, BrowserStep DEF RowsOf
  <2>7. \A v \in Users : LockKept(v)
    BY <2>2 DEF LockKept
  <2> QED
    BY <2>6, <2>7 DEF StepOK
<1> QED
  BY <1>1, <1>2, <1>3 DEF MfaStep

LEMMA EndInvStep ==
  ASSUME SignInInv, NEW b \in Browsers, EndStep(b)
  PROVE  StepOK
<1>0. TypeOK /\ TypeOK'
  BY EndType DEF SignInInv
<1>1. live' \subseteq live /\ UNCHANGED <<acct, req, admin, history>>
  BY DEF EndStep, Logout, LeaveRow, ChangePassword, RowExpires, IdleTimeout
<1>2. RequestOK(b)'
  BY <1>0, <1>1, RequestKept DEF SignInInv, HistoryGrows
<1> QED
  BY <1>0, <1>1, <1>2, QuietStep, LockSame DEF StepOK

LEMMA RegisterInvStep ==
  ASSUME SignInInv, NEW b \in Browsers, RegisterStep(b)
  PROVE  StepOK
<1>0. TypeOK /\ TypeOK'
  BY RegisterType DEF SignInInv
<1>1. CASE RegisterInsert(b)
  <2>0. PICK u \in Users : u = req[b].user
    BY <1>0, Loaded
  <2>1. /\ UNCHANGED <<live, history, admin>>
        /\ acct[u].st = "none" => /\ acct' = [acct EXCEPT ![u] = Registered]
                                  /\ SetReq(b, At("void", u, NoAccount))
        /\ acct[u].st # "none" => Answer(b) /\ UNCHANGED acct
    BY <1>1, <2>0 DEF RegisterInsert
  <2>2. RequestOK(b)' /\ \A c \in Browsers \ {b} : req'[c] = req[c]
    BY <1>0, <2>1, FreshRequestOK DEF Pcs
  <2>3. CASE acct[u].st = "none"
    <3>1. acct'[u] = Registered /\ \A v \in Users \ {u} : acct'[v] = acct[v]
      BY <1>0, <2>1, <2>3 DEF TypeOK
    <3>2. acct[u].lock = "none"
      BY <2>3 DEF SignInInv, UserOK, Regular
    <3>3. Registered.status # "disabled"
      BY DEF Registered
    <3>4. UserOK(u)'
      BY <3>1, <3>3, RegularDefaults DEF UserOK, Signed
    <3>5. SignInInv'
      BY <1>0, <2>1, <2>2, <3>1, <3>4, BrowserStep DEF RowsOf
    <3>6. \A v \in Users : LockKept(v)
      BY <3>1, <3>2 DEF LockKept
    <3> QED
      BY <3>5, <3>6 DEF StepOK
  <2>4. CASE acct[u].st # "none"
    BY <1>0, <2>1, <2>2, <2>4, QuietStep, LockSame DEF StepOK
  <2> QED
    BY <2>3, <2>4
<1>2. CASE RegisterLatest(b) \/ Void(b) \/ VoidDeadlocks(b)
  <2>1. UNCHANGED <<acct, live, history, admin>>
    BY <1>0, <1>2, TokenMoves
  <2>2. RequestOK(b)' /\ \A c \in Browsers \ {b} : req'[c] = req[c]
    <3>1. RequestOK(b)
      BY DEF SignInInv
    <3>2. ASSUME NEW r \in Request, SetReq(b, r), r.user = req[b].user,
                 r.seen = req[b].seen, req[b].pc \in {"latest", "void"},
                 r.pc \in {"void", "mint"}
          PROVE  RequestOK(b)' /\ \A c \in Browsers \ {b} : req'[c] = req[c]
      BY <1>0, <2>1, <3>1, <3>2, NewRequestOK DEF RequestOK
    <3> QED
      BY <1>0, <1>2, <3>2, TokenMoves, AnsweredOK
  <2> QED
    BY <1>0, <2>1, <2>2, QuietStep, LockSame DEF StepOK
<1>3. CASE Mint(b)
  <2>0. PICK u \in Users, a \in Account : u = req[b].user /\ a = req[b].seen
    BY <1>0, Loaded
  <2> DEFINE w == Rejoined(acct[u], a)
  <2>1. UNCHANGED <<live, history, admin>>
    BY <1>3 DEF Mint
  <2>2. RequestOK(b)' /\ \A c \in Browsers \ {b} : req'[c] = req[c]
    BY <1>0, <1>3, AnsweredOK DEF Mint
  <2>3. UNCHANGED acct \/ (a.st = "row" /\ acct' = [acct EXCEPT ![u] = w])
    BY <1>3, <2>0 DEF Mint
  <2>4. CASE UNCHANGED acct
    BY <1>0, <2>1, <2>2, <2>4, QuietStep, LockSame DEF StepOK
  <2>5. CASE a.st = "row" /\ acct' = [acct EXCEPT ![u] = w]
    <3>1. /\ Regular(a, history[u]) /\ ~a.verified
          /\ UserOK(u) /\ acct[u] \in Account
      BY <1>0, <1>3, <2>0, <2>5 DEF SignInInv, RequestOK, Mint, TypeOK
    <3>2. /\ Regular(w, history[u]) /\ Confirmed(w, history[u])
          /\ w = acct[u] \/ "set_early" \in history[u]
          /\ w.lock = acct[u].lock
      BY <2>5, <3>1, RejoinedRegular DEF UserOK
    <3>3. acct'[u] = w /\ \A v \in Users \ {u} : acct'[v] = acct[v]
      BY <1>0, <2>5 DEF TypeOK
    <3> HIDE DEF w
    <3>4. UserOK(u)'
      BY <2>1, <3>1, <3>2, <3>3 DEF UserOK, Signed, RowsOf
    <3>5. SignInInv'
      BY <1>0, <2>1, <2>2, <3>3, <3>4, BrowserStep DEF RowsOf
    <3>6. \A v \in Users : LockKept(v)
      BY <3>2, <3>3 DEF LockKept
    <3> QED
      BY <3>5, <3>6 DEF StepOK
  <2> QED
    BY <2>3, <2>4, <2>5
<1>4. ASSUME NEW u \in Users, RegisterNew(b, u) \/ Resend(b, u)
      PROVE  StepOK
  <2>1. UNCHANGED <<acct, live, history, admin>>
    BY <1>4 DEF RegisterNew, Resend
  <2>2. RequestOK(b)' /\ \A c \in Browsers \ {b} : req'[c] = req[c]
    BY <1>0, <1>4, FreshRequestOK DEF RegisterNew, Resend, Pcs
  <2> QED
    BY <1>0, <2>1, <2>2, QuietStep, LockSame DEF StepOK
<1>5. ASSUME NEW u \in Users, RegisterAgain(b, u)
      PROVE  StepOK
  <2>1. UNCHANGED <<acct, live, history, admin>>
    BY <1>5 DEF RegisterAgain
  <2>2. RequestOK(b)' /\ \A c \in Browsers \ {b} : req'[c] = req[c]
    BY <1>5, <2>1, LoadingOK DEF RegisterAgain, Pcs
  <2> QED
    BY <1>0, <2>1, <2>2, QuietStep, LockSame DEF StepOK
<1> QED
  BY <1>1, <1>2, <1>3, <1>4, <1>5 DEF RegisterStep

LEMMA ConfirmInvStep ==
  ASSUME SignInInv, NEW b \in Browsers, ConfirmStep(b)
  PROVE  StepOK
<1>0. TypeOK /\ TypeOK'
  BY ConfirmType DEF SignInInv
<1>1. ASSUME NEW u \in Users, NEW t \in Links, ConfirmRead(b, u, t)
      PROVE  StepOK
  <2> DEFINE r == [At("confirm", u, acct[u]) EXCEPT !.set = {t}]
  <2>1. UNCHANGED <<acct, live, history, admin>>
    BY <1>1 DEF ConfirmRead
  <2>2. /\ r \in Request /\ r.pc = "confirm"
        /\ r.user = u /\ r.seen = acct[u]
    <3>1. /\ At("confirm", u, acct[u]) \in Request
          /\ At("confirm", u, acct[u]).pc = "confirm"
          /\ At("confirm", u, acct[u]).user = u
          /\ At("confirm", u, acct[u]).seen = acct[u]
      BY <1>0, AtType DEF Pcs, TypeOK
    <3> QED
      BY <3>1 DEF Request
  <2>3. SetReq(b, r)
    BY <1>1 DEF ConfirmRead
  <2> HIDE DEF r
  <2>4. RequestOK(b)' /\ \A c \in Browsers \ {b} : req'[c] = req[c]
    BY <1>0, <2>1, <2>2, <2>3, NewRequestOK DEF SignInInv, UserOK
  <2> QED
    BY <1>0, <2>1, <2>4, QuietStep, LockSame DEF StepOK
<1>2. CASE ConfirmAgain(b)
  <2>1. UNCHANGED <<acct, live, history, admin>>
    BY <1>2 DEF ConfirmAgain
  <2>2. RequestOK(b)' /\ \A c \in Browsers \ {b} : req'[c] = req[c]
    BY <1>0, <1>2, AnsweredOK DEF ConfirmAgain
  <2> QED
    BY <1>0, <2>1, <2>2, QuietStep, LockSame DEF StepOK
<1>3. CASE ConfirmRolledBack(b)
  <2>1. UNCHANGED <<acct, live, history, admin>> /\ req[b].user \in Users
    BY <1>0, <1>3, Loaded DEF ConfirmRolledBack
  <2>2. RequestOK(b)' /\ \A c \in Browsers \ {b} : req'[c] = req[c]
    BY <1>0, <1>3, <2>1, FreshRequestOK DEF ConfirmRolledBack, Pcs
  <2> QED
    BY <1>0, <2>1, <2>2, QuietStep, LockSame DEF StepOK
<1>4. CASE ConfirmWrite(b)
  <2>0. PICK u \in Users, a \in Account : u = req[b].user /\ a = req[b].seen
    BY <1>0, Loaded
  <2> DEFINE n == [a EXCEPT !.verified = TRUE, !.active = TRUE,
                            !.status = "active"]
             w == Written(acct[u], a, n)
  <2>1. UNCHANGED <<live, history, admin>> /\ ~a.verified
    BY <1>4, <2>0 DEF ConfirmWrite
  <2>2. RequestOK(b)' /\ \A c \in Browsers \ {b} : req'[c] = req[c]
    BY <1>0, <1>4, <2>0, FreshRequestOK DEF ConfirmWrite, Pcs
  <2>3. CASE ~Exists(u)
    <3>1. UNCHANGED acct
      BY <1>4, <2>0, <2>3 DEF ConfirmWrite
    <3> QED
      BY <1>0, <2>1, <2>2, <3>1, QuietStep, LockSame DEF StepOK
  <2>4. CASE Exists(u)
    <3>1. acct[u].st = "row" /\ Regular(a, history[u]) /\ acct[u] \in Account
      BY <1>0, <2>0, <2>4 DEF Exists, SignInInv, RequestOK, TypeOK
    <3>2. n \in Account
      BY DEF Account
    <3>3. Store(u, a, n)
      BY <1>4, <2>0, <2>4 DEF ConfirmWrite
    <3>4. acct'[u] = w /\ \A v \in Users \ {u} : acct'[v] = acct[v]
      BY <1>0, <3>2, <3>3, Stored
    <3>5. /\ Regular(w, history[u]) /\ Confirmed(w, history[u])
          /\ w.active \/ "set_early" \in history[u]
          /\ w.lock = acct[u].lock
      BY <2>1, <3>1, ConfirmedRegular
    <3> HIDE DEF w
    <3>6. UserOK(u)'
      BY <2>1, <3>4, <3>5 DEF UserOK, Signed
    <3>7. SignInInv'
      BY <1>0, <2>1, <2>2, <3>4, <3>6, BrowserStep DEF RowsOf
    <3>8. \A v \in Users : LockKept(v)
      BY <3>4, <3>5 DEF LockKept
    <3> QED
      BY <3>7, <3>8 DEF StepOK
  <2> QED
    BY <2>3, <2>4
<1> QED
  BY <1>1, <1>2, <1>3, <1>4 DEF ConfirmStep

\* A step of no request, on the account of one user; unless it is the
\* administrator's, the administrator's request is left alone.
LEMMA AccountStep ==
  ASSUME SignInInv, TypeOK', NEW u \in Users, UNCHANGED req,
         \A w \in Users \ {u} : /\ acct'[w] = acct[w] /\ history'[w] = history[w]
                                /\ RowsOf(w)' \subseteq RowsOf(w),
         history[u] \subseteq history'[u],
         admin' = admin \/ admin.op # "revoke" \/ admin.user = u,
         UserOK(u)', AdminOK'
  PROVE  SignInInv'
<1>1. HistoryGrows
  BY DEF HistoryGrows
<1>2. \A w \in Users : UserOK(w)'
  BY UserKept DEF SignInInv
<1>3. \A c \in Browsers : RequestOK(c)'
  BY <1>1, RequestKept DEF SignInInv
<1> QED
  BY <1>2, <1>3 DEF SignInInv

LEMMA AdminInvStep ==
  ASSUME SignInInv, AdminStep
  PROVE  StepOK
<1>0. TypeOK /\ TypeOK' /\ AdminOK
  BY AdminType DEF SignInInv
<1>1. ASSUME NEW u \in Users, CreateUser(u)
      PROVE  StepOK
  <2>1. /\ acct'[u] = Created /\ \A v \in Users \ {u} : acct'[v] = acct[v]
        /\ UNCHANGED <<live, req, admin, history>> /\ acct[u].st = "none"
    BY <1>0, <1>1 DEF CreateUser, TypeOK
  <2>2. acct[u].lock = "none"
    BY <2>1 DEF SignInInv, UserOK, Regular
  <2>3. Created.status # "disabled"
    BY DEF Created, NoAccount
  <2>4. UserOK(u)'
    BY <2>1, <2>3, RegularDefaults DEF UserOK, Signed
  <2>5. AdminOK'
    BY <1>0, <2>1, AdminKept DEF HistoryGrows
  <2>6. SignInInv'
    BY <1>0, <2>1, <2>4, <2>5, AccountStep DEF RowsOf
  <2>7. \A v \in Users : LockKept(v)
    BY <2>1, <2>2 DEF LockKept
  <2> QED
    BY <2>6, <2>7 DEF StepOK
<1>2. ASSUME NEW u \in Users, DeleteUser(u)
      PROVE  StepOK
  <2> DEFINE gone == [NoAccount EXCEPT !.st = "gone"]
  <2>1. /\ acct'[u] = gone /\ \A v \in Users \ {u} : acct'[v] = acct[v]
        /\ UNCHANGED <<req, admin, history>> /\ live' = live \ RowsOf(u)
    BY <1>0, <1>2 DEF DeleteUser, TypeOK
  <2>2. RowsOf(u)' = {} /\ \A v \in Users : RowsOf(v)' \subseteq RowsOf(v)
    BY <2>1 DEF RowsOf
  <2>3. UserOK(u)'
    BY <2>1, <2>2, RegularDefaults DEF UserOK, Signed
  <2>4. AdminOK'
    BY <1>0, <2>1, AdminKept DEF HistoryGrows
  <2>5. SignInInv'
    BY <1>0, <2>1, <2>2, <2>3, <2>4, AccountStep
  <2>6. gone.st = "gone"
    BY DEF NoAccount
  <2>7. \A v \in Users : LockKept(v)
    BY <2>1, <2>6 DEF LockKept, Exists
  <2> QED
    BY <2>5, <2>7 DEF StepOK
<1>3. ASSUME NEW op \in {"toggle", "edit"}, NEW u \in Users, NEW new \in Account,
             Begin(op, u, new), UNCHANGED <<acct, live, req, history>>,
             new.status # "pending_verification",
             new.lock = acct[u].lock, new.st = acct[u].st
      PROVE  StepOK
  <2>1. /\ admin.op = "idle" /\ acct[u].st = "row"
        /\ admin'.op = op /\ admin'.user = u /\ admin'.seen = acct[u]
        /\ admin'.new = new
    BY <1>0, <1>3, BeginType DEF Exists
  <2>2. UserOK(u)
    BY DEF SignInInv
  <2>3. AdminOK'
    BY <1>3, <2>1, <2>2 DEF AdminOK, UserOK
  <2>4. UserOK(u)'
    BY <1>3, <2>1, <2>2, UserKept DEF RowsOf
  <2>5. SignInInv'
    BY <1>0, <1>3, <2>1, <2>3, <2>4, AccountStep DEF RowsOf
  <2> QED
    BY <1>3, <2>5, LockSame DEF StepOK
<1>4. ASSUME NEW u \in Users, ToggleRead(u)
      PROVE  StepOK
  <2> DEFINE new == [acct[u] EXCEPT !.active = ~@,
                                    !.status = StatusFor(~acct[u].active)]
  <2>1. acct[u] \in Account
    BY <1>0 DEF TypeOK
  <2>2. /\ new \in Account /\ new.status # "pending_verification"
        /\ new.lock = acct[u].lock /\ new.st = acct[u].st
    BY <2>1 DEF Account, StatusFor
  <2>3. Begin("toggle", u, new) /\ UNCHANGED <<acct, live, req, history>>
    BY <1>4 DEF ToggleRead
  <2> HIDE DEF new
  <2> QED
    BY <1>3, <2>2, <2>3
<1>5. ASSUME NEW u \in Users, EditRead(u)
      PROVE  StepOK
  <2>1. PICK active \in BOOLEAN, verified \in BOOLEAN :
          Begin("edit", u, [acct[u] EXCEPT !.active = active,
                                           !.verified = verified,
                                           !.status = StatusFor(active)])
    BY <1>5 DEF EditRead
  <2> DEFINE new == [acct[u] EXCEPT !.active = active, !.verified = verified,
                                    !.status = StatusFor(active)]
  <2>2. acct[u] \in Account
    BY <1>0 DEF TypeOK
  <2>3. /\ new \in Account /\ new.status # "pending_verification"
        /\ new.lock = acct[u].lock /\ new.st = acct[u].st
    BY <2>2 DEF Account, StatusFor
  <2>4. Begin("edit", u, new) /\ UNCHANGED <<acct, live, req, history>>
    BY <1>5, <2>1 DEF EditRead
  <2> HIDE DEF new
  <2> QED
    BY <1>3, <2>3, <2>4
<1>6. CASE AdminWrite
  <2>0. PICK u \in Users, a \in Account, n \in Account :
          u = admin.user /\ a = admin.seen /\ n = admin.new
    BY <1>0 DEF TypeOK, AdminRequest
  <2> DEFINE w == Written(acct[u], a, n)
  <2>1. /\ admin.op \in {"toggle", "edit"}
        /\ acct' = [acct EXCEPT ![u] = w]
        /\ history' = [history EXCEPT ![u] =
             IF ~w.verified THEN @ \cup {"set_early"} ELSE @]
        /\ UNCHANGED <<live, req>>
        /\ IF Exists(u) THEN admin' = [admin EXCEPT !.op = "revoke"]
           ELSE AdminEnds
    BY <1>6, <2>0 DEF AdminWrite
  <2>2. /\ Regular(a, history[u]) /\ a.st = "row" /\ n.st = a.st
        /\ n.lock = a.lock /\ n.status # "pending_verification"
        /\ UserOK(u) /\ acct[u] \in Account
    BY <1>0, <2>0, <2>1 DEF AdminOK, SignInInv, TypeOK
  <2>3. /\ acct'[u] = w /\ \A v \in Users \ {u} : acct'[v] = acct[v]
        /\ history'[u] = IF ~w.verified THEN history[u] \cup {"set_early"}
                         ELSE history[u]
        /\ \A v \in Users \ {u} : history'[v] = history[v]
    BY <1>0, <2>1 DEF TypeOK
  <2>4. /\ Regular(w, history'[u]) /\ Confirmed(w, history'[u])
        /\ w.lock = acct[u].lock
    BY <2>2, <2>3, EditedRegular DEF UserOK
  <2>5. ~Exists(u) => w = acct[u]
    BY <2>2, WrittenColumns DEF Exists
  <2> HIDE DEF w
  <2>6. /\ Exists(u) => admin'.op = "revoke" /\ admin'.user = u
                        /\ admin'.seen = a
        /\ ~Exists(u) => admin'.op = "idle" /\ admin'.seen = NoAccount
    BY <1>0, <2>0, <2>1, AdminEndsType DEF TypeOK, AdminRequest
  <2>7. UserOK(u)'
    <3>1. CASE Exists(u)
      BY <2>3, <2>4, <2>6, <3>1 DEF UserOK, Signed
    <3>2. CASE ~Exists(u)
      BY <2>0, <2>1, <2>2, <2>3, <2>4, <2>5, <3>2 DEF UserOK, Signed, RowsOf
    <3> QED
      BY <3>1, <3>2
  <2>8. AdminOK'
    <3>1. CASE Exists(u)
      BY <2>2, <2>3, <2>6, <3>1, RegularGrows DEF AdminOK
    <3>2. CASE ~Exists(u)
      BY <2>6, <3>2, RegularDefaults DEF AdminOK
    <3> QED
      BY <3>1, <3>2
  <2>9. SignInInv'
    BY <1>0, <2>0, <2>1, <2>3, <2>7, <2>8, AccountStep DEF RowsOf
  <2>10. \A v \in Users : LockKept(v)
    BY <2>3, <2>4 DEF LockKept
  <2> QED
    BY <2>9, <2>10 DEF StepOK
<1>7. CASE AdminRevoke \/ AdminDies
  <2>0. PICK u \in Users : u = admin.user
    BY <1>0 DEF TypeOK, AdminRequest
  <2>1. /\ UNCHANGED <<acct, req>> /\ AdminEnds
        /\ \/ UNCHANGED history /\ live' = live \ RowsOf(u)
           \/ /\ history' = [history EXCEPT ![u] = @ \cup {"request_died"}]
              /\ UNCHANGED live
    BY <1>7, <2>0 DEF AdminRevoke, AdminDies, Revoked
  <2>2. admin'.op = "idle" /\ admin'.seen = NoAccount
    BY <1>0, <2>1, AdminEndsType
  <2>3. /\ history[u] \subseteq history'[u]
        /\ \A v \in Users \ {u} : history'[v] = history[v]
        /\ \A v \in Users : RowsOf(v)' \subseteq RowsOf(v)
        /\ history'[u] # {} \/ RowsOf(u)' = {}
    BY <1>0, <2>1 DEF TypeOK, RowsOf
  <2>4. UserOK(u)
    BY DEF SignInInv
  <2>5. Regular(acct[u], history'[u]) /\ Confirmed(acct[u], history'[u])
    BY <2>3, <2>4, RegularGrows DEF UserOK, Confirmed
  <2>6. UserOK(u)'
    BY <2>1, <2>3, <2>5 DEF UserOK, Signed
  <2>7. AdminOK'
    BY <2>2, RegularDefaults DEF AdminOK
  <2>8. SignInInv'
    BY <1>0, <2>0, <2>1, <2>3, <2>6, <2>7, AccountStep
  <2> QED
    BY <2>1, <2>8, LockSame DEF StepOK
<1> QED
  BY <1>1, <1>2, <1>4, <1>5, <1>6, <1>7 DEF AdminStep

LEMMA TimeInvStep ==
  ASSUME SignInInv, TimeStep
  PROVE  StepOK
<1>0. TypeOK /\ TypeOK' /\ AdminOK
  BY TimeType DEF SignInInv
<1>1. ASSUME NEW u \in Users, LockEnds(u)
      PROVE  StepOK
  <2>1. /\ UNCHANGED <<live, history, admin, req>> /\ acct[u].lock = "set"
        /\ acct' = [acct EXCEPT ![u].lock = "over"] /\ acct[u] \in Account
    BY <1>0, <1>1 DEF LockEnds, TypeOK
  <2>2. /\ \A v \in Users \ {u} : acct'[v] = acct[v]
        /\ acct'[u].st = acct[u].st /\ acct'[u].active = acct[u].active
        /\ acct'[u].verified = acct[u].verified
        /\ acct'[u].status = acct[u].status /\ acct'[u].lock = "over"
    BY <1>0, <2>1 DEF TypeOK, Account
  <2>3. UserOK(u)'
    BY <2>1, <2>2 DEF SignInInv, UserOK, Regular, Confirmed, Signed, RowsOf
  <2>4. AdminOK'
    BY <1>0, <2>1, AdminKept DEF HistoryGrows
  <2>5. SignInInv'
    BY <1>0, <2>1, <2>2, <2>3, <2>4, AccountStep DEF RowsOf
  <2>6. \A v \in Users : LockKept(v)
    BY <2>2 DEF LockKept
  <2> QED
    BY <2>5, <2>6 DEF StepOK
<1>2. ASSUME NEW u \in Users, NEW t \in Links, LinkExpires(u, t)
      PROVE  StepOK
  <2>1. UNCHANGED <<acct, live, history, admin, req>>
    BY <1>2 DEF LinkExpires
  <2>2. UserOK(u)' /\ AdminOK'
    BY <1>0, <2>1, UserKept, AdminKept DEF HistoryGrows, RowsOf, SignInInv
  <2>3. SignInInv'
    BY <1>0, <2>1, <2>2, AccountStep DEF RowsOf
  <2> QED
    BY <2>1, <2>3, LockSame DEF StepOK
<1> QED
  BY <1>1, <1>2 DEF TimeStep

LEMMA SignInStep ==
  ASSUME SignInInv, [Next]_vars
  PROVE  StepOK
<1>1. CASE UNCHANGED vars
  <2>1. TypeOK' /\ UNCHANGED <<acct, live, history, admin, req>>
    BY <1>1, TypeStep DEF vars, SignInInv
  <2>2. PICK u \in Users : TRUE
    BY NonEmptyAssumption
  <2>3. UserOK(u)' /\ AdminOK'
    BY <2>1, UserKept, AdminKept DEF HistoryGrows, RowsOf, SignInInv
  <2> QED
    BY <2>1, <2>3, AccountStep, LockSame DEF RowsOf, StepOK
<1>2. CASE Next
  BY <1>2, LoginInvStep, MfaInvStep, EndInvStep, RegisterInvStep,
     ConfirmInvStep, AdminInvStep, TimeInvStep DEF Next
<1> QED
  BY <1>1, <1>2

LEMMA SignInInit == Init => SignInInv
<1> SUFFICES ASSUME Init PROVE SignInInv
  OBVIOUS
<1>1. TypeOK
  BY TypeInit
<1>2. ASSUME NEW u \in Users
      PROVE  UserOK(u)
  <2>1. acct[u] \in {scene.seed, Created} /\ RowsOf(u) = {}
    BY DEF Init, RowsOf
  <2>2. Regular(scene.seed, history[u]) /\ Confirmed(scene.seed, history[u])
    <3>1. scene \in Scenes /\ scene \in Scene
      BY ScenesAssumption DEF Init
    <3>2. CASE scene.seed = NoAccount
      BY <3>2 DEF Regular, Confirmed, NoAccount
    <3>3. CASE scene.seed # NoAccount
      BY <3>1, <3>3, SeedsAssumption DEF Regular, Confirmed
    <3> QED
      BY <3>2, <3>3
  <2> QED
    BY <2>1, <2>2, RegularDefaults DEF UserOK, Signed
<1>3. ASSUME NEW b \in Browsers
      PROVE  RequestOK(b)
  <2>1. req[b] = NoRequest
    BY DEF Init
  <2> QED
    BY <2>1, Defaults, RegularDefaults DEF RequestOK
<1>4. AdminOK
  <2>1. scene.admin \in 0..MaxAdmin
    BY ScenesAssumption DEF Init, Scene
  <2>2. admin.op = "idle" /\ admin.seen = NoAccount
    BY <2>1, Defaults DEF Init
  <2> QED
    BY <2>2, RegularDefaults DEF AdminOK
<1> QED
  BY <1>1, <1>2, <1>3, <1>4 DEF SignInInv

LEMMA SignInInvariant == Spec => []SignInInv
<1>1. SignInInv /\ [Next]_vars => SignInInv'
  BY SignInStep DEF StepOK
<1> QED
  BY SignInInit, <1>1, PTL DEF Spec

\* A confirmed account is not pushed back to waiting for its confirmation by
\* a registration, a resend or an edit that had loaded it unconfirmed, unless
\* an administrator had set its status before it was confirmed (register_post
\* and confirm_email on one account).
THEOREM ConfirmationLasts == Spec => []ConfirmedStaysConfirmed
<1>1. SignInInv => ConfirmedStaysConfirmed
  BY DEF SignInInv, UserOK, Confirmed, ConfirmedStaysConfirmed
<1> QED
  BY SignInInvariant, <1>1, PTL

\* An account an administrator disabled has no live session row, but for a row
\* that a sign-in under way added after it was disabled, rows that an
\* administrator's request still has to revoke or died before revoking, and
\* accounts whose status was set before they were confirmed (toggle_user,
\* edit_user, delete_user against _finalize_login).
THEOREM DisablingEndsSessions == Spec => []DisabledHasNoSession
<1>1. SignInInv => DisabledHasNoSession
  BY DEF SignInInv, UserOK, Signed, DisabledHasNoSession
<1> QED
  BY SignInInvariant, <1>1, PTL

\* A lock in force ends only when its time has come, its account is deleted, or
\* a sign-in completes that had loaded a lock (login_post, _finalize_login).
THEOREM LocksHold == Spec => LockHolds
<1>1. SignInInv /\ [Next]_vars
        => \A u \in Users :
             acct[u].lock = "set" /\ acct'[u].lock # "set"
               => \/ acct'[u].lock = "over"
                  \/ ~Exists(u)'
                  \/ \E b \in Browsers :
                       req[b].pc = "final" /\ req[b].seen.lock # "none"
  BY SignInStep DEF StepOK, LockKept
<1> QED
  BY SignInInvariant, <1>1, PTL DEF Spec, LockHolds
=============================================================================
