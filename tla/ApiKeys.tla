-------------------------------- MODULE ApiKeys --------------------------------
(***************************************************************************)
(* The API keys of one user: creating them under a limit, revealing them,  *)
(* revoking them, and the requests to the HTTP API that present them       *)
(* (app/blueprints/auth/routes.py, app/blueprints/admin/routes.py,         *)
(* app/services/api_auth.py, api_runtime.py, access_control.py).           *)
(*                                                                         *)
(* A slot serves one request at a time.  A request that reads rows and     *)
(* commits later does so in two actions.                                   *)
(*                                                                         *)
(* An operator marked "mutant" is a plausible mistake in the code that the *)
(* operator after it models; no specification uses it.                     *)
(***************************************************************************)
EXTENDS Naturals, FiniteSets, Sequences, SequencesExt

CONSTANTS
  Slots,      \* requests that are served at the same time
  Limit,      \* active personal keys of a user (20 in the code)
  MaxKeys,    \* bound: the most keys ever created
  Scopes,     \* scopes, as sequences of words: profile:read, profile:*, *
  ScopeSets,  \* bound: the sets of scopes keys are created with
  Endpoints,  \* the routes of the API
  Scenes      \* bound: the operations that are explored together, and how
              \* many keys are created

Ids == 1..MaxKeys

\* _browser_session_token_scopes
BrowserScopes == {<<"session", "browser">>}

Operations == {"create", "name", "json", "show", "revoke", "expire", "admin",
               "call", "scopes"}

\* _parse_requested_scopes, when the form names none.
DefaultScopes == {<<"profile", "read">>}

Endpoint == [scopes : SUBSET Scopes, addon : BOOLEAN, roles : SUBSET {"user", "admin"}]

ASSUME SlotsAssumption == IsFiniteSet(Slots)
ASSUME BoundsAssumption == Limit \in Nat \ {0} /\ MaxKeys \in Nat
ASSUME ScopesAssumption ==
  /\ Scopes \subseteq Seq(STRING) \ {<<>>}
  /\ ScopeSets \subseteq SUBSET Scopes
  /\ {BrowserScopes, DefaultScopes} \subseteq ScopeSets
ASSUME EndpointsAssumption == Endpoints \subseteq Endpoint
ASSUME ScenesAssumption ==
  Scenes \subseteq [ops : SUBSET Operations, keys : 0..MaxKeys]

VARIABLES
  scene,   \* the member of Scenes this behaviour explores
  user,    \* the users row
  enabled, \* is the add-on of the add-on routes enabled?
  keys,    \* keys[k]: the api_tokens rows there are
  reveal,  \* reveal[k]: their api_token_reveals rows
  req,     \* req[s]: the request slot s serves
  shown,   \* shown[k]: how often the key was displayed
  lost     \* keys marked as revealed by a request that displays none

vars == <<scene, user, enabled, keys, reveal, req, shown, lost>>

-----------------------------------------------------------------------------
User == [there : BOOLEAN, active : BOOLEAN, role : {"user", "admin"}]

Names == {"personal", "api_tester", "browser-session"}

Key == [name    : Names,
        scopes  : ScopeSets,
        revoked : BOOLEAN,     \* revoked_at is set
        expired : BOOLEAN,     \* expires_at has passed
        fresh   : BOOLEAN]     \* last_used_at is less than 30 seconds ago

NewKey(name, scopes) == [name |-> name, scopes |-> scopes, revoked |-> FALSE,
                         expired |-> FALSE, fresh |-> FALSE]

Request ==
  [pc : {"idle"}]
    \cup [pc : {"insert"}, name : Names, scopes : ScopeSets, json : BOOLEAN]
    \cup [pc : {"mark"}, rows : SUBSET Ids, page : BOOLEAN]
    \cup [pc : {"touch", "guard", "served"}, key : Ids, row : Key, who : User,
          end : Endpoints]

\* Rows refer to rows that are there.
TypeOK ==
  /\ scene \in Scenes
  /\ user \in User
  /\ enabled \in BOOLEAN
  /\ DOMAIN keys \subseteq Ids /\ keys \in [DOMAIN keys -> Key]
  /\ DOMAIN reveal \subseteq DOMAIN keys
  /\ reveal \in [DOMAIN reveal -> {"pending", "marked"}]
  /\ req \in [Slots -> Request]
  /\ shown \in [Ids -> Nat]
  /\ lost \subseteq Ids

Init ==
  /\ scene \in Scenes
  /\ user = [there |-> TRUE, active |-> TRUE, role |-> "user"]
  /\ enabled = TRUE
  /\ keys = <<>> /\ reveal = <<>>
  /\ req = [s \in Slots |-> [pc |-> "idle"]]
  /\ shown = [k \in Ids |-> 0]
  /\ lost = {}

Free(s)      == req[s].pc = "idle"
SetReq(s, r) == req' = [req EXCEPT ![s] = r]
Answer(s)    == SetReq(s, [pc |-> "idle"])

\* is_valid
Valid(row) == ~row.revoked /\ ~row.expired

SignedIn == user.there /\ user.active

-----------------------------------------------------------------------------
(* Scopes.                                                                 *)

\* A scope that ends with ":*" grants what begins with the words before it.
Wild(scope) == Len(scope) > 1 /\ Last(scope) = "*"

Grants(scope, need) ==
  \/ scope = need
  \/ Wild(scope) /\ Len(need) >= Len(scope) /\ IsPrefix(Front(scope), need)

\* Mutant: the loop over the required scopes ends at the first one granted.
HasScopesFirst(granted, required) ==
  \/ required = {} \/ <<"*">> \in granted
  \/ \E need \in required : \E scope \in granted : Grants(scope, need)

\* token_has_scopes
HasScopes(granted, required) ==
  \/ required = {} \/ <<"*">> \in granted
  \/ \A need \in required : \E scope \in granted : Grants(scope, need)

\* The scopes a scope stands for: itself, and with a final "*" all that have
\* the words before it and at least one more.
Denotes(scope) ==
  {scope} \cup {t \in Scopes : /\ Last(scope) = "*"
                               /\ \E i \in 0..(Len(t) - 1) :
                                    SubSeq(t, 1, i) = Front(scope)}

-----------------------------------------------------------------------------
(* Creating keys.                                                          *)

\* _user_managed_tokens_for_user: not the names the application uses itself.
Managed == {k \in DOMAIN keys : keys[k].name = "personal" /\ Valid(keys[k])}

\* Mutant: the limit is passed by one.
MayCreateBeyond == Cardinality(Managed) <= Limit

\* The check of the limit in _create_personal_api_key.
MayCreate == Cardinality(Managed) < Limit

Inserting == {s \in Slots : req[s].pc = "insert"}

\* The password (and the code, with MFA on) was right and the form is valid.
CreateRead(s) ==
  /\ "create" \in scene.ops
  /\ Free(s) /\ SignedIn /\ MayCreate
  /\ Cardinality(DOMAIN keys) + Cardinality(Inserting) < scene.keys
  /\ \E name \in IF "name" \in scene.ops THEN Names ELSE {"personal"} :
       \E json \in IF "json" \in scene.ops THEN BOOLEAN ELSE {FALSE} :
         \E scopes \in IF "scopes" \in scene.ops THEN ScopeSets ELSE {DefaultScopes} :
           SetReq(s, [pc |-> "insert", name |-> name, scopes |-> scopes,
                      json |-> json])
  /\ UNCHANGED <<scene, user, enabled, keys, reveal, shown, lost>>

With(f, k, v) == [j \in DOMAIN f \cup {k} |-> IF j = k THEN v ELSE f[j]]

NextId == Cardinality(DOMAIN keys) + 1

\* create.json answers with the key, which stays pending; the form redirects.
ShownAtCreation(r, k) == IF r.json THEN [shown EXCEPT ![k] = @ + 1] ELSE shown

\* The key and its reveal row are one commit.  The user may have been deleted.
CreateInsert(s) ==
  LET r == req[s]
      k == NextId
  IN  /\ r.pc = "insert"
      /\ IF user.there
         THEN /\ keys' = With(keys, k, NewKey(r.name, r.scopes))
              /\ reveal' = With(reveal, k, "pending")
              /\ shown' = ShownAtCreation(r, k)
         ELSE UNCHANGED <<keys, reveal, shown>>
      /\ Answer(s)
      /\ UNCHANGED <<scene, user, enabled, lost>>

\* A sign-in issues a key of its own, whose reveal row is marked at once.
IssueBrowserKey ==
  /\ "name" \in scene.ops
  /\ SignedIn
  /\ Cardinality(DOMAIN keys) + Cardinality(Inserting) < scene.keys
  /\ keys' = With(keys, NextId, NewKey("browser-session", BrowserScopes))
  /\ reveal' = With(reveal, NextId, "marked")
  /\ UNCHANGED <<scene, user, enabled, req, shown, lost>>

-----------------------------------------------------------------------------
(* Revealing keys.                                                         *)

PendingRows == {k \in DOMAIN reveal : reveal[k] = "pending"}

\* Does the answer display the rows?  That of the settings page and of
\* /api-keys/data does; a valid settings form is answered with a redirect.
Displays == BOOLEAN

\* _rehydrate_pending_token_reveals reads the pending rows.
ShowRead(s) ==
  /\ "show" \in scene.ops
  /\ Free(s) /\ SignedIn /\ PendingRows # {}
  /\ \E page \in Displays :
       SetReq(s, [pc |-> "mark", rows |-> PendingRows, page |-> page])
  /\ UNCHANGED <<scene, user, enabled, keys, reveal, shown, lost>>

\* Mutant: an UPDATE marks whatever is pending.
MarkedAll(rows) == PendingRows

\* The rows the commit marks.
Marked(rows) == rows

\* Rows deleted meanwhile fail the request.
ShowMark(s) ==
  LET r == req[s]
      rows == Marked(r.rows)
  IN  /\ r.pc = "mark"
      /\ IF r.rows \subseteq DOMAIN reveal
         THEN /\ reveal' = [k \in DOMAIN reveal |->
                             IF k \in rows THEN "marked" ELSE reveal[k]]
              /\ shown' = [k \in Ids |-> IF r.page /\ k \in r.rows
                                         THEN shown[k] + 1 ELSE shown[k]]
              /\ lost' = IF r.page THEN lost ELSE lost \cup r.rows
         ELSE UNCHANGED <<reveal, shown, lost>>
      /\ Answer(s)
      /\ UNCHANGED <<scene, user, enabled, keys>>

-----------------------------------------------------------------------------
(* The end of keys.                                                        *)

RevokeAll(some) ==
  keys' = [k \in DOMAIN keys |->
            IF k \in some THEN [keys[k] EXCEPT !.revoked = TRUE] ELSE keys[k]]

\* The user revokes a key, of any name but that of a browser's.
RevokeOwn(k) ==
  /\ "revoke" \in scene.ops
  /\ SignedIn
  /\ k \in DOMAIN keys /\ keys[k].name # "browser-session" /\ ~keys[k].revoked
  /\ RevokeAll({k})
  /\ UNCHANGED <<scene, user, enabled, reveal, req, shown, lost>>

\* An administrator revokes any of the user's keys, one or several at once.
RevokeByAdmin ==
  /\ "admin" \in scene.ops
  /\ \E some \in SUBSET DOMAIN keys :
       /\ \E k \in some : ~keys[k].revoked
       /\ RevokeAll(some)
  /\ UNCHANGED <<scene, user, enabled, reveal, req, shown, lost>>

\* A new password, a toggle and an edit of the user revoke the keys of
\* browsers.
RevokeBrowserKeys ==
  /\ "name" \in scene.ops
  /\ RevokeAll({k \in DOMAIN keys : keys[k].name = "browser-session"})
  /\ UNCHANGED <<scene, user, enabled, reveal, req, shown, lost>>

\* expires_at, if there is one, passes.
Expire(k) ==
  /\ "expire" \in scene.ops
  /\ k \in DOMAIN keys /\ ~keys[k].expired
  /\ keys' = [keys EXCEPT ![k].expired = TRUE]
  /\ UNCHANGED <<scene, user, enabled, reveal, req, shown, lost>>

\* An administrator disables or enables the user, or changes the role.
UserEdited ==
  /\ "admin" \in scene.ops /\ user.there
  /\ \E active \in BOOLEAN : \E role \in {"user", "admin"} :
       user' = [user EXCEPT !.active = active, !.role = role]
  /\ UNCHANGED <<scene, enabled, keys, reveal, req, shown, lost>>

AddonSwitched ==
  /\ "admin" \in scene.ops
  /\ enabled' = ~enabled
  /\ UNCHANGED <<scene, user, keys, reveal, req, shown, lost>>

\* Mutant: the reveal rows stay.
RevealsKept == reveal

\* The reveal rows that outlive the user.
RevealsLeft == <<>>

\* delete_user removes keys and reveal rows with the user.
UserDeleted ==
  /\ "admin" \in scene.ops /\ user.there
  /\ user' = [user EXCEPT !.there = FALSE, !.active = FALSE]
  /\ keys' = <<>>
  /\ reveal' = RevealsLeft
  /\ UNCHANGED <<scene, enabled, req, shown, lost>>

-----------------------------------------------------------------------------
(* A request to the API.                                                   *)

\* validate_api_token, to its decision.  The keys created here belong to no
\* add-on.  A request that fails is answered 401 and changes nothing.
CallRead(s) ==
  /\ "call" \in scene.ops
  /\ Free(s)
  /\ \E k \in DOMAIN keys : \E end \in Endpoints :
       /\ Valid(keys[k]) /\ user.there /\ user.active
       /\ HasScopes(keys[k].scopes, end.scopes)
       /\ SetReq(s, [pc |-> IF keys[k].fresh THEN "guard" ELSE "touch",
                     key |-> k, row |-> keys[k], who |-> user, end |-> end])
  /\ UNCHANGED <<scene, user, enabled, keys, reveal, shown, lost>>

\* Mutant: the commit writes every column of the row as it was read.
TouchedWhole(current, read) == [read EXCEPT !.fresh = TRUE]

\* last_used_at is the only column that changed.
Touched(current, read) == [current EXCEPT !.fresh = TRUE]

\* The commit of last_used_at, after which key and user are loaded again; it
\* fails when the row is gone.
CallTouch(s) ==
  LET r == req[s]
  IN  /\ r.pc = "touch"
      /\ IF r.key \in DOMAIN keys
         THEN /\ keys' = [keys EXCEPT ![r.key] = Touched(@, r.row)]
              /\ SetReq(s, [r EXCEPT !.pc = "guard", !.row = keys'[r.key],
                                     !.who = user])
         ELSE Answer(s) /\ UNCHANGED keys
      /\ UNCHANGED <<scene, user, enabled, reveal, shown, lost>>

\* The rest of the guard of a route: the add-on's policy and the role.
Allowed(who, end) ==
  /\ end.addon => enabled /\ who.active
  /\ end.roles # {} => who.role \in end.roles

CallGuard(s) ==
  LET r == req[s]
  IN  /\ r.pc = "guard"
      /\ IF Allowed(r.who, r.end) THEN SetReq(s, [r EXCEPT !.pc = "served"])
                                  ELSE Answer(s)
      /\ UNCHANGED <<scene, user, enabled, keys, reveal, shown, lost>>

CallEnds(s) ==
  /\ req[s].pc = "served"
  /\ Answer(s)
  /\ UNCHANGED <<scene, user, enabled, keys, reveal, shown, lost>>

\* 30 seconds pass since the last use.
Unused(k) ==
  /\ k \in DOMAIN keys /\ keys[k].fresh
  /\ keys' = [keys EXCEPT ![k].fresh = FALSE]
  /\ UNCHANGED <<scene, user, enabled, reveal, req, shown, lost>>

-----------------------------------------------------------------------------
Next ==
  \/ \E s \in Slots : \/ CreateRead(s) \/ CreateInsert(s)
                      \/ ShowRead(s) \/ ShowMark(s)
                      \/ CallRead(s) \/ CallTouch(s) \/ CallGuard(s)
                      \/ CallEnds(s)
  \/ \E k \in Ids : RevokeOwn(k) \/ Expire(k) \/ Unused(k)
  \/ IssueBrowserKey \/ RevokeByAdmin \/ RevokeBrowserKeys
  \/ UserEdited \/ AddonSwitched \/ UserDeleted

Spec == Init /\ [][Next]_vars

-----------------------------------------------------------------------------
(* What must hold.                                                         *)

\* The limit is checked on a count read before the insert: requests served
\* together may pass it, by one less than their number
\* (_create_personal_api_key).
KeysBounded ==
  Cardinality(Managed) + Cardinality(Inserting)
    <= Limit + Cardinality(Slots) - 1

\* A key is displayed once ("raw tokens are revealed only once", README.md:281;
\* "shown only once", auth/routes.py:1382).
ShownOnce == \A k \in Ids : shown[k] <= 1

\* A key whose reveal row is marked was displayed, or is about to be by no one
\* because a settings form was saved in between; no interleaving of loads and
\* creations hides a key otherwise (_rehydrate_pending_token_reveals).
NoneHidden ==
  \A k \in DOMAIN reveal :
    reveal[k] = "marked" /\ keys[k].name # "browser-session" /\ shown[k] = 0
      => k \in lost

\* A revoked key stays revoked, also when a request that was validated before
\* the revocation commits its use after it (validate_api_token).
RevokedStays ==
  [][\A k \in DOMAIN keys :
       keys[k].revoked => k \notin DOMAIN keys' \/ keys'[k].revoked]_vars

\* Served requests presented a key that stands for each scope of the route,
\* wildcards expanded (token_has_scopes).
ServedIsGranted ==
  \A s \in Slots :
    req[s].pc = "served" =>
      req[s].end.scopes \subseteq UNION {Denotes(t) : t \in req[s].row.scopes}

=============================================================================
