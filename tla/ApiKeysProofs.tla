----------------------------- MODULE ApiKeysProofs -----------------------------
(***************************************************************************)
(* Theorems about the API keys of a user, for any number of requests that  *)
(* are served together, any limit, scopes and routes.                      *)
(***************************************************************************)
EXTENDS ApiKeys, FiniteSetTheorems, SequenceTheorems, TLAPS

-----------------------------------------------------------------------------
(* The data.                                                               *)

\* Each pc has one kind of request.
LEMMA RequestKinds ==
  ASSUME NEW r \in Request
  PROVE  /\ r.pc \in {"idle", "insert", "mark", "touch", "guard", "served"}
         /\ r.pc = "idle" => r = [pc |-> "idle"]
         /\ r.pc = "insert" =>
              /\ r.name \in Names /\ r.scopes \in ScopeSets /\ r.json \in BOOLEAN
         /\ r.pc = "mark" => r.rows \in SUBSET Ids /\ r.page \in BOOLEAN
         /\ r.pc \in {"touch", "guard", "served"} =>
              r \in [pc : {"touch", "guard", "served"}, key : Ids, row : Key,
                     who : User, end : Endpoints]
BY DEF Request

LEMMA IdleRequest == [pc |-> "idle"] \in Request
BY DEF Request

LEMMA ReqAssigned ==
  ASSUME req \in [Slots -> Request], NEW s \in Slots, NEW r \in Request,
         SetReq(s, r)
  PROVE  /\ req' \in [Slots -> Request]
         /\ req'[s] = r
         /\ \A t \in Slots \ {s} : req'[t] = req[t]
BY DEF SetReq

\* A request that is answered leaves its slot free.
LEMMA Answered ==
  ASSUME req \in [Slots -> Request], NEW s \in Slots, Answer(s)
  PROVE  /\ req' \in [Slots -> Request]
         /\ req'[s] = [pc |-> "idle"]
         /\ \A t \in Slots \ {s} : req'[t] = req[t]
BY IdleRequest, ReqAssigned DEF Answer

LEMMA InsertingFinite ==
  /\ IsFiniteSet(Inserting) /\ Cardinality(Inserting) \in Nat
  /\ Cardinality(Slots) \in Nat
  /\ Cardinality(Inserting) <= Cardinality(Slots)
<1>1. Inserting \in SUBSET Slots
  BY DEF Inserting
<1> QED
  BY <1>1, SlotsAssumption, FS_Subset, FS_CardinalityType

LEMMA NewKeyType ==
  ASSUME NEW name \in Names, NEW scopes \in ScopeSets
  PROVE  NewKey(name, scopes) \in Key
BY DEF NewKey, Key

-----------------------------------------------------------------------------
(* The keys a user has.                                                    *)

\* Keys are numbered from 1, and those about to be inserted have a number.
Numbered ==
  \E n \in Nat : /\ DOMAIN keys = 1..n
                 /\ n + Cardinality(Inserting) <= scene.keys

\* With the user go the keys and their reveal rows.
Emptied == ~user.there => DOMAIN keys = {}

KeysInv == TypeOK /\ Numbered /\ Emptied

\* The next number is that of no key, and there is room for it.
LEMMA NextIdNew ==
  ASSUME TypeOK, Numbered
  PROVE  /\ NextId \in Nat \ {0} /\ NextId \notin DOMAIN keys
         /\ DOMAIN keys \cup {NextId} = 1..NextId
         /\ NextId + Cardinality(Inserting) <= scene.keys + 1
         /\ Cardinality(DOMAIN keys) \in Nat
         /\ scene.keys \in Nat /\ scene.keys <= MaxKeys
<1>1. PICK n \in Nat : /\ DOMAIN keys = 1..n
                       /\ n + Cardinality(Inserting) <= scene.keys
  BY DEF Numbered
<1>2. Cardinality(DOMAIN keys) = n
  BY <1>1, FS_Interval
<1>3. scene.keys \in 0..MaxKeys
  BY ScenesAssumption DEF TypeOK
<1>4. 1..n \cup {n + 1} = 1..(n + 1)
  OBVIOUS
<1> QED
  BY <1>1, <1>2, <1>3, <1>4, InsertingFinite, BoundsAssumption DEF NextId

LEMMA KeysInit == Init => KeysInv
<1> SUFFICES ASSUME Init PROVE KeysInv
  OBVIOUS
<1>1. DOMAIN keys = {} /\ DOMAIN reveal = {}
  BY DEF Init
<1>2. keys \in [DOMAIN keys -> Key] /\ reveal \in [DOMAIN reveal -> {"pending", "marked"}]
  BY <1>1 DEF Init
<1>3. TypeOK
  BY <1>1, <1>2, IdleRequest DEF Init, TypeOK, User, Ids
<1>4. Inserting = {}
  BY DEF Init, Inserting
<1>5. Numbered
  <2>1. Cardinality(Inserting) = 0
    BY <1>4, FS_EmptySet
  <2>2. scene.keys \in 0..MaxKeys
    BY ScenesAssumption DEF Init
  <2>3. DOMAIN keys = 1..0
    BY <1>1
  <2> QED
    BY <2>1, <2>2, <2>3, BoundsAssumption DEF Numbered
<1> QED
  BY <1>1, <1>3, <1>5 DEF KeysInv, Emptied, Init

-----------------------------------------------------------------------------
(* What a step does to the keys: they age, one is added, or all go.        *)

Aged(k) ==
  /\ keys'[k].name = keys[k].name /\ keys'[k].scopes = keys[k].scopes
  /\ keys[k].revoked => keys'[k].revoked
  /\ keys[k].expired => keys'[k].expired

KeysAge ==
  /\ DOMAIN keys' = DOMAIN keys
  /\ \A k \in DOMAIN keys : Aged(k)
  /\ user'.there = user.there

KeyAdded ==
  /\ user.there /\ user' = user
  /\ DOMAIN keys' = DOMAIN keys \cup {NextId}
  /\ \A k \in DOMAIN keys : keys'[k] = keys[k]

KeysGone == ~user'.there /\ DOMAIN keys' = {}

\* What the types say of one key.
LEMMA KeyTyped ==
  ASSUME TypeOK, NEW k \in DOMAIN keys
  PROVE  keys[k] \in Key /\ k \in Ids
BY DEF TypeOK

LEMMA SameKeys ==
  ASSUME TypeOK, UNCHANGED keys, user'.there = user.there
  PROVE  /\ KeysAge
         /\ keys' \in [DOMAIN keys' -> Key] /\ DOMAIN keys' \subseteq Ids
BY DEF KeysAge, Aged, TypeOK

\* The rows that are revoked stay the keys they were.
LEMMA RevokeAllAges ==
  ASSUME TypeOK, NEW some, RevokeAll(some), UNCHANGED user
  PROVE  /\ KeysAge
         /\ keys' \in [DOMAIN keys' -> Key] /\ DOMAIN keys' \subseteq Ids
<1>1. DOMAIN keys' = DOMAIN keys
  BY DEF RevokeAll
<1>2. ASSUME NEW k \in DOMAIN keys
      PROVE  keys'[k] \in Key /\ Aged(k)
  <2>1. keys[k] \in Key
    BY KeyTyped
  <2>2. keys'[k] = IF k \in some THEN [keys[k] EXCEPT !.revoked = TRUE] ELSE keys[k]
    BY DEF RevokeAll
  <2>3. CASE k \in some
    BY <2>1, <2>2, <2>3 DEF Key, Aged
  <2>4. CASE k \notin some
    BY <2>1, <2>2, <2>4 DEF Aged
  <2> QED
    BY <2>3, <2>4
<1>3. keys' = [k \in DOMAIN keys' |-> keys'[k]]
  BY DEF RevokeAll
<1> QED
  BY <1>1, <1>2, <1>3 DEF KeysAge, TypeOK

\* A row of which one column changes that neither name nor scopes are.
LEMMA OneKeyAges ==
  ASSUME TypeOK, NEW k \in DOMAIN keys, NEW row \in Key,
         keys' = [keys EXCEPT ![k] = row], UNCHANGED user,
         row.name = keys[k].name, row.scopes = keys[k].scopes,
         keys[k].revoked => row.revoked, keys[k].expired => row.expired
  PROVE  /\ KeysAge
         /\ keys' \in [DOMAIN keys' -> Key] /\ DOMAIN keys' \subseteq Ids
BY DEF KeysAge, Aged, TypeOK

LEMMA InsertAdds ==
  ASSUME KeysInv, NEW row \in Key, user.there, UNCHANGED <<user, scene>>,
         keys' = With(keys, NextId, row), NextId <= scene.keys
  PROVE  /\ KeyAdded /\ keys'[NextId] = row
         /\ keys' \in [DOMAIN keys' -> Key] /\ DOMAIN keys' \subseteq Ids
<1>1. /\ DOMAIN keys' = DOMAIN keys \cup {NextId}
      /\ keys'[NextId] = row
      /\ \A j \in DOMAIN keys \ {NextId} : keys'[j] = keys[j]
  BY DEF With
<1>2. /\ NextId \notin DOMAIN keys /\ NextId \in Nat \ {0}
      /\ scene.keys \in Nat /\ scene.keys <= MaxKeys
  BY NextIdNew DEF KeysInv
<1>3. NextId \in Ids
  BY <1>2, BoundsAssumption DEF Ids
<1>4. keys' = [j \in DOMAIN keys' |-> keys'[j]]
  BY DEF With
<1>5. \A j \in DOMAIN keys' : keys'[j] \in Key
  BY <1>1, KeyTyped DEF KeysInv
<1> QED
  BY <1>1, <1>2, <1>3, <1>4, <1>5 DEF KeyAdded, KeysInv, TypeOK

-----------------------------------------------------------------------------
(* Who is inserting.                                                       *)

LEMMA InsertingSame ==
  ASSUME NEW s \in Slots, req[s].pc # "insert", req'[s].pc # "insert",
         \A t \in Slots \ {s} : req'[t] = req[t]
  PROVE  Inserting' = Inserting
BY DEF Inserting

LEMMA InsertingMore ==
  ASSUME NEW s \in Slots, req[s].pc # "insert", req'[s].pc = "insert",
         \A t \in Slots \ {s} : req'[t] = req[t]
  PROVE  Cardinality(Inserting') = Cardinality(Inserting) + 1
<1>1. Inserting' = Inserting \cup {s} /\ s \notin Inserting
  BY DEF Inserting
<1> QED
  BY <1>1, InsertingFinite, FS_AddElement

LEMMA InsertingFewer ==
  ASSUME NEW s \in Slots, req[s].pc = "insert", req'[s].pc # "insert",
         \A t \in Slots \ {s} : req'[t] = req[t]
  PROVE  Cardinality(Inserting') = Cardinality(Inserting) - 1
<1>1. Inserting' = Inserting \ {s} /\ s \in Inserting
  BY DEF Inserting
<1> QED
  BY <1>1, InsertingFinite, FS_RemoveElement

\* The numbers go on.
LEMMA NumberedStep ==
  ASSUME KeysInv, UNCHANGED scene, Cardinality(Inserting') \in Nat,
         \/ /\ KeysAge
            /\ Cardinality(DOMAIN keys) + Cardinality(Inserting') <= scene.keys
         \/ KeyAdded /\ NextId + Cardinality(Inserting') <= scene.keys
         \/ KeysGone /\ Cardinality(Inserting') <= scene.keys
  PROVE  Numbered' /\ Emptied'
<1>1. PICK n \in Nat : DOMAIN keys = 1..n
  BY DEF KeysInv, Numbered
<1>2. Cardinality(DOMAIN keys) = n /\ NextId = n + 1
  <2>1. Cardinality(1..n) = n
    BY FS_Interval
  <2> QED
    BY <1>1, <2>1 DEF NextId
<1>3. CASE /\ KeysAge
           /\ Cardinality(DOMAIN keys) + Cardinality(Inserting') <= scene.keys
  BY <1>1, <1>2, <1>3 DEF KeysAge, KeysInv, Numbered, Emptied
<1>4. CASE KeyAdded /\ NextId + Cardinality(Inserting') <= scene.keys
  <2>1. DOMAIN keys' = 1..(n + 1)
    BY <1>1, <1>2, <1>4 DEF KeyAdded
  <2> QED
    BY <1>2, <1>4, <2>1 DEF KeyAdded, Numbered, Emptied
<1>5. CASE KeysGone /\ Cardinality(Inserting') <= scene.keys
  <2>1. DOMAIN keys' = 1..0
    BY <1>5 DEF KeysGone
  <2> QED
    BY <1>5, <2>1 DEF KeysGone, Numbered, Emptied
<1> QED
  BY <1>3, <1>4, <1>5

-----------------------------------------------------------------------------
(* Type correctness, one lemma per kind of action.                         *)

KeyStep == KeysAge \/ KeyAdded \/ KeysGone

\* An action that only moves a request on, between states that insert
\* nothing.
LEMMA QuietStep ==
  ASSUME KeysInv, NEW s \in Slots, NEW r \in Request, SetReq(s, r),
         req[s].pc # "insert", r.pc # "insert",
         UNCHANGED <<scene, user, enabled, keys, reveal, lost>>,
         shown' \in [Ids -> Nat]
  PROVE  /\ KeysInv' /\ KeysAge
         /\ req'[s] = r /\ \A t \in Slots \ {s} : req'[t] = req[t]
<1>1. /\ req' \in [Slots -> Request]
      /\ req'[s] = r /\ \A t \in Slots \ {s} : req'[t] = req[t]
  BY ReqAssigned DEF KeysInv, TypeOK
<1>2. Inserting' = Inserting
  BY <1>1, InsertingSame
<1>3. KeysAge
  BY SameKeys DEF KeysInv
<1> QED
  BY <1>1, <1>2, <1>3 DEF KeysInv, TypeOK, Numbered, Emptied

LEMMA CreateReadStep ==
  ASSUME KeysInv, NEW s \in Slots, CreateRead(s)
  PROVE  KeysInv' /\ KeysAge
<1>1. PICK name \in Names, json \in BOOLEAN, scopes \in ScopeSets :
        SetReq(s, [pc |-> "insert", name |-> name, scopes |-> scopes,
                   json |-> json])
  BY ScopesAssumption DEF CreateRead, Names
<1> DEFINE r == [pc |-> "insert", name |-> name, scopes |-> scopes,
                 json |-> json]
<1>2. r \in Request
  BY DEF Request
<1>3. /\ req' \in [Slots -> Request]
      /\ req'[s] = r /\ \A t \in Slots \ {s} : req'[t] = req[t]
  BY <1>1, <1>2, ReqAssigned DEF KeysInv, TypeOK
<1>4. Cardinality(Inserting') = Cardinality(Inserting) + 1
  BY <1>3, InsertingMore DEF CreateRead, Free
<1>5. KeysAge
  BY SameKeys DEF KeysInv, CreateRead
<1>6. Cardinality(DOMAIN keys) + Cardinality(Inserting') <= scene.keys
  BY <1>4, NextIdNew, InsertingFinite DEF CreateRead, KeysInv
<1>7. Numbered' /\ Emptied'
  BY <1>4, <1>5, <1>6, InsertingFinite, NumberedStep DEF CreateRead
<1> QED
  BY <1>3, <1>5, <1>7 DEF CreateRead, KeysInv, TypeOK

LEMMA CreateInsertStep ==
  ASSUME KeysInv, NEW s \in Slots, CreateInsert(s)
  PROVE  /\ KeysInv'
         /\ Cardinality(Inserting') = Cardinality(Inserting) - 1
         /\ \/ KeysAge /\ UNCHANGED <<keys, reveal, shown>>
            \/ /\ KeyAdded
               /\ reveal' = With(reveal, NextId, "pending")
               /\ DOMAIN reveal' = DOMAIN reveal \cup {NextId}
               /\ shown' = ShownAtCreation(req[s], NextId)
<1> DEFINE r == req[s]
<1>1. r.name \in Names /\ r.scopes \in ScopeSets
  BY RequestKinds DEF CreateInsert, KeysInv, TypeOK
<1>2. /\ req' \in [Slots -> Request]
      /\ req'[s].pc = "idle" /\ \A t \in Slots \ {s} : req'[t] = req[t]
  BY Answered DEF CreateInsert, KeysInv, TypeOK
<1>3. /\ Cardinality(Inserting') = Cardinality(Inserting) - 1
      /\ s \in Inserting
  BY <1>2, InsertingFewer DEF CreateInsert, Inserting
<1>4. Cardinality(Inserting) > 0
  BY <1>3, InsertingFinite, FS_EmptySet
<1>5. CASE user.there
  <2> DEFINE row == NewKey(r.name, r.scopes)
  <2>0. row \in Key
    BY <1>1, NewKeyType
  <2>1. NextId + Cardinality(Inserting') <= scene.keys /\ NextId <= scene.keys
    BY <1>3, <1>4, NextIdNew, InsertingFinite DEF KeysInv
  <2>2. /\ keys' = With(keys, NextId, row)
        /\ reveal' = With(reveal, NextId, "pending")
        /\ shown' = ShownAtCreation(r, NextId)
        /\ UNCHANGED <<user, scene, enabled, lost>>
    BY <1>5 DEF CreateInsert
  <2> HIDE DEF row, r
  <2>3. /\ KeyAdded
        /\ keys' \in [DOMAIN keys' -> Key] /\ DOMAIN keys' \subseteq Ids
    BY <1>5, <2>0, <2>1, <2>2, InsertAdds
  <2>4. Numbered' /\ Emptied'
    BY <1>3, <1>4, <2>1, <2>2, <2>3, InsertingFinite, NumberedStep
  <2>5. DOMAIN reveal' = DOMAIN reveal \cup {NextId}
    BY <2>2 DEF With
  <2>6. /\ DOMAIN reveal' \subseteq DOMAIN keys'
        /\ reveal' \in [DOMAIN reveal' -> {"pending", "marked"}]
    BY <2>2, <2>3, <2>5 DEF KeyAdded, With, KeysInv, TypeOK
  <2>7. shown' \in [Ids -> Nat]
    <3>1. NextId \in Ids /\ shown \in [Ids -> Nat]
      BY <2>3 DEF KeyAdded, KeysInv, TypeOK
    <3>2. shown[NextId] + 1 \in Nat
      BY <3>1
    <3> HIDE DEF NextId
    <3> QED
      BY <2>2, <3>1, <3>2 DEF ShownAtCreation
  <2>8. TypeOK'
    BY <1>2, <2>2, <2>3, <2>6, <2>7 DEF KeysInv, TypeOK
  <2> QED
    BY <1>3, <2>2, <2>3, <2>4, <2>5, <2>8 DEF KeysInv, r
<1>6. CASE ~user.there
  <2>1. UNCHANGED <<keys, reveal, shown, scene, user, enabled, lost>>
    BY <1>6 DEF CreateInsert
  <2>2. KeysAge
    BY <2>1, SameKeys DEF KeysInv
  <2>3. Cardinality(DOMAIN keys) + Cardinality(Inserting') <= scene.keys
    BY <1>3, <1>4, NextIdNew, InsertingFinite DEF KeysInv, NextId
  <2>4. Numbered' /\ Emptied'
    BY <1>3, <1>4, <2>1, <2>2, <2>3, InsertingFinite, NumberedStep
  <2>5. TypeOK'
    BY <1>2, <2>1 DEF KeysInv, TypeOK
  <2> QED
    BY <1>3, <2>1, <2>2, <2>4, <2>5 DEF KeysInv
<1> QED
  BY <1>5, <1>6

LEMMA IssueBrowserKeyStep ==
  ASSUME KeysInv, IssueBrowserKey
  PROVE  KeysInv' /\ KeyAdded /\ keys'[NextId].name = "browser-session"
<1> DEFINE row == NewKey("browser-session", BrowserScopes)
<1>1. row \in Key /\ row.name = "browser-session"
  BY NewKeyType, ScopesAssumption DEF Names, NewKey
<1>2. /\ keys' = With(keys, NextId, row)
      /\ reveal' = With(reveal, NextId, "marked")
      /\ UNCHANGED <<user, scene, enabled, req, shown, lost>>
      /\ user.there
  BY DEF IssueBrowserKey, SignedIn
<1>3. Inserting' = Inserting
  BY <1>2 DEF Inserting
<1>4. NextId + Cardinality(Inserting') <= scene.keys /\ NextId <= scene.keys
  BY <1>3, NextIdNew, InsertingFinite DEF IssueBrowserKey, KeysInv, NextId
<1> HIDE DEF row
<1>5. /\ KeyAdded /\ keys'[NextId] = row
      /\ keys' \in [DOMAIN keys' -> Key] /\ DOMAIN keys' \subseteq Ids
  BY <1>1, <1>2, <1>4, InsertAdds
<1>6. Numbered' /\ Emptied'
  BY <1>2, <1>3, <1>4, <1>5, InsertingFinite, NumberedStep
<1>7. DOMAIN reveal' = DOMAIN reveal \cup {NextId}
  BY <1>2 DEF With
<1>8. /\ DOMAIN reveal' \subseteq DOMAIN keys'
      /\ reveal' \in [DOMAIN reveal' -> {"pending", "marked"}]
  BY <1>2, <1>5, <1>7 DEF KeyAdded, With, KeysInv, TypeOK
<1>9. TypeOK'
  BY <1>2, <1>5, <1>8 DEF KeysInv, TypeOK
<1> QED
  BY <1>1, <1>5, <1>6, <1>9 DEF KeysInv

LEMMA ShowReadStep ==
  ASSUME KeysInv, NEW s \in Slots, ShowRead(s)
  PROVE  KeysInv' /\ KeysAge
<1>1. PICK page \in BOOLEAN :
        SetReq(s, [pc |-> "mark", rows |-> PendingRows, page |-> page])
  BY DEF ShowRead, Displays
<1>2. PendingRows \in SUBSET Ids
  BY DEF PendingRows, KeysInv, TypeOK
<1>3. [pc |-> "mark", rows |-> PendingRows, page |-> page] \in Request
  BY <1>2 DEF Request
<1> QED
  BY <1>1, <1>3, QuietStep DEF ShowRead, Free, KeysInv, TypeOK

\* What the commit of a display does to a request's rows.
LEMMA ShowMarkStep ==
  ASSUME KeysInv, NEW s \in Slots, ShowMark(s)
  PROVE  KeysInv' /\ KeysAge
<1> DEFINE r == req[s]
<1>1. r.rows \in SUBSET Ids
  BY RequestKinds DEF ShowMark, KeysInv, TypeOK
<1>2. /\ req' \in [Slots -> Request]
      /\ req'[s].pc = "idle" /\ \A t \in Slots \ {s} : req'[t] = req[t]
  BY Answered DEF ShowMark, KeysInv, TypeOK
<1>3. Inserting' = Inserting
  BY <1>2, InsertingSame DEF ShowMark
<1>4. UNCHANGED <<scene, user, enabled, keys>>
  BY DEF ShowMark
<1>5. /\ DOMAIN reveal' = DOMAIN reveal
      /\ reveal' \in [DOMAIN reveal -> {"pending", "marked"}]
  BY DEF ShowMark, KeysInv, TypeOK
<1>6. shown' \in [Ids -> Nat] /\ lost' \subseteq Ids
  BY <1>1 DEF ShowMark, KeysInv, TypeOK
<1>7. KeysAge
  BY <1>4, SameKeys DEF KeysInv
<1> QED
  BY <1>2, <1>3, <1>4, <1>5, <1>6, <1>7 DEF KeysInv, TypeOK, Numbered, Emptied

\* An action on the keys alone, after which they are the keys they were.
LEMMA AgingStep ==
  ASSUME KeysInv, KeysAge, keys' \in [DOMAIN keys' -> Key],
         UNCHANGED <<scene, enabled, reveal, req, shown, lost>>,
         user' \in User
  PROVE  KeysInv'
<1>1. Inserting' = Inserting
  BY DEF Inserting
<1> QED
  BY <1>1 DEF KeysAge, KeysInv, TypeOK, Numbered, Emptied

LEMMA RevokeStep ==
  ASSUME KeysInv,
         RevokeByAdmin \/ RevokeBrowserKeys \/ \E k \in Ids : RevokeOwn(k)
  PROVE  KeysInv' /\ KeysAge
<1>1. PICK some : RevokeAll(some)
  BY DEF RevokeByAdmin, RevokeBrowserKeys, RevokeOwn
<1>2. UNCHANGED <<scene, user, enabled, reveal, req, shown, lost>>
  BY DEF RevokeByAdmin, RevokeBrowserKeys, RevokeOwn
<1>3. KeysAge /\ keys' \in [DOMAIN keys' -> Key]
  BY <1>1, <1>2, RevokeAllAges DEF KeysInv
<1> QED
  BY <1>2, <1>3, AgingStep DEF KeysInv, TypeOK

LEMMA TimeStep ==
  ASSUME KeysInv, NEW k \in Ids, Expire(k) \/ Unused(k)
  PROVE  KeysInv' /\ KeysAge
<1>1. k \in DOMAIN keys /\ keys[k] \in Key
  BY KeyTyped DEF KeysInv, Expire, Unused
<1>2. UNCHANGED <<scene, user, enabled, reveal, req, shown, lost>>
  BY DEF Expire, Unused
<1>3. PICK row \in Key : /\ keys' = [keys EXCEPT ![k] = row]
                         /\ row.name = keys[k].name
                         /\ row.scopes = keys[k].scopes
                         /\ keys[k].revoked => row.revoked
                         /\ keys[k].expired => row.expired
  <2>1. CASE Expire(k)
    <3>1. [keys[k] EXCEPT !.expired = TRUE] \in Key
      BY <1>1 DEF Key
    <3> QED
      BY <1>1, <2>1, <3>1 DEF Expire, Key
  <2>2. CASE Unused(k)
    <3>1. [keys[k] EXCEPT !.fresh = FALSE] \in Key
      BY <1>1 DEF Key
    <3> QED
      BY <1>1, <2>2, <3>1 DEF Unused, Key
  <2> QED
    BY <2>1, <2>2
<1>4. KeysAge /\ keys' \in [DOMAIN keys' -> Key]
  BY <1>1, <1>2, <1>3, OneKeyAges DEF KeysInv
<1> QED
  BY <1>2, <1>4, AgingStep DEF KeysInv, TypeOK

LEMMA UserStep ==
  ASSUME KeysInv, UserEdited \/ AddonSwitched
  PROVE  KeysInv' /\ KeysAge
<1>1. UNCHANGED <<scene, keys, reveal, req, shown, lost>>
  BY DEF UserEdited, AddonSwitched
<1>2. user' \in User /\ user'.there = user.there /\ enabled' \in BOOLEAN
  BY DEF UserEdited, AddonSwitched, KeysInv, TypeOK, User
<1>3. KeysAge
  BY <1>1, <1>2, SameKeys DEF KeysInv
<1>4. Inserting' = Inserting
  BY <1>1 DEF Inserting
<1> QED
  BY <1>1, <1>2, <1>3, <1>4 DEF KeysInv, TypeOK, Numbered, Emptied

LEMMA UserDeletedStep ==
  ASSUME KeysInv, UserDeleted
  PROVE  KeysInv' /\ KeysGone /\ DOMAIN reveal' = {}
<1>1. DOMAIN keys' = {} /\ DOMAIN reveal' = {}
  BY DEF UserDeleted, RevealsLeft
<1>2. user' \in User /\ ~user'.there
  BY DEF UserDeleted, KeysInv, TypeOK, User
<1>3. UNCHANGED <<scene, enabled, req, shown, lost>>
  BY DEF UserDeleted
<1>4. Inserting' = Inserting
  BY <1>3 DEF Inserting
<1>5. /\ keys' \in [DOMAIN keys' -> Key]
      /\ reveal' \in [DOMAIN reveal' -> {"pending", "marked"}]
  BY <1>1 DEF UserDeleted, RevealsLeft
<1>6. TypeOK'
  BY <1>1, <1>2, <1>3, <1>5 DEF KeysInv, TypeOK
<1>7. Cardinality(Inserting') <= scene.keys
  BY <1>4, NextIdNew, InsertingFinite DEF KeysInv, NextId
<1>8. Numbered' /\ Emptied'
  BY <1>1, <1>2, <1>3, <1>4, <1>7, InsertingFinite, NumberedStep DEF KeysGone
<1> QED
  BY <1>1, <1>2, <1>6, <1>8 DEF KeysInv, KeysGone

\* The requests that are calls keep their types.
LEMMA CallStep ==
  ASSUME KeysInv, NEW s \in Slots,
         CallRead(s) \/ CallTouch(s) \/ CallGuard(s) \/ CallEnds(s)
  PROVE  /\ KeysInv' /\ KeysAge
         /\ req'[s].pc \notin {"insert", "mark"}
         /\ \A t \in Slots \ {s} : req'[t] = req[t]
<1> USE DEF KeysInv
<1> DEFINE Calls == [pc : {"touch", "guard", "served"}, key : Ids, row : Key,
                     who : User, end : Endpoints]
<1>0. /\ Calls \subseteq Request
      /\ req[s].pc \in {"touch", "guard", "served"} => req[s] \in Calls
      /\ user \in User /\ shown \in [Ids -> Nat]
      /\ req \in [Slots -> Request]
  BY RequestKinds DEF Request, TypeOK
<1>1. CASE CallRead(s)
  <2>1. PICK k \in DOMAIN keys, end \in Endpoints :
          SetReq(s, [pc |-> IF keys[k].fresh THEN "guard" ELSE "touch",
                     key |-> k, row |-> keys[k], who |-> user, end |-> end])
    BY <1>1 DEF CallRead
  <2> DEFINE r == [pc |-> IF keys[k].fresh THEN "guard" ELSE "touch",
                   key |-> k, row |-> keys[k], who |-> user, end |-> end]
  <2>2. r \in Request /\ r.pc \notin {"insert", "mark"}
    BY <1>0, KeyTyped DEF Request
  <2> HIDE DEF r
  <2>3. SetReq(s, r)
    BY <2>1 DEF r
  <2>4. /\ req[s].pc # "insert" /\ shown' = shown
        /\ UNCHANGED <<scene, user, enabled, keys, reveal, lost>>
    BY <1>1 DEF CallRead, Free
  <2> QED
    BY <1>0, <2>2, <2>3, <2>4, QuietStep
<1>2. CASE CallTouch(s)
  <2> DEFINE r == req[s]
  <2>0. r.pc = "touch" /\ r \in Calls
    BY <1>0, <1>2 DEF CallTouch
  <2>1. CASE r.key \in DOMAIN keys
    <3> DEFINE row == Touched(keys[r.key], r.row)
               n   == [r EXCEPT !.pc = "guard", !.row = row, !.who = user]
    <3>0. keys[r.key] \in Key
      BY <2>1, KeyTyped
    <3>1. /\ row \in Key
          /\ row.name = keys[r.key].name /\ row.scopes = keys[r.key].scopes
          /\ row.revoked = keys[r.key].revoked
          /\ row.expired = keys[r.key].expired
      BY <3>0 DEF Touched, Key
    <3>2. keys' = [keys EXCEPT ![r.key] = row] /\ keys'[r.key] = row
      BY <1>2, <2>1 DEF CallTouch
    <3> HIDE DEF row
    <3>3. KeysAge /\ keys' \in [DOMAIN keys' -> Key] /\ DOMAIN keys' \subseteq Ids
      BY <1>2, <2>1, <3>1, <3>2, OneKeyAges DEF CallTouch
    <3>4. n \in Calls /\ n.pc \notin {"insert", "mark"}
      BY <1>0, <2>0, <3>1
    <3>5. SetReq(s, n)
      BY <1>2, <2>1, <3>2 DEF CallTouch
    <3> HIDE DEF n, r, Calls
    <3>6. /\ req' \in [Slots -> Request]
          /\ req'[s] = n /\ \A t \in Slots \ {s} : req'[t] = req[t]
      BY <1>0, <3>4, <3>5, ReqAssigned
    <3>7. Inserting' = Inserting
      BY <2>0, <3>4, <3>6, InsertingSame DEF r
    <3>8. UNCHANGED <<scene, user, enabled, reveal, shown, lost>>
      BY <1>2 DEF CallTouch
    <3> QED
      BY <3>3, <3>4, <3>6, <3>7, <3>8 DEF TypeOK, Numbered, Emptied, KeysAge
  <2>2. CASE r.key \notin DOMAIN keys
    <3>1. SetReq(s, [pc |-> "idle"]) /\ UNCHANGED keys
      BY <1>2, <2>2 DEF CallTouch, Answer
    <3> QED
      BY <1>0, <1>2, <2>0, <3>1, IdleRequest, QuietStep DEF CallTouch
  <2> QED
    BY <2>1, <2>2
<1>3. CASE CallGuard(s)
  <2>0. req[s].pc = "guard" /\ req[s] \in Calls
    BY <1>0, <1>3 DEF CallGuard
  <2>1. [req[s] EXCEPT !.pc = "served"] \in Request
    BY <1>0, <2>0
  <2>2. PICK r \in Request : SetReq(s, r) /\ r.pc \notin {"insert", "mark"}
    BY <1>3, <2>0, <2>1, IdleRequest DEF CallGuard, Answer
  <2>3. /\ shown' = shown
        /\ UNCHANGED <<scene, user, enabled, keys, reveal, lost>>
    BY <1>3 DEF CallGuard
  <2> QED
    BY <1>0, <2>0, <2>2, <2>3, QuietStep
<1>4. CASE CallEnds(s)
  BY <1>0, <1>4, IdleRequest, QuietStep DEF CallEnds, Answer
<1> QED
  BY <1>1, <1>2, <1>3, <1>4

\* The keys of a step, and that it keeps the types and the numbers.
LEMMA NextStep ==
  ASSUME KeysInv, [Next]_vars
  PROVE  KeysInv' /\ KeyStep
<1> USE DEF KeyStep
<1>1. CASE UNCHANGED vars
  <2>1. KeysAge
    BY <1>1, SameKeys DEF vars, KeysInv
  <2>2. Inserting' = Inserting
    BY <1>1 DEF vars, Inserting
  <2> QED
    BY <1>1, <2>1, <2>2 DEF vars, KeysInv, TypeOK, Numbered, Emptied
<1>2. ASSUME NEW s \in Slots,
             CreateRead(s) \/ CreateInsert(s) \/ ShowRead(s) \/ ShowMark(s)
      PROVE  KeysInv' /\ KeyStep
  BY <1>2, CreateReadStep, CreateInsertStep, ShowReadStep, ShowMarkStep
<1>3. ASSUME NEW s \in Slots,
             CallRead(s) \/ CallTouch(s) \/ CallGuard(s) \/ CallEnds(s)
      PROVE  KeysInv' /\ KeyStep
  BY <1>3, CallStep
<1>4. ASSUME NEW k \in Ids, RevokeOwn(k) \/ Expire(k) \/ Unused(k)
      PROVE  KeysInv' /\ KeyStep
  BY <1>4, RevokeStep, TimeStep
<1>5. CASE IssueBrowserKey \/ RevokeByAdmin \/ RevokeBrowserKeys
  BY <1>5, IssueBrowserKeyStep, RevokeStep
<1>6. CASE UserEdited \/ AddonSwitched \/ UserDeleted
  BY <1>6, UserStep, UserDeletedStep
<1> QED
  BY <1>1, <1>2, <1>3, <1>4, <1>5, <1>6 DEF Next

\* The state is of its type: keys and reveal rows have numbers there are, rows
\* refer to rows, and requests hold what they read (the tables api_tokens and
\* api_token_reveals, and the requests on them).
THEOREM TypeCorrect == Spec => []TypeOK
<1>1. KeysInv /\ [Next]_vars => KeysInv'
  BY NextStep
<1>2. KeysInv => TypeOK
  BY DEF KeysInv
<1> QED
  BY KeysInit, <1>1, <1>2, PTL DEF Spec

LEMMA KeysInvariant == Spec => []KeysInv
<1>1. KeysInv /\ [Next]_vars => KeysInv'
  BY NextStep
<1> QED
  BY KeysInit, <1>1, PTL DEF Spec

-----------------------------------------------------------------------------
(* Revocation.                                                             *)

\* A revoked key stays revoked, also when a request that was validated before
\* the revocation commits its use after it (validate_api_token).
THEOREM RevocationLasts == Spec => RevokedStays
<1>1. ASSUME KeysInv, [Next]_vars
      PROVE  \A k \in DOMAIN keys :
               keys[k].revoked => k \notin DOMAIN keys' \/ keys'[k].revoked
  BY <1>1, NextStep DEF KeyStep, KeysAge, Aged, KeyAdded, KeysGone
<1> QED
  BY KeysInvariant, <1>1, PTL DEF Spec, RevokedStays

-----------------------------------------------------------------------------
(* The limit.                                                              *)

\* What the actions that neither create nor show keys leave alone.
Beside ==
  /\ \/ KeysAge /\ UNCHANGED reveal
     \/ KeysGone /\ DOMAIN reveal' = {}
  /\ UNCHANGED <<shown, lost>>
  /\ \A t \in Slots : req'[t].pc \in {"insert", "mark"} => req'[t] = req[t]

LEMMA BesideStep ==
  ASSUME KeysInv,
         \/ \E s \in Slots : \/ CallRead(s) \/ CallTouch(s) \/ CallGuard(s)
                            \/ CallEnds(s)
         \/ \E k \in Ids : RevokeOwn(k) \/ Expire(k) \/ Unused(k)
         \/ RevokeByAdmin \/ RevokeBrowserKeys
         \/ UserEdited \/ AddonSwitched \/ UserDeleted \/ UNCHANGED vars
  PROVE  Beside
<1> USE DEF Beside, KeysInv
<1>1. ASSUME NEW s \in Slots,
             CallRead(s) \/ CallTouch(s) \/ CallGuard(s) \/ CallEnds(s)
      PROVE  Beside
  <2>1. KeysAge
    BY <1>1, CallStep
  <2>2. UNCHANGED <<reveal, shown, lost>>
    BY <1>1 DEF CallRead, CallTouch, CallGuard, CallEnds
  <2>3. /\ req'[s].pc \notin {"insert", "mark"}
        /\ \A t \in Slots \ {s} : req'[t] = req[t]
    BY <1>1, CallStep
  <2> QED
    BY <2>1, <2>2, <2>3
<1>2. CASE \/ \E k \in Ids : RevokeOwn(k) \/ Expire(k) \/ Unused(k)
           \/ RevokeByAdmin \/ RevokeBrowserKeys \/ UserEdited \/ AddonSwitched
  <2>1. KeysAge
    BY <1>2, RevokeStep, TimeStep, UserStep
  <2>2. UNCHANGED <<reveal, req, shown, lost>>
    BY <1>2 DEF RevokeOwn, Expire, Unused, RevokeByAdmin, RevokeBrowserKeys,
                UserEdited, AddonSwitched
  <2> QED
    BY <2>1, <2>2
<1>3. CASE UserDeleted
  BY <1>3, UserDeletedStep DEF UserDeleted
<1>4. CASE UNCHANGED vars
  BY <1>4, SameKeys DEF vars
<1> QED
  BY <1>1, <1>2, <1>3, <1>4

LEMMA ManagedFinite ==
  /\ KeysInv => IsFiniteSet(Managed) /\ Cardinality(Managed) \in Nat
  /\ KeysInv' => IsFiniteSet(Managed') /\ Cardinality(Managed') \in Nat
<1>1. ASSUME NEW n \in Nat, NEW S \in SUBSET (1..n)
      PROVE  IsFiniteSet(S) /\ Cardinality(S) \in Nat
  <2>1. IsFiniteSet(1..n)
    BY FS_Interval
  <2> QED
    BY <2>1, FS_Subset, FS_CardinalityType
<1>2. KeysInv => \E n \in Nat : Managed \in SUBSET (1..n)
  BY DEF KeysInv, Numbered, Managed
<1>3. KeysInv' => \E n \in Nat : Managed' \in SUBSET (1..n)
  BY DEF KeysInv, Numbered, Managed
<1> QED
  BY <1>1, <1>2, <1>3

\* Keys that age count no more than before.
LEMMA ManagedShrinks ==
  ASSUME KeysInv, KeysAge \/ KeysGone
  PROVE  Cardinality(Managed') <= Cardinality(Managed)
<1>1. Managed' \in SUBSET Managed
  BY DEF Managed, Valid, KeysAge, Aged, KeysGone
<1> QED
  BY <1>1, ManagedFinite, FS_Subset

LEMMA ManagedGrows ==
  ASSUME KeysInv, KeyAdded
  PROVE  /\ Cardinality(Managed') <= Cardinality(Managed) + 1
         /\ keys'[NextId].name # "personal"
              => Cardinality(Managed') <= Cardinality(Managed)
<1>1. /\ Managed' \in SUBSET (Managed \cup {NextId})
      /\ keys'[NextId].name # "personal" => Managed' \in SUBSET Managed
  <2>1. NextId \notin DOMAIN keys
    BY NextIdNew DEF KeysInv
  <2> HIDE DEF NextId
  <2> QED
    BY <2>1 DEF Managed, Valid, KeyAdded
<1>2. /\ IsFiniteSet(Managed \cup {NextId})
      /\ Cardinality(Managed \cup {NextId}) <= Cardinality(Managed) + 1
      /\ Cardinality(Managed \cup {NextId}) \in Nat
  <2>1. /\ IsFiniteSet(Managed) /\ Cardinality(Managed) \in Nat
    BY ManagedFinite
  <2> HIDE DEF NextId
  <2> QED
    BY <2>1, FS_AddElement, FS_CardinalityType
<1>3. /\ Cardinality(Managed') <= Cardinality(Managed \cup {NextId})
      /\ Cardinality(Managed') \in Nat
  BY <1>1, <1>2, FS_Subset, FS_CardinalityType
<1>4. keys'[NextId].name # "personal"
        => Cardinality(Managed') <= Cardinality(Managed)
  BY <1>1, ManagedFinite, FS_Subset
<1> QED
  BY <1>2, <1>3, <1>4, ManagedFinite

LEMMA BoundedStep ==
  ASSUME KeysInv, KeysBounded, [Next]_vars
  PROVE  KeysBounded'
<1> DEFINE m == Cardinality(Managed)
           i == Cardinality(Inserting)
           c == Cardinality(Slots)
<1>0. /\ m \in Nat /\ i \in Nat /\ c \in Nat /\ m' \in Nat /\ i' \in Nat
      /\ i <= c /\ i' <= c
      /\ m + i <= Limit + c - 1 /\ Limit \in Nat
  <2>1. KeysInv'
    BY NextStep
  <2>2. m \in Nat /\ m' \in Nat
    BY <2>1, ManagedFinite
  <2>3. i \in Nat /\ i <= c /\ c \in Nat
    BY InsertingFinite
  <2>4. i' \in Nat /\ i' <= c
    <3>1. Inserting' \in SUBSET Slots
      BY DEF Inserting
    <3> QED
      BY <3>1, SlotsAssumption, FS_Subset, FS_CardinalityType
  <2> QED
    BY <2>2, <2>3, <2>4, BoundsAssumption DEF KeysBounded
<1> SUFFICES m' + i' <= Limit + c - 1
  BY DEF KeysBounded
<1>1. ASSUME NEW s \in Slots, CreateRead(s)
      PROVE  m' + i' <= Limit + c - 1
  <2>1. m' <= m
    BY <1>1, CreateReadStep, ManagedShrinks
  <2>2. m < Limit
    BY <1>1 DEF CreateRead, MayCreate
  <2> QED
    BY <1>0, <2>1, <2>2
<1>2. ASSUME NEW s \in Slots, CreateInsert(s)
      PROVE  m' + i' <= Limit + c - 1
  <2>1. i' = i - 1 /\ m' <= m + 1
    BY <1>0, <1>2, CreateInsertStep, ManagedShrinks, ManagedGrows
  <2> QED
    BY <1>0, <2>1
<1>3. ASSUME Inserting' \subseteq Inserting, m' <= m
      PROVE  m' + i' <= Limit + c - 1
  <2>1. i' <= i
    BY <1>3, InsertingFinite, FS_Subset
  <2> QED
    BY <1>0, <1>3, <2>1
<1>4. ASSUME NEW s \in Slots, ShowRead(s) \/ ShowMark(s)
      PROVE  m' + i' <= Limit + c - 1
  <2>1. Inserting' \subseteq Inserting
    BY <1>4 DEF ShowRead, ShowMark, SetReq, Answer, Inserting, KeysInv, TypeOK
  <2> QED
    BY <1>3, <1>4, <2>1, ShowReadStep, ShowMarkStep, ManagedShrinks
<1>5. CASE IssueBrowserKey
  <2>1. Inserting' \subseteq Inserting
    BY <1>5 DEF IssueBrowserKey, Inserting
  <2> QED
    BY <1>3, <1>5, <2>1, IssueBrowserKeyStep, ManagedGrows
<1>6. CASE Beside
  <2>1. Inserting' \subseteq Inserting
    BY <1>6 DEF Beside, Inserting
  <2> QED
    BY <1>3, <1>6, <2>1, ManagedShrinks DEF Beside
<1> QED
  BY <1>1, <1>2, <1>4, <1>5, <1>6, BesideStep DEF Next

\* The limit is checked on a count read before the insert: requests served
\* together may pass it, by one less than their number
\* (_create_personal_api_key).
THEOREM LimitHolds == Spec => []KeysBounded
<1>1. Init => KeysBounded
  <2> SUFFICES ASSUME Init PROVE KeysBounded
    OBVIOUS
  <2>1. Managed = {} /\ Inserting = {}
    BY DEF Init, Managed, Inserting
  <2> QED
    BY <2>1, FS_EmptySet, InsertingFinite, BoundsAssumption DEF KeysBounded
<1>2. KeysInv /\ KeysBounded /\ [Next]_vars => KeysBounded'
  BY BoundedStep
<1> QED
  BY KeysInvariant, <1>1, <1>2, PTL DEF Spec

-----------------------------------------------------------------------------
(* Displays.                                                               *)

\* A key whose reveal row is marked was displayed, or is lost because a
\* settings form was saved in between; no interleaving of loads and creations
\* hides a key otherwise (_rehydrate_pending_token_reveals).
THEOREM NoKeyHidden == Spec => []NoneHidden
<1> DEFINE Hidden(k) == /\ k \in DOMAIN reveal /\ reveal[k] = "marked"
                        /\ keys[k].name # "browser-session" /\ shown[k] = 0
<1>1. Init => NoneHidden
  <2>1. Init => DOMAIN reveal = {}
    BY DEF Init
  <2> QED
    BY <2>1 DEF NoneHidden
<1>2. ASSUME KeysInv, NoneHidden, [Next]_vars
      PROVE  NoneHidden'
  <2>0. KeysInv'
    BY <1>2, NextStep
  <2> SUFFICES ASSUME NEW k, Hidden(k)' PROVE k \in lost'
    BY DEF NoneHidden
  <2>1. k \in Ids /\ shown \in [Ids -> Nat] /\ lost \subseteq lost'
    BY <1>2, <2>0, BesideStep
       DEF KeysInv, TypeOK, Beside, Next, CreateRead, CreateInsert, ShowRead,
           ShowMark, IssueBrowserKey
  \* A key that was hidden before the step is among the lost.
  <2>2. ASSUME k \in DOMAIN reveal, reveal[k] = "marked", shown[k] = 0,
               keys'[k].name = keys[k].name
        PROVE  k \in lost'
    BY <1>2, <2>1, <2>2 DEF NoneHidden
  <2>3. ASSUME KeysAge, UNCHANGED <<reveal, shown>>
        PROVE  k \in lost'
    <3>1. k \in DOMAIN keys
      BY <1>2, <2>3 DEF KeysInv, TypeOK
    <3> QED
      BY <2>2, <2>3, <3>1 DEF KeysAge, Aged
  <2>4. ASSUME NEW s \in Slots, CreateRead(s) \/ ShowRead(s)
        PROVE  k \in lost'
    BY <1>2, <2>3, <2>4, CreateReadStep, ShowReadStep DEF CreateRead, ShowRead
  <2>5. ASSUME KeyAdded, k # NextId, shown'[k] = shown[k],
               reveal' = With(reveal, NextId, reveal'[NextId])
        PROVE  k \in lost'
    <3>1. k \in DOMAIN reveal /\ reveal'[k] = reveal[k] /\ k \in DOMAIN keys
      BY <1>2, <2>5 DEF With, KeysInv, TypeOK
    <3> QED
      BY <2>2, <2>5, <3>1 DEF KeyAdded
  <2>6. ASSUME NEW s \in Slots, CreateInsert(s)
        PROVE  k \in lost'
    <3>1. CASE KeysAge /\ UNCHANGED <<keys, reveal, shown>>
      BY <2>3, <3>1
    <3>2. CASE /\ KeyAdded
               /\ reveal' = With(reveal, NextId, "pending")
               /\ shown' = ShownAtCreation(req[s], NextId)
      <4>1. reveal'[NextId] = "pending"
        BY <3>2 DEF With
      <4>2. k # NextId
        BY <4>1
      <4>3. shown'[k] = shown[k]
        BY <2>1, <3>2, <4>2 DEF ShownAtCreation
      <4> QED
        BY <2>5, <3>2, <4>1, <4>2, <4>3
    <3> QED
      BY <1>2, <2>6, <3>1, <3>2, CreateInsertStep
  <2>7. CASE IssueBrowserKey
    <3>1. KeyAdded /\ keys'[NextId].name = "browser-session"
      BY <1>2, <2>7, IssueBrowserKeyStep
    <3>2. /\ reveal' = With(reveal, NextId, "marked")
          /\ reveal'[NextId] = "marked" /\ UNCHANGED <<shown, lost>>
      BY <2>7 DEF IssueBrowserKey, With
    <3> QED
      BY <2>5, <3>1, <3>2
  <2>8. ASSUME NEW s \in Slots, ShowMark(s)
        PROVE  k \in lost'
    <3>1. KeysAge
      BY <1>2, <2>8, ShowMarkStep
    <3>2. CASE ~(req[s].rows \subseteq DOMAIN reveal)
      BY <2>3, <2>8, <3>1, <3>2 DEF ShowMark
    <3>3. CASE req[s].rows \subseteq DOMAIN reveal
      <4>1. /\ reveal' = [j \in DOMAIN reveal |->
                            IF j \in req[s].rows THEN "marked" ELSE reveal[j]]
            /\ shown' = [j \in Ids |-> IF req[s].page /\ j \in req[s].rows
                                       THEN shown[j] + 1 ELSE shown[j]]
            /\ lost' = IF req[s].page THEN lost ELSE lost \cup req[s].rows
        BY <2>8, <3>3 DEF ShowMark, Marked
      <4>2. CASE k \in req[s].rows
        BY <2>1, <4>1, <4>2
      <4>3. CASE k \notin req[s].rows
        <5>1. /\ k \in DOMAIN reveal /\ reveal[k] = "marked" /\ shown[k] = 0
              /\ k \in DOMAIN keys
          BY <1>2, <2>1, <4>1, <4>3 DEF KeysInv, TypeOK
        <5> QED
          BY <2>2, <3>1, <5>1 DEF KeysAge, Aged
      <4> QED
        BY <4>2, <4>3
    <3> QED
      BY <3>2, <3>3
  <2>9. CASE Beside
    BY <2>3, <2>9 DEF Beside
  <2> QED
    BY <1>2, <2>4, <2>6, <2>7, <2>8, <2>9, BesideStep DEF Next
<1> QED
  BY KeysInvariant, <1>1, <1>2, PTL DEF Spec

-----------------------------------------------------------------------------
(* Scopes.                                                                 *)

\* What a scope grants is among what it stands for.
LEMMA GrantsDenotes ==
  ASSUME NEW scope \in Scopes, NEW need \in Scopes, Grants(scope, need)
  PROVE  need \in Denotes(scope)
<1>1. CASE scope = need
  BY <1>1 DEF Denotes
<1>2. CASE /\ Wild(scope) /\ Len(need) >= Len(scope)
           /\ IsPrefix(Front(scope), need)
  <2> DEFINE i == Len(scope) - 1
  <2>1. /\ scope \in Seq(STRING) /\ need \in Seq(STRING)
        /\ Len(scope) \in Nat /\ Len(need) \in Nat
        /\ Len(scope) > 1 /\ Last(scope) = "*"
    BY <1>2, ScopesAssumption DEF Wild
  <2>2. i \in 0..(Len(need) - 1)
    BY <1>2, <2>1
  <2>3. Front(scope) = SubSeq(scope, 1, i)
    BY DEF Front
  <2>4. Len(Front(scope)) = i /\ Front(scope) \in Seq(STRING)
    BY <2>1, <2>3, SubSeqProperties
  <2>5. SubSeq(Front(scope), 1, i) = SubSeq(need, 1, i)
    BY <1>2, <2>4 DEF IsPrefix
  <2>6. SubSeq(Front(scope), 1, i) = Front(scope)
    BY <2>4, SubSeqFull
  <2> HIDE DEF i
  <2> QED
    BY <2>1, <2>2, <2>5, <2>6 DEF Denotes
<1> QED
  BY <1>1, <1>2 DEF Grants

\* "*" stands for all scopes.
LEMMA StarDenotes ==
  ASSUME NEW need \in Scopes
  PROVE  need \in Denotes(<<"*">>)
<1>1. need \in Seq(STRING) /\ Len(need) \in Nat \ {0}
  <2>1. need \in Seq(STRING) /\ need # <<>>
    BY ScopesAssumption
  <2> QED
    BY <2>1, EmptySeq
<1>2. Front(<<"*">>) = <<>>
  BY DEF Front
<1>3. SubSeq(need, 1, 0) = <<>>
  BY <1>1, SubSeqEmpty
<1>4. Last(<<"*">>) = "*" /\ 0 \in 0..(Len(need) - 1)
  BY <1>1 DEF Last
<1> QED
  BY <1>2, <1>3, <1>4 DEF Denotes

LEMMA HasScopesDenotes ==
  ASSUME NEW granted \in SUBSET Scopes, NEW required \in SUBSET Scopes,
         HasScopes(granted, required)
  PROVE  required \subseteq UNION {Denotes(t) : t \in granted}
<1> SUFFICES ASSUME NEW need \in required
             PROVE  \E t \in granted : need \in Denotes(t)
  OBVIOUS
<1>1. CASE <<"*">> \in granted
  BY <1>1, StarDenotes
<1>2. CASE \A n \in required : \E t \in granted : Grants(t, n)
  BY <1>2, GrantsDenotes
<1> QED
  BY <1>1, <1>2 DEF HasScopes

\* A request that was validated keeps scopes that suffice, and they are those
\* of its key as long as the key is there; with the user gone it is not.
Validated(s) ==
  req[s].pc \in {"touch", "guard", "served"} =>
    /\ HasScopes(req[s].row.scopes, req[s].end.scopes)
    /\ req[s].key \in DOMAIN keys =>
         keys[req[s].key].scopes = req[s].row.scopes
    /\ user.there => req[s].key \in DOMAIN keys

ValidatedInv == \A s \in Slots : Validated(s)

LEMMA ValidatedKept ==
  ASSUME KeysInv, ValidatedInv, KeyStep, NEW s \in Slots, req'[s] = req[s]
  PROVE  Validated(s)'
<1>1. NextId \notin DOMAIN keys
  BY NextIdNew DEF KeysInv
<1> HIDE DEF NextId
<1>2. CASE KeysAge
  BY <1>2 DEF KeysAge, Aged, ValidatedInv, Validated
<1>3. CASE KeyAdded
  BY <1>1, <1>3 DEF KeyAdded, ValidatedInv, Validated
<1>4. CASE KeysGone
  BY <1>4 DEF KeysGone, ValidatedInv, Validated
<1> QED
  BY <1>2, <1>3, <1>4 DEF KeyStep

LEMMA ValidatedStep ==
  ASSUME KeysInv, ValidatedInv, [Next]_vars
  PROVE  ValidatedInv'
<1>0. KeyStep /\ req \in [Slots -> Request]
  BY NextStep DEF KeysInv, TypeOK
<1>1. ASSUME NEW t \in Slots, \A s \in Slots \ {t} : req'[s] = req[s],
             Validated(t)'
      PROVE  ValidatedInv'
  BY <1>0, <1>1, ValidatedKept DEF ValidatedInv
<1>2. ASSUME UNCHANGED req
      PROVE  ValidatedInv'
  BY <1>0, <1>2, ValidatedKept DEF ValidatedInv
<1>3. ASSUME NEW t \in Slots, NEW r, SetReq(t, r),
             r.pc \notin {"touch", "guard", "served"}
      PROVE  ValidatedInv'
  BY <1>0, <1>1, <1>3 DEF SetReq, Validated
<1>4. ASSUME NEW t \in Slots,
             \/ CreateRead(t) \/ CreateInsert(t) \/ ShowRead(t) \/ ShowMark(t)
             \/ CallEnds(t)
      PROVE  ValidatedInv'
  BY <1>3, <1>4 DEF CreateRead, CreateInsert, ShowRead, ShowMark, CallEnds, Answer
<1>5. ASSUME NEW t \in Slots, CallRead(t)
      PROVE  ValidatedInv'
  <2>1. PICK k \in DOMAIN keys, end \in Endpoints :
          /\ HasScopes(keys[k].scopes, end.scopes)
          /\ SetReq(t, [pc |-> IF keys[k].fresh THEN "guard" ELSE "touch",
                        key |-> k, row |-> keys[k], who |-> user, end |-> end])
    BY <1>5 DEF CallRead
  <2>2. /\ req'[t].key = k /\ req'[t].row = keys[k] /\ req'[t].end = end
        /\ \A s \in Slots \ {t} : req'[s] = req[s]
    BY <1>0, <2>1 DEF SetReq
  <2>3. UNCHANGED <<keys, user>>
    BY <1>5 DEF CallRead
  <2> QED
    BY <1>1, <2>1, <2>2, <2>3 DEF Validated
<1>6. ASSUME NEW t \in Slots, CallTouch(t)
      PROVE  ValidatedInv'
  <2> DEFINE r == req[t]
  <2>1. CASE r.key \notin DOMAIN keys
    BY <1>3, <1>6, <2>1 DEF CallTouch, Answer
  <2>2. CASE r.key \in DOMAIN keys
    <3>1. r.pc = "touch" /\ r \in [pc : {"touch", "guard", "served"}, key : Ids,
                                   row : Key, who : User, end : Endpoints]
      BY <1>0, <1>6, RequestKinds DEF CallTouch
    <3>2. /\ keys' = [keys EXCEPT ![r.key] = Touched(@, r.row)]
          /\ SetReq(t, [r EXCEPT !.pc = "guard", !.row = keys'[r.key],
                                 !.who = user])
          /\ user' = user
      BY <1>6, <2>2 DEF CallTouch
    <3>3. /\ req'[t].key = r.key /\ req'[t].row = keys'[r.key]
          /\ req'[t].end = r.end
          /\ \A s \in Slots \ {t} : req'[s] = req[s]
      BY <1>0, <3>1, <3>2 DEF SetReq
    <3>4. keys'[r.key].scopes = keys[r.key].scopes /\ DOMAIN keys' = DOMAIN keys
      <4>1. keys[r.key] \in Key
        BY <2>2, KeyTyped DEF KeysInv
      <4> QED
        BY <2>2, <3>2, <4>1 DEF Touched, Key
    <3>5. Validated(t) /\ Validated(t)'
      BY <2>2, <3>1, <3>3, <3>4 DEF Validated, ValidatedInv
    <3> QED
      BY <1>1, <3>3, <3>5
  <2> QED
    BY <2>1, <2>2
<1>7. ASSUME NEW t \in Slots, CallGuard(t)
      PROVE  ValidatedInv'
  <2> DEFINE r == req[t]
  <2>1. CASE SetReq(t, [pc |-> "idle"])
    BY <1>3, <2>1
  <2>2. CASE SetReq(t, [r EXCEPT !.pc = "served"])
    <3>1. r.pc = "guard" /\ r \in [pc : {"touch", "guard", "served"}, key : Ids,
                                   row : Key, who : User, end : Endpoints]
      BY <1>0, <1>7, RequestKinds DEF CallGuard
    <3>2. /\ req'[t].key = r.key /\ req'[t].row = r.row
          /\ req'[t].end = r.end
          /\ \A s \in Slots \ {t} : req'[s] = req[s]
          /\ UNCHANGED <<keys, user>>
      BY <1>0, <1>7, <2>2, <3>1 DEF SetReq, CallGuard
    <3> QED
      BY <1>1, <3>1, <3>2 DEF Validated, ValidatedInv
  <2> QED
    BY <1>7, <2>1, <2>2 DEF CallGuard, Answer
<1>8. CASE \/ \E k \in Ids : RevokeOwn(k) \/ Expire(k) \/ Unused(k)
           \/ IssueBrowserKey \/ RevokeByAdmin \/ RevokeBrowserKeys
           \/ UserEdited \/ AddonSwitched \/ UserDeleted \/ UNCHANGED vars
  BY <1>2, <1>8 DEF RevokeOwn, Expire, Unused, IssueBrowserKey, RevokeByAdmin,
     RevokeBrowserKeys, UserEdited, AddonSwitched, UserDeleted, vars
<1> QED
  BY <1>4, <1>5, <1>6, <1>7, <1>8 DEF Next

\* Served requests presented a key that stands for each scope of the route,
\* wildcards expanded (token_has_scopes).
THEOREM OnlyGrantedServed == Spec => []ServedIsGranted
<1>1. Init => ValidatedInv
  BY DEF Init, ValidatedInv, Validated
<1>2. KeysInv /\ ValidatedInv /\ [Next]_vars => ValidatedInv'
  BY ValidatedStep
<1>3. KeysInv /\ ValidatedInv => ServedIsGranted
  <2> SUFFICES ASSUME KeysInv, ValidatedInv, NEW s \in Slots,
                      req[s].pc = "served"
               PROVE  req[s].end.scopes
                        \subseteq UNION {Denotes(t) : t \in req[s].row.scopes}
    BY DEF ServedIsGranted
  <2>1. req[s].row \in Key /\ req[s].end \in Endpoints
    BY RequestKinds DEF KeysInv, TypeOK
  <2>2. req[s].row.scopes \in SUBSET Scopes /\ req[s].end.scopes \in SUBSET Scopes
    BY <2>1, ScopesAssumption, EndpointsAssumption DEF Key, Endpoint
  <2> QED
    BY <2>2, HasScopesDenotes DEF ValidatedInv, Validated
<1> QED
  BY KeysInvariant, <1>1, <1>2, <1>3, PTL DEF Spec
=============================================================================
