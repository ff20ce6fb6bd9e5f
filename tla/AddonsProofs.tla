------------------------------ MODULE AddonsProofs ------------------------------
(***************************************************************************)
(* Theorems about the settings row and the add-ons, for any processes,     *)
(* requests, pages, add-ons and ZIP files.                                 *)
(***************************************************************************)
EXTENDS Addons, TLAPS

-----------------------------------------------------------------------------
(* The data.                                                               *)

LEMMA ItemsAre ==
  /\ \A known \in SUBSET Addons : \A f \in [known -> BOOLEAN] : f \in Items
  /\ \A f \in Items : DOMAIN f \subseteq Addons /\ f \in [DOMAIN f -> BOOLEAN]
BY DEF Items

\* A commit leaves a row of the table, each column of which was there or is new.
LEMMA WrittenRow ==
  ASSUME NEW current \in Row, NEW loaded \in Row, NEW new \in Row, NEW columns
  PROVE  /\ Written(current, loaded, new, columns) \in Row
         /\ Written(current, loaded, new, columns).pages
              \in {current.pages, new.pages}
         /\ Written(current, loaded, new, columns).addons
              \in {current.addons, new.addons}
         /\ "addons" \notin columns =>
              Written(current, loaded, new, columns).addons = current.addons
<1> DEFINE w == Written(current, loaded, new, columns)
           W(c) == IF c \in columns /\ new[c] # loaded[c] THEN new[c] ELSE current[c]
<1>1. w = [c \in {"pages", "addons"} |-> W(c)]
  BY DEF Written
<1>2. /\ current.pages \in SUBSET Pages /\ new.pages \in SUBSET Pages
      /\ current.addons \in Items /\ new.addons \in Items
  BY DEF Row
<1>3. W("pages") \in {current.pages, new.pages} /\ W("pages") \in SUBSET Pages
  BY <1>2
<1>4. W("addons") \in {current.addons, new.addons} /\ W("addons") \in Items
  BY <1>2
<1>5. "addons" \notin columns => W("addons") = current.addons
  OBVIOUS
<1> HIDE DEF w, W
<1>6. w = [pages |-> W("pages"), addons |-> W("addons")]
  BY <1>1
<1>7. w \in Row
  BY <1>3, <1>4, <1>6 DEF Row
<1> QED
  BY <1>3, <1>4, <1>5, <1>6, <1>7 DEF w

\* An edit of the items is a row with the same pages.
LEMMA ItemsEdited ==
  ASSUME NEW r \in Row, NEW items \in Items
  PROVE  /\ [r EXCEPT !.addons = items] \in Row
         /\ [r EXCEPT !.addons = items].pages = r.pages
BY DEF Row

\* Each pc has one kind of request, but for the two kinds of update.
LEMMA RequestKinds ==
  ASSUME NEW r \in Request
  PROVE  /\ r.pc \in {"idle", "sync", "load", "import", "ready", "copy", "rest",
                      "register", "remove", "unregister", "update", "commit",
                      "refresh", "apply"}
         /\ r.pc # "idle" => r.at \in Workers
         /\ r.pc = "load" => r \in [pc : {"load"}, at : Workers, back : BOOLEAN]
         /\ r.pc = "import" =>
              r \in [pc : {"import"}, at : Workers, back : BOOLEAN, mods : Mods]
         /\ r.pc = "ready" =>
              r \in [pc : {"ready"}, at : Workers, there : SUBSET Addons,
                     on : SUBSET Addons]
         /\ r.pc \in {"copy", "register"} =>
              r \in [pc : {"copy", "register"}, at : Workers, addon : Zipped,
                     zip : Zips]
         /\ r.pc = "rest" =>
              r \in [pc : {"rest"}, at : Workers, addon : Zipped, zip : Zips,
                     part : Parts]
         /\ r.pc \in {"remove", "unregister"} =>
              r \in [pc : {"remove", "unregister"}, at : Workers, addon : Zipped]
         /\ r.pc \in {"update", "commit"} => r.new \in Row /\ r.loaded \in Row
         /\ r.pc \in {"update", "commit"} /\ r.op # "install" => r \in Updates
         /\ r.pc \in {"update", "commit"} /\ r.op = "install" => r \in Installs
         /\ r.pc \in {"update", "commit"} => r.op \in Operations
         /\ r.pc \in {"refresh", "apply"} =>
              r \in [pc : {"refresh", "apply"}, at : Workers, op : Operations,
                     new : Row]
BY DEF Request, Updates, Installs, Operations

LEMMA ReqAssigned ==
  ASSUME req \in [Slots -> Request], NEW s \in Slots, NEW r \in Request,
         SetReq(s, r)
  PROVE  /\ req' \in [Slots -> Request]
         /\ req'[s] = r
         /\ \A t \in Slots \ {s} : req'[t] = req[t]
BY DEF SetReq

LEMMA IdleRequest == [pc |-> "idle"] \in Request
BY DEF Request

LEMMA EnabledThere ==
  ASSUME NEW items, NEW there \in SUBSET Addons
  PROVE  Enabled(items, there) \subseteq there
BY DEF Enabled

LEMMA ThereAddons == There \in SUBSET Addons
BY BuiltinAssumption DEF There, Zipped

-----------------------------------------------------------------------------
(* Type correctness.  A load under way imports what it found and enabled.  *)

ImportsFound ==
  \A s \in Slots : req[s].pc = "import" =>
    /\ req[s].mods.loaded \subseteq req[s].mods.on
    /\ req[s].mods.on \subseteq req[s].mods.there

TypeInv == TypeOK /\ ImportsFound

LEMMA TypeInit == Init => TypeInv
<1> SUFFICES ASSUME Init PROVE TypeInv
  OBVIOUS
<1> USE DEF Init, SettingsInit
<1>1. scene \in Scenes /\ left \in Left
  BY SettingsScenes DEF Left
<1>2. [x \in Builtin |-> TRUE] \in Items
  BY ItemsAre, BuiltinAssumption
<1>3. row \in Row /\ row.addons \in Items
  BY <1>2 DEF Row
<1>4. cache \in [Workers -> Row]
  BY <1>3
<1>5. req \in [Slots -> Request] /\ ImportsFound
  BY IdleRequest DEF ImportsFound
<1>6. folder \in [Zipped -> Content]
  BY DEF Absent, Content
<1>7. reg \in [Addons -> [there : BOOLEAN, sum : SUBSET Content]]
  OBVIOUS
<1>8. /\ mods \in [Workers -> Mods]
      /\ \A w \in Workers : mods[w].loaded \subseteq mods[w].on
                            /\ mods[w].on \subseteq mods[w].there
  <2> DEFINE on == Enabled(row.addons, Builtin)
             m  == [there |-> Builtin, on |-> on, loaded |-> on]
  <2>1. on \subseteq Builtin
    BY EnabledThere, BuiltinAssumption
  <2>2. mods = [w \in Workers |-> m]
    OBVIOUS
  <2> HIDE DEF on
  <2>3. m \in Mods
    BY <2>1, BuiltinAssumption DEF Mods
  <2> QED
    BY <2>1, <2>2, <2>3
<1> QED
  BY <1>1, <1>3, <1>4, <1>5, <1>6, <1>7, <1>8 DEF TypeInv, TypeOK

\* A request that is not importing keeps the invariant's part on requests.
LEMMA ReqTypes ==
  ASSUME TypeInv, NEW s \in Slots, NEW r \in Request, SetReq(s, r),
         r.pc = "import" => /\ r.mods.loaded \subseteq r.mods.on
                            /\ r.mods.on \subseteq r.mods.there
  PROVE  req' \in [Slots -> Request] /\ ImportsFound'
<1>1. /\ req' \in [Slots -> Request]
      /\ req'[s] = r
      /\ \A t \in Slots \ {s} : req'[t] = req[t]
  BY ReqAssigned DEF TypeInv, TypeOK
<1>2. ImportsFound'
  BY <1>1 DEF TypeInv, ImportsFound
<1> QED
  BY <1>1, <1>2

LEMMA AnswerTypes ==
  ASSUME TypeInv, NEW s \in Slots, Answer(s)
  PROVE  req' \in [Slots -> Request] /\ ImportsFound'
BY IdleRequest, ReqTypes DEF Answer

\* Requests of update_settings, whatever they change.
LEMMA UpdateTypes ==
  ASSUME TypeInv, NEW s \in Slots, req[s].pc # "idle",
         NEW op \in {"form", "import", "pages", "uninstall"},
         NEW x \in Addons \cup {"-"}, NEW new \in Row, Update(s, op, x, new)
  PROVE  req' \in [Slots -> Request] /\ ImportsFound'
<1> DEFINE r == [pc |-> "update", at |-> req[s].at, op |-> op, addon |-> x,
                 new |-> new, loaded |-> new]
<1>1. req[s].at \in Workers
  BY RequestKinds DEF TypeInv, TypeOK
<1>2. r \in Request
  BY <1>1 DEF Request, Updates
<1>3. SetReq(s, r) /\ r.pc # "import"
  BY DEF Update
<1> HIDE DEF r
<1> QED
  BY <1>2, <1>3, ReqTypes

\* What the items are after an edit, in a row that had others.
LEMMA FormItems ==
  ASSUME NEW base \in Row, NEW checked
  PROVE  LET new == [base EXCEPT !.addons =
                       [x \in DOMAIN @ \cup There |-> x \in checked]]
         IN  new \in Row /\ new.pages = base.pages
<1> DEFINE items == [x \in DOMAIN base.addons \cup There |-> x \in checked]
<1>1. base.addons \in Items
  BY DEF Row
<1>2. DOMAIN base.addons \cup There \in SUBSET Addons
  BY <1>1, ItemsAre, ThereAddons
<1>3. items \in [DOMAIN base.addons \cup There -> BOOLEAN]
  OBVIOUS
<1>4. items \in Items
  BY <1>2, <1>3, ItemsAre
<1> HIDE DEF items
<1>5. [base EXCEPT !.addons = items] \in Row
      /\ [base EXCEPT !.addons = items].pages = base.pages
  BY <1>4, ItemsEdited
<1> QED
  BY <1>5 DEF items

LEMMA RegisteredItems ==
  ASSUME NEW base \in Row, NEW x \in Addons
  PROVE  LET new == Enabling(base, x)
         IN  /\ new \in Row /\ new.pages = base.pages
             /\ DOMAIN new.addons = DOMAIN base.addons \cup {x}
             /\ \A y \in DOMAIN new.addons :
                  ~new.addons[y] => y \in DOMAIN base.addons /\ ~base.addons[y]
<1> DEFINE items == [y \in DOMAIN base.addons \cup {x} |-> y = x \/ base.addons[y]]
           new   == [base EXCEPT !.addons = items]
<1>1. base.addons \in Items
  BY DEF Row
<1>2. /\ DOMAIN base.addons \cup {x} \in SUBSET Addons
      /\ base.addons \in [DOMAIN base.addons -> BOOLEAN]
  BY <1>1, ItemsAre
<1>3. items \in [DOMAIN base.addons \cup {x} -> BOOLEAN]
  BY <1>2
<1>4. items \in Items
  BY <1>2, <1>3, ItemsAre
<1>5. /\ DOMAIN items = DOMAIN base.addons \cup {x}
      /\ \A y \in DOMAIN items :
           ~items[y] => y \in DOMAIN base.addons /\ ~base.addons[y]
  OBVIOUS
<1> HIDE DEF items
<1>6. new \in Row /\ new.pages = base.pages
  BY <1>4, ItemsEdited
<1>7. new.addons = items
  BY DEF Row
<1> QED
  BY <1>5, <1>6, <1>7 DEF items, Enabling

LEMMA UnregisteredItems ==
  ASSUME NEW base \in Row, NEW x
  PROVE  LET new == Without(base, x)
         IN  /\ new \in Row /\ new.pages = base.pages
             /\ \A y \in DOMAIN new.addons :
                  ~new.addons[y] => y \in DOMAIN base.addons /\ ~base.addons[y]
<1> DEFINE items == [y \in DOMAIN base.addons \ {x} |-> base.addons[y]]
           new   == [base EXCEPT !.addons = items]
<1>1. base.addons \in Items
  BY DEF Row
<1>2. /\ DOMAIN base.addons \ {x} \in SUBSET Addons
      /\ base.addons \in [DOMAIN base.addons -> BOOLEAN]
  BY <1>1, ItemsAre
<1>3. items \in [DOMAIN base.addons \ {x} -> BOOLEAN]
  BY <1>2
<1>4. items \in Items
  BY <1>2, <1>3, ItemsAre
<1>5. \A y \in DOMAIN items :
        ~items[y] => y \in DOMAIN base.addons /\ ~base.addons[y]
  OBVIOUS
<1> HIDE DEF items
<1>6. new \in Row /\ new.pages = base.pages
  BY <1>4, ItemsEdited
<1>7. new.addons = items
  BY DEF Row
<1> QED
  BY <1>5, <1>6, <1>7 DEF items, Without

\* An edit of the copy of a process.
LEMMA EditPagesType ==
  ASSUME TypeInv, NEW s \in Slots, NEW pages \in SUBSET Pages, EditPages(s, pages),
         UNCHANGED addonVars
  PROVE  TypeInv'
<1> DEFINE edited == [cache[req[s].at] EXCEPT !.pages = pages]
<1>1. req[s].pc = "ready" /\ req[s].at \in Workers
  BY RequestKinds DEF EditPages, TypeInv, TypeOK
<1>2. edited \in Row
  BY <1>1 DEF TypeInv, TypeOK, Row
<1>3. /\ cache' = [cache EXCEPT ![req[s].at] = edited]
      /\ Update(s, "pages", "-", edited)
      /\ UNCHANGED <<scene, left, row, off, saved, rivals, undone>>
  BY DEF EditPages
<1> HIDE DEF edited
<1>4. cache' \in [Workers -> Row]
  BY <1>1, <1>2, <1>3 DEF TypeInv, TypeOK
<1>5. req' \in [Slots -> Request] /\ ImportsFound'
  BY <1>1, <1>2, <1>3, UpdateTypes
<1> QED
  BY <1>3, <1>4, <1>5 DEF TypeInv, TypeOK, addonVars

LEMMA SettingsStepType ==
  ASSUME TypeInv, NEW s \in Slots, SettingsStep(s, There) \/ Fail(s),
         UNCHANGED addonVars
  PROVE  TypeInv'
<1> USE DEF addonVars, others
<1>0. req[s] \in Request /\ row \in Row
  BY DEF TypeInv, TypeOK
<1>1. CASE Begin(s)
  <2>1. PICK w \in Workers : SetReq(s, [pc |-> "sync", at |-> w])
    BY <1>1 DEF Begin
  <2>2. [pc |-> "sync", at |-> w] \in Request
    BY DEF Request
  <2>3. req' \in [Slots -> Request] /\ ImportsFound'
    BY <2>1, <2>2, ReqTypes
  <2>4. left' \in Left
    BY <1>1 DEF Begin, Left, TypeInv, TypeOK
  <2> QED
    BY <1>1, <2>3, <2>4 DEF Begin, TypeInv, TypeOK
<1>2. CASE SaveForm(s, There)
  <2>1. PICK checked \in SUBSET Addons :
          Update(s, "form", "-",
                 [row EXCEPT !.addons =
                    [x \in DOMAIN @ \cup There |-> x \in checked]])
    BY <1>2 DEF SaveForm, Base
  <2> DEFINE new == [row EXCEPT !.addons =
                       [x \in DOMAIN @ \cup There |-> x \in checked]]
  <2>2. new \in Row
    BY <1>0, FormItems
  <2>3. Update(s, "form", "-", new)
    BY <2>1
  <2> HIDE DEF new
  <2>4. req' \in [Slots -> Request] /\ ImportsFound'
    BY <1>2, <2>2, <2>3, UpdateTypes DEF SaveForm
  <2> QED
    BY <1>2, <2>4 DEF SaveForm, TypeInv, TypeOK
<1>3. CASE Import(s)
  <2>1. PICK new \in Row : Update(s, "import", "-", new)
    BY <1>3 DEF Import
  <2>2. req' \in [Slots -> Request] /\ ImportsFound'
    BY <1>3, <2>1, UpdateTypes DEF Import
  <2> QED
    BY <1>3, <2>2 DEF Import, TypeInv, TypeOK
<1>4. CASE SavePages(s) \/ ToggleMaintenance(s)
  <2>1. req[s].pc = "ready" /\ req[s].at \in Workers
    BY <1>0, <1>4, RequestKinds DEF SavePages, ToggleMaintenance, EditPages
  <2>2. cache[req[s].at].pages \in SUBSET Pages
    BY <2>1 DEF TypeInv, TypeOK, Row
  <2>3. \E pages \in SUBSET Pages : EditPages(s, pages)
    BY <1>4, <2>2 DEF SavePages, ToggleMaintenance
  <2> QED
    BY <2>3, EditPagesType
<1>5. CASE LoadRow(s)
  <2> DEFINE r == [req[s] EXCEPT !.pc = "commit", !.loaded = row]
  <2>1. req[s] \in Updates \/ req[s] \in Installs
    BY <1>0, <1>5, RequestKinds DEF LoadRow
  <2>2. r \in Request /\ r.pc # "import"
    BY <1>0, <2>1 DEF Request, Updates, Installs
  <2>3. SetReq(s, r)
    BY <1>5 DEF LoadRow
  <2> HIDE DEF r
  <2>4. req' \in [Slots -> Request] /\ ImportsFound'
    BY <2>2, <2>3, ReqTypes
  <2> QED
    BY <1>5, <2>4 DEF LoadRow, TypeInv, TypeOK
<1>6. CASE Refresh(s)
  <2> DEFINE new == IF req[s].op = "pages" THEN req[s].new ELSE row
             r   == [req[s] EXCEPT !.pc = "apply", !.new = new]
  <2>1. req[s] \in [pc : {"refresh", "apply"}, at : Workers, op : Operations,
                    new : Row]
    BY <1>0, <1>6, RequestKinds DEF Refresh
  <2>2. new \in Row
    BY <1>0, <2>1
  <2>3. SetReq(s, r)
    BY <1>6 DEF Refresh
  <2> HIDE DEF new
  <2>4. r \in Request /\ r.pc # "import"
    BY <2>1, <2>2 DEF Request
  <2> HIDE DEF r
  <2>5. req' \in [Slots -> Request] /\ ImportsFound'
    BY <2>3, <2>4, ReqTypes
  <2> QED
    BY <1>6, <2>5 DEF Refresh, TypeInv, TypeOK
<1>7. CASE Apply(s)
  <2> DEFINE r == [pc |-> "load", at |-> req[s].at, back |-> FALSE]
  <2>1. req[s].at \in Workers /\ req[s].new \in Row
    BY <1>0, <1>7, RequestKinds DEF Apply
  <2>2. r \in Request
    BY <2>1 DEF Request
  <2>3. Answer(s) \/ (SetReq(s, r) /\ r.pc # "import")
    BY <1>7 DEF Apply
  <2> HIDE DEF r
  <2>4. req' \in [Slots -> Request] /\ ImportsFound'
    BY <2>2, <2>3, ReqTypes, AnswerTypes
  <2>5. cache' \in [Workers -> Row]
    <3>1. [cache[req[s].at] EXCEPT !.pages = req[s].new.pages] \in Row
      BY <2>1 DEF TypeInv, TypeOK, Row
    <3>2. \/ cache' = [cache EXCEPT ![req[s].at] = req[s].new]
          \/ cache' = [cache EXCEPT ![req[s].at] =
                         [cache[req[s].at] EXCEPT !.pages = req[s].new.pages]]
      BY <1>7 DEF Apply
    <3> QED
      BY <2>1, <3>1, <3>2 DEF TypeInv, TypeOK
  <2> QED
    BY <1>7, <2>4, <2>5 DEF Apply, TypeInv, TypeOK
<1>8. CASE View(s)
  BY <1>8, AnswerTypes DEF View, TypeInv, TypeOK
<1>9. CASE Fail(s)
  <2>1. left' \in Left
    BY <1>9 DEF Fail, Left, TypeInv, TypeOK
  <2>2. req' \in [Slots -> Request] /\ ImportsFound'
    BY <1>9, AnswerTypes DEF Fail
  <2> QED
    BY <1>9, <2>1, <2>2 DEF Fail, TypeInv, TypeOK
<1> QED
  BY <1>1, <1>2, <1>3, <1>4, <1>5, <1>6, <1>7, <1>8, <1>9 DEF SettingsStep

LEMMA LoadingType ==
  ASSUME TypeInv, NEW s \in Slots, Sync(s) \/ Load(s)
  PROVE  TypeInv'
<1> DEFINE on == Enabled(cache[req[s].at].addons, There)
<1>0. req[s] \in Request
  BY DEF TypeInv, TypeOK
<1>1. on \subseteq There /\ There \in SUBSET Addons
  BY EnabledThere, ThereAddons
<1>2. CASE Sync(s)
  <2> DEFINE ready == [pc |-> "ready", at |-> req[s].at, there |-> There, on |-> on]
             load  == [pc |-> "load", at |-> req[s].at, back |-> TRUE]
  <2>1. req[s].at \in Workers
    BY <1>0, <1>2, RequestKinds DEF Sync
  <2>2. SetReq(s, ready) \/ SetReq(s, load)
    BY <1>2 DEF Sync
  <2> HIDE DEF on
  <2>3. ready \in Request /\ load \in Request
    BY <1>1, <2>1 DEF Request
  <2>4. ready.pc # "import" /\ load.pc # "import"
    OBVIOUS
  <2> HIDE DEF ready, load
  <2>5. req' \in [Slots -> Request] /\ ImportsFound'
    BY <2>2, <2>3, <2>4, ReqTypes
  <2> QED
    BY <1>2, <2>5 DEF Sync, TypeInv, TypeOK, addonVars, others
<1>3. CASE Load(s)
  <2> DEFINE m == [there |-> There, on |-> on, loaded |-> {x \in on : Verified(x)}]
             r == [pc |-> "import", at |-> req[s].at, back |-> req[s].back,
                   mods |-> m]
  <2>1. req[s].at \in Workers /\ req[s].back \in BOOLEAN
    BY <1>0, <1>3, RequestKinds DEF Load
  <2>2. SetReq(s, r)
    BY <1>3 DEF Load
  <2> HIDE DEF on
  <2>3. m \in Mods /\ m.loaded \subseteq m.on /\ m.on \subseteq m.there
    BY <1>1 DEF Mods
  <2> HIDE DEF m
  <2>4. r \in Request
    BY <2>1, <2>3 DEF Request
  <2>5. r.mods = m
    OBVIOUS
  <2> HIDE DEF r
  <2>6. req' \in [Slots -> Request] /\ ImportsFound'
    BY <2>2, <2>3, <2>4, <2>5, ReqTypes
  <2> QED
    BY <1>3, <2>6 DEF Load, TypeInv, TypeOK, addonVars, others
<1> QED
  BY <1>2, <1>3

\* The registry after the imports of some add-ons.
LEMMA RegistryRow ==
  ASSUME TypeOK, NEW x \in Addons
  PROVE  [reg[x] EXCEPT !.there = TRUE] \in [there : BOOLEAN, sum : SUBSET Content]
<1>1. reg[x] \in [there : BOOLEAN, sum : SUBSET Content]
  BY DEF TypeOK
<1> QED
  BY <1>1

LEMMA ImportModulesType ==
  ASSUME TypeInv, NEW s \in Slots, ImportModules(s)
  PROVE  TypeInv'
<1> DEFINE m     == req[s].mods
           whole == m.loaded \cap (Builtin \cup {x \in Zipped : Whole(x)})
           ready == [pc |-> "ready", at |-> req[s].at, there |-> m.there,
                     on |-> m.on]
<1>0. req[s] \in Request
  BY DEF TypeInv, TypeOK
<1>1. /\ req[s].pc = "import"
      /\ \E some \in {whole, whole \cup (m.loaded \cap There)} :
           mods' = [mods EXCEPT ![req[s].at] =
                      [m EXCEPT !.loaded = Loaded(req[s].at, some)]]
      /\ reg' = [x \in Addons |-> IF x \in m.on THEN [reg[x] EXCEPT !.there = TRUE]
                                                ELSE reg[x]]
      /\ IF req[s].back THEN SetReq(s, ready) ELSE Answer(s)
      /\ UNCHANGED <<others, folder, torn, installed>>
  BY DEF ImportModules
<1>2. /\ req[s].at \in Workers /\ m \in Mods
      /\ m.loaded \subseteq m.on /\ m.on \subseteq m.there
  BY <1>0, <1>1, RequestKinds DEF TypeInv, ImportsFound
<1>3. PICK some \in {whole, whole \cup (m.loaded \cap There)} :
        mods' = [mods EXCEPT ![req[s].at] = [m EXCEPT !.loaded = some]]
  BY <1>1 DEF Loaded
<1>4. some \subseteq m.loaded
  OBVIOUS
<1>5. /\ mods' \in [Workers -> Mods]
      /\ \A w \in Workers : mods'[w].loaded \subseteq mods'[w].on
                            /\ mods'[w].on \subseteq mods'[w].there
  <2> DEFINE new == [m EXCEPT !.loaded = some]
  <2> HIDE DEF m
  <2>1. new \in Mods /\ new.loaded \subseteq new.on /\ new.on \subseteq new.there
    BY <1>2, <1>4 DEF Mods
  <2>2. mods' = [mods EXCEPT ![req[s].at] = new]
    BY <1>3
  <2> HIDE DEF new
  <2> QED
    BY <1>2, <2>1, <2>2 DEF TypeInv, TypeOK
<1>6. reg' \in [Addons -> [there : BOOLEAN, sum : SUBSET Content]]
  <2>1. \A x \in Addons : reg[x] \in [there : BOOLEAN, sum : SUBSET Content]
    BY DEF TypeInv, TypeOK
  <2> HIDE DEF m
  <2> QED
    BY <1>1, <2>1, RegistryRow DEF TypeInv
<1>7. req' \in [Slots -> Request] /\ ImportsFound'
  <2>1. ready \in Request /\ ready.pc # "import"
    BY <1>2 DEF Request, Mods
  <2> HIDE DEF ready
  <2> QED
    BY <1>1, <2>1, ReqTypes, AnswerTypes
<1> QED
  BY <1>1, <1>5, <1>6, <1>7 DEF TypeInv, TypeOK, others

LEMMA InstallingType ==
  ASSUME TypeInv, NEW s \in Slots,
         InstallCheck(s) \/ CopyFirst(s) \/ CopyRest(s) \/ CopyFails(s) \/ Register(s)
  PROVE  TypeInv'
<1> USE DEF others, addonVars
<1>0. /\ req[s] \in Request
      /\ folder \in [Zipped -> Content]
      /\ 0 \in {0} \cup Zips
  BY DEF TypeInv, TypeOK
<1>1. CASE InstallCheck(s)
  <2>1. PICK x \in Zipped, zip \in Zips :
          SetReq(s, [pc |-> "copy", at |-> req[s].at, addon |-> x, zip |-> zip])
    BY <1>1 DEF InstallCheck
  <2> DEFINE r == [pc |-> "copy", at |-> req[s].at, addon |-> x, zip |-> zip]
  <2>2. req[s].at \in Workers
    BY <1>0, <1>1, RequestKinds DEF InstallCheck
  <2>3. r \in Request /\ r.pc # "import" /\ SetReq(s, r)
    BY <2>1, <2>2 DEF Request
  <2> HIDE DEF r
  <2>4. req' \in [Slots -> Request] /\ ImportsFound'
    BY <2>3, ReqTypes
  <2> QED
    BY <1>1, <2>4 DEF InstallCheck, TypeInv, TypeOK
<1>2. CASE CopyFirst(s)
  <2> DEFINE r(p) == [pc |-> "rest", at |-> req[s].at, addon |-> req[s].addon,
                      zip |-> req[s].zip, part |-> p]
  <2>1. req[s].at \in Workers /\ req[s].addon \in Zipped /\ req[s].zip \in Zips
    BY <1>0, <1>2, RequestKinds DEF CopyFirst
  <2>2. \A p \in Parts : r(p) \in Request /\ r(p).pc # "import"
    BY <2>1 DEF Request
  <2>3. (\E p \in Parts : SetReq(s, r(p))) \/ Answer(s)
    BY <1>2 DEF CopyFirst
  <2> HIDE DEF r
  <2>4. req' \in [Slots -> Request] /\ ImportsFound'
    BY <2>2, <2>3, ReqTypes, AnswerTypes
  <2>5. folder' \in [Zipped -> Content]
    <3>1. CASE UNCHANGED folder
      BY <1>0, <3>1
    <3>2. ASSUME NEW p \in Parts,
                 folder' = [folder EXCEPT ![req[s].addon][p] = req[s].zip]
          PROVE  folder' \in [Zipped -> Content]
      <4> DEFINE c == [folder[req[s].addon] EXCEPT ![p] = req[s].zip]
      <4>1. c \in Content
        BY <1>0, <2>1 DEF Content
      <4>2. folder' = [folder EXCEPT ![req[s].addon] = c]
        BY <3>2
      <4> HIDE DEF c
      <4> QED
        BY <1>0, <4>1, <4>2
    <3> QED
      BY <1>2, <3>1, <3>2 DEF CopyFirst
  <2> QED
    BY <1>2, <2>4, <2>5 DEF CopyFirst, TypeInv, TypeOK
<1>3. CASE CopyRest(s)
  <2> DEFINE x == req[s].addon
             r == [pc |-> "register", at |-> req[s].at, addon |-> x,
                   zip |-> req[s].zip]
             c == [p \in Parts |-> IF p = req[s].part THEN folder[x][p]
                                                      ELSE req[s].zip]
  <2>1. req[s].at \in Workers /\ x \in Zipped /\ req[s].zip \in Zips
    BY <1>0, <1>3, RequestKinds DEF CopyRest
  <2>2. r \in Request /\ r.pc # "import"
    BY <2>1 DEF Request
  <2>3. SetReq(s, r) \/ Answer(s)
    BY <1>3 DEF CopyRest
  <2>4. c \in Content
    <3>1. folder[x] \in Content
      BY <1>0, <2>1
    <3> QED
      BY <2>1, <3>1 DEF Content
  <2>5. folder' = folder \/ folder' = [folder EXCEPT ![x] = c]
    BY <1>3 DEF CopyRest
  <2> HIDE DEF r, c
  <2>6. req' \in [Slots -> Request] /\ ImportsFound'
    BY <2>2, <2>3, ReqTypes, AnswerTypes
  <2>7. folder' \in [Zipped -> Content]
    BY <1>0, <2>1, <2>4, <2>5
  <2> QED
    BY <1>3, <2>6, <2>7 DEF CopyRest, TypeInv, TypeOK
<1>4. CASE CopyFails(s)
  <2>1. left' \in Left
    BY <1>4 DEF CopyFails, Left, TypeInv, TypeOK
  <2>2. req' \in [Slots -> Request] /\ ImportsFound'
    BY <1>4, AnswerTypes DEF CopyFails
  <2> QED
    BY <1>4, <2>1, <2>2 DEF CopyFails, TypeInv, TypeOK
<1>5. CASE Register(s)
  <2> DEFINE x   == req[s].addon
             new == Enabling(row, x)
             r   == [pc |-> "update", at |-> req[s].at, op |-> "install",
                     addon |-> x, new |-> new, loaded |-> new, sum |-> folder[x],
                     seen |-> reg[x].there]
  <2>1. req[s].at \in Workers /\ x \in Zipped /\ x \in Addons
    BY <1>0, <1>5, RequestKinds DEF Register, Zipped
  <2>0. row \in Row
    BY DEF TypeInv, TypeOK
  <2>2. new \in Row
    BY <2>1, <2>0, RegisteredItems
  <2>3. SetReq(s, r)
    BY <1>5 DEF Register, Base
  <2>4. folder[x] \in Content /\ reg[x].there \in BOOLEAN
    BY <1>0, <2>1 DEF TypeInv, TypeOK
  <2> HIDE DEF new, x
  <2>5. r \in Request /\ r.pc # "import"
    BY <2>1, <2>2, <2>4 DEF Request, Installs
  <2> HIDE DEF r
  <2>6. req' \in [Slots -> Request] /\ ImportsFound'
    BY <2>3, <2>5, ReqTypes
  <2> QED
    BY <1>5, <2>6 DEF Register, TypeInv, TypeOK
<1> QED
  BY <1>1, <1>2, <1>3, <1>4, <1>5

\* A commit of update_settings or write_pages.
LEMMA CommitTypes ==
  ASSUME TypeInv, NEW s \in Slots, Commit(s)
  PROVE  /\ row' \in Row
         /\ off' \subseteq Addons
         /\ saved' \subseteq Pages /\ rivals' \subseteq Slots /\ undone' \in BOOLEAN
         /\ req' \in [Slots -> Request] /\ ImportsFound'
         /\ UNCHANGED <<scene, left, cache>>
<1> DEFINE r == [pc |-> "refresh", at |-> req[s].at, op |-> req[s].op,
                 new |-> req[s].new]
<1>0. req[s] \in Request /\ row \in Row
  BY DEF TypeInv, TypeOK
<1>1. /\ req[s].at \in Workers /\ req[s].op \in Operations
      /\ req[s].loaded \in Row /\ req[s].new \in Row
  BY <1>0, RequestKinds DEF Commit
<1>2. /\ row' = Written(row, req[s].loaded, req[s].new, Assigned(req[s].op))
      /\ Recorded(s, req[s].op, req[s].new)
      /\ SetReq(s, r)
      /\ UNCHANGED <<scene, left, cache>>
  BY DEF Commit
<1>3. row' \in Row
  BY <1>0, <1>1, <1>2, WrittenRow
<1>4. r \in Request /\ r.pc # "import"
  BY <1>1 DEF Request
<1>5. off' \subseteq Addons
  <2>1. req[s].new.addons \in Items
    BY <1>1 DEF Row
  <2>2. DOMAIN req[s].new.addons \subseteq Addons
    BY <2>1, ItemsAre
  <2> QED
    BY <1>2, <2>2 DEF Recorded, SwitchedOff, TypeInv, TypeOK
<1>6. saved' \subseteq Pages /\ rivals' \subseteq Slots /\ undone' \in BOOLEAN
  <2>1. row'.pages \subseteq Pages
    BY <1>3 DEF Row
  <2> QED
    BY <1>2, <2>1 DEF Recorded, Based, TypeInv, TypeOK
<1> HIDE DEF r
<1>7. req' \in [Slots -> Request] /\ ImportsFound'
  BY <1>2, <1>4, ReqTypes
<1> QED
  BY <1>2, <1>3, <1>5, <1>6, <1>7

LEMMA UpdateEndsType ==
  ASSUME TypeInv, NEW s \in Slots,
         CommitInstall(s) \/ InstallConflict(s) \/ CommitOther(s)
  PROVE  TypeInv'
<1>0. req[s] \in Request
  BY DEF TypeInv, TypeOK
<1>1. CASE CommitInstall(s)
  <2> DEFINE x == req[s].addon
             g == [there |-> TRUE, sum |-> Registered(x, req[s].sum)]
  <2>1. req[s].sum \in Content /\ req[s].addon \in Zipped
    BY <1>0, <1>1, RequestKinds DEF CommitInstall, Installs
  <2>0. installed' \subseteq Zipped
    BY <1>1, <2>1 DEF CommitInstall, TypeInv, TypeOK
  <2>2. g \in [there : BOOLEAN, sum : SUBSET Content]
    BY <2>1 DEF Registered
  <2>3. reg' = [reg EXCEPT ![x] = g]
    BY <1>1 DEF CommitInstall
  <2> HIDE DEF g, x
  <2>4. reg' \in [Addons -> [there : BOOLEAN, sum : SUBSET Content]]
    BY <2>2, <2>3 DEF TypeInv, TypeOK
  <2> QED
    BY <1>1, <2>4, <2>0, CommitTypes DEF CommitInstall, TypeInv, TypeOK
<1>2. CASE InstallConflict(s)
  BY <1>2, AnswerTypes DEF InstallConflict, TypeInv, TypeOK, addonVars
<1>3. CASE CommitOther(s)
  BY <1>3, CommitTypes DEF CommitOther, addonVars, TypeInv, TypeOK
<1> QED
  BY <1>1, <1>2, <1>3

LEMMA UninstallingType ==
  ASSUME TypeInv, NEW s \in Slots,
         \/ UninstallCheck(s) \/ RemovePart(s) \/ RemoveClash(s)
         \/ RemoveFails(s) \/ Unregister(s)
  PROVE  TypeInv'
<1> USE DEF others, addonVars
<1>0. req[s] \in Request /\ folder \in [Zipped -> Content]
  BY DEF TypeInv, TypeOK
<1>1. CASE UninstallCheck(s)
  <2>1. PICK x \in Zipped : SetReq(s, [pc |-> "remove", at |-> req[s].at, addon |-> x])
    BY <1>1 DEF UninstallCheck
  <2> DEFINE r == [pc |-> "remove", at |-> req[s].at, addon |-> x]
  <2>2. req[s].at \in Workers
    BY <1>0, <1>1, RequestKinds DEF UninstallCheck
  <2>3. r \in Request /\ r.pc # "import" /\ SetReq(s, r)
    BY <2>1, <2>2 DEF Request
  <2> HIDE DEF r
  <2>4. req' \in [Slots -> Request] /\ ImportsFound'
    BY <2>3, ReqTypes
  <2> QED
    BY <1>1, <2>4 DEF UninstallCheck, TypeInv, TypeOK
<1>2. CASE RemovePart(s)
  <2> DEFINE x == req[s].addon
             r == [req[s] EXCEPT !.pc = "unregister"]
  <2>1. req[s] \in [pc : {"remove", "unregister"}, at : Workers, addon : Zipped]
    BY <1>0, <1>2, RequestKinds DEF RemovePart
  <2>2. r \in Request /\ r.pc # "import"
    BY <2>1 DEF Request
  <2>3. SetReq(s, r) \/ UNCHANGED req
    BY <1>2 DEF RemovePart
  <2>4. PICK p \in Parts : folder' = [folder EXCEPT ![x][p] = 0]
    BY <1>2 DEF RemovePart
  <2>5. x \in Zipped /\ torn' \subseteq Zipped /\ installed' \subseteq Zipped
    BY <1>2, <2>1 DEF RemovePart, TypeInv, TypeOK
  <2> DEFINE c == [folder[x] EXCEPT ![p] = 0]
  <2>6. c \in Content
    BY <1>0, <2>5 DEF Content
  <2>7. folder' = [folder EXCEPT ![x] = c]
    BY <2>4
  <2> HIDE DEF c, r, x
  <2>8. folder' \in [Zipped -> Content]
    BY <1>0, <2>5, <2>6, <2>7
  <2>9. req' \in [Slots -> Request] /\ ImportsFound'
    BY <2>2, <2>3, ReqTypes DEF TypeInv, TypeOK, ImportsFound
  <2> QED
    BY <1>2, <2>5, <2>8, <2>9 DEF RemovePart, TypeInv, TypeOK
<1>3. CASE RemoveClash(s)
  BY <1>3, AnswerTypes DEF RemoveClash, TypeInv, TypeOK
<1>4. CASE RemoveFails(s)
  <2>1. left' \in Left
    BY <1>4 DEF RemoveFails, Left, TypeInv, TypeOK
  <2>2. req' \in [Slots -> Request] /\ ImportsFound'
    BY <1>4, AnswerTypes DEF RemoveFails
  <2> QED
    BY <1>4, <2>1, <2>2 DEF RemoveFails, TypeInv, TypeOK
<1>5. CASE Unregister(s)
  <2> DEFINE x   == req[s].addon
             new == Without(row, x)
  <2>1. req[s].pc = "unregister" /\ x \in Addons \cup {"-"}
    BY <1>0, <1>5, RequestKinds DEF Unregister, Zipped
  <2>2. Update(s, "uninstall", x, new)
    BY <1>5 DEF Unregister, Base
  <2>3. new \in Row
    BY UnregisteredItems DEF TypeInv, TypeOK
  <2> HIDE DEF new, x
  <2>4. req' \in [Slots -> Request] /\ ImportsFound'
    BY <2>1, <2>2, <2>3, UpdateTypes
  <2> QED
    BY <1>5, <2>4 DEF Unregister, TypeInv, TypeOK
<1> QED
  BY <1>1, <1>2, <1>3, <1>4, <1>5

LEMMA RestartType ==
  ASSUME TypeInv, NEW w \in Workers, RestartWorker(w)
  PROVE  TypeInv'
<1> DEFINE on == Enabled(row.addons, There)
           m  == [there |-> There, on |-> on, loaded |-> {x \in on : Verified(x)}]
<1>1. on \subseteq There /\ There \in SUBSET Addons
  BY EnabledThere, ThereAddons
<1>2. left' \in Left
  BY DEF RestartWorker, Restart, Left, TypeInv, TypeOK
<1>3. cache' \in [Workers -> Row] /\ rivals' \subseteq Slots
  BY DEF RestartWorker, Restart, TypeInv, TypeOK
<1>4. req' \in [Slots -> Request] /\ ImportsFound'
  <2>1. req' = [s \in Slots |-> IF s \in ServedBy(w) THEN [pc |-> "idle"] ELSE req[s]]
    BY DEF RestartWorker, Restart
  <2>2. \A s \in Slots : req'[s] = req[s] \/ req'[s] = [pc |-> "idle"]
    BY <2>1
  <2>3. req' \in [Slots -> Request]
    BY <2>1, IdleRequest DEF TypeInv, TypeOK
  <2>4. ImportsFound'
    BY <2>2 DEF TypeInv, ImportsFound
  <2> QED
    BY <2>3, <2>4
<1>5. /\ mods' \in [Workers -> Mods]
      /\ \A v \in Workers : mods'[v].loaded \subseteq mods'[v].on
                            /\ mods'[v].on \subseteq mods'[v].there
  <2>1. mods' = [mods EXCEPT ![w] = m]
    BY DEF RestartWorker
  <2> HIDE DEF on
  <2>2. m \in Mods /\ m.loaded \subseteq m.on /\ m.on \subseteq m.there
    BY <1>1 DEF Mods
  <2> HIDE DEF m
  <2> QED
    BY <2>1, <2>2 DEF TypeInv, TypeOK
<1>6. reg' \in [Addons -> [there : BOOLEAN, sum : SUBSET Content]]
  <2>1. reg' = [x \in Addons |-> IF x \in on THEN [reg[x] EXCEPT !.there = TRUE]
                                            ELSE reg[x]]
    BY DEF RestartWorker
  <2>2. \A x \in Addons : reg[x] \in [there : BOOLEAN, sum : SUBSET Content]
    BY DEF TypeInv, TypeOK
  <2> HIDE DEF on
  <2> QED
    BY <2>1, <2>2, RegistryRow DEF TypeInv
<1> QED
  BY <1>2, <1>3, <1>4, <1>5, <1>6 DEF RestartWorker, Restart, TypeInv, TypeOK

LEMMA CliType ==
  ASSUME TypeInv, CliMaintenance, UNCHANGED addonVars
  PROVE  TypeInv'
<1>1. row \in Row
  BY DEF TypeInv, TypeOK
<1>2. PICK pages \in SUBSET Pages : row' = [row EXCEPT !.pages = pages]
  BY DEF CliMaintenance
<1>3. row' \in Row /\ row'.pages \subseteq Pages
  BY <1>1, <1>2 DEF Row
<1>4. saved' \subseteq Pages /\ rivals' \subseteq Slots /\ undone' \in BOOLEAN
  BY <1>3 DEF CliMaintenance, Based
<1>5. left' \in Left
  BY DEF CliMaintenance, Left, TypeInv, TypeOK
<1> QED
  BY <1>3, <1>4, <1>5 DEF CliMaintenance, addonVars, TypeInv, TypeOK, ImportsFound

LEMMA TypeStep == TypeInv /\ [Next]_vars => TypeInv'
<1> SUFFICES ASSUME TypeInv, [Next]_vars PROVE TypeInv'
  OBVIOUS
<1>1. CASE UNCHANGED vars
  BY <1>1 DEF vars, settingsVars, others, addonVars, TypeInv, TypeOK, ImportsFound
<1>2. ASSUME NEW s \in Slots,
             (SettingsStep(s, There) \/ Fail(s)) /\ UNCHANGED addonVars
      PROVE  TypeInv'
  BY <1>2, SettingsStepType
<1>3. ASSUME NEW s \in Slots,
             \/ Sync(s) \/ Load(s) \/ ImportModules(s)
             \/ InstallCheck(s) \/ CopyFirst(s) \/ CopyRest(s) \/ CopyFails(s)
             \/ Register(s) \/ CommitInstall(s) \/ InstallConflict(s)
             \/ CommitOther(s)
             \/ UninstallCheck(s) \/ RemovePart(s) \/ RemoveClash(s)
             \/ RemoveFails(s) \/ Unregister(s)
      PROVE  TypeInv'
  BY <1>3, LoadingType, ImportModulesType, InstallingType, UpdateEndsType,
     UninstallingType
<1>4. ASSUME NEW w \in Workers, RestartWorker(w)
      PROVE  TypeInv'
  BY <1>4, RestartType
<1>5. CASE CliMaintenance /\ UNCHANGED addonVars
  BY <1>5, CliType
<1> QED
  BY <1>1, <1>2, <1>3, <1>4, <1>5 DEF Next

\* Every variable keeps its type, and what a process has loaded it had found
\* and enabled, whatever requests, failures and restarts interleave.
THEOREM TypeCorrect == Spec => []TypeOK
<1>1. TypeInv => TypeOK
  BY DEF TypeInv
<1> QED
  BY <1>1, TypeInit, TypeStep, PTL DEF Spec

-----------------------------------------------------------------------------
(* Whose request a step moves.                                             *)

SlotStep(s) ==
  \/ (SettingsStep(s, There) \/ Fail(s)) /\ UNCHANGED addonVars
  \/ Sync(s) \/ Load(s) \/ ImportModules(s)
  \/ InstallCheck(s) \/ CopyFirst(s) \/ CopyRest(s) \/ CopyFails(s)
  \/ Register(s) \/ CommitInstall(s) \/ InstallConflict(s) \/ CommitOther(s)
  \/ UninstallCheck(s) \/ RemovePart(s) \/ RemoveClash(s) \/ RemoveFails(s)
  \/ Unregister(s)

LEMMA Steps ==
  ASSUME [Next]_vars
  PROVE  \/ \E s \in Slots : SlotStep(s)
         \/ \E w \in Workers : RestartWorker(w)
         \/ CliMaintenance /\ UNCHANGED addonVars
         \/ UNCHANGED vars
BY DEF Next, SlotStep

\* A step of a request assigns no other slot than its own.
LEMMA SlotStepsMove ==
  ASSUME NEW s \in Slots, SlotStep(s)
  PROVE  (\E r : SetReq(s, r)) \/ UNCHANGED req
<1>1. CASE SettingsStep(s, There) \/ Fail(s)
  BY <1>1 DEF SettingsStep, Begin, SaveForm, Import, SavePages, ToggleMaintenance,
              EditPages, LoadRow, Refresh, Apply, View, Fail, Update, Answer
<1>2. CASE Sync(s) \/ Load(s) \/ ImportModules(s)
  BY <1>2 DEF Sync, Load, ImportModules, Answer
<1>3. CASE InstallCheck(s) \/ CopyFirst(s) \/ CopyRest(s) \/ CopyFails(s)
             \/ Register(s)
  BY <1>3 DEF InstallCheck, CopyFirst, CopyRest, CopyFails, Register, Answer
<1>4. CASE CommitInstall(s) \/ InstallConflict(s) \/ CommitOther(s)
  BY <1>4 DEF CommitInstall, InstallConflict, CommitOther, Commit, Answer
<1>5. CASE UninstallCheck(s) \/ RemovePart(s) \/ RemoveClash(s)
             \/ RemoveFails(s) \/ Unregister(s)
  BY <1>5 DEF UninstallCheck, RemovePart, RemoveClash, RemoveFails, Unregister,
              Update, Answer
<1> QED
  BY <1>1, <1>2, <1>3, <1>4, <1>5 DEF SlotStep

LEMMA OthersStay ==
  ASSUME TypeInv, NEW s \in Slots, SlotStep(s), NEW t \in Slots \ {s}
  PROVE  req'[t] = req[t]
BY SlotStepsMove DEF SetReq, TypeInv, TypeOK

\* A restart ends requests and changes no other.
LEMMA RestartMoves ==
  ASSUME NEW w \in Workers, RestartWorker(w), NEW s \in Slots
  PROVE  req'[s] = [pc |-> "idle"] \/ req'[s] = req[s]
BY DEF RestartWorker, Restart

\* The two steps of a copy.
LEMMA CopyFirstMoves ==
  ASSUME TypeInv, NEW s \in Slots, CopyFirst(s)
  PROVE  \/ /\ Creates(req[s].addon)
            /\ req'[s].pc = "rest" /\ req'[s].addon = req[s].addon
            /\ req'[s].zip = req[s].zip /\ req'[s].part \in Parts
            /\ folder' = [folder EXCEPT ![req[s].addon][req'[s].part] = req[s].zip]
         \/ /\ ~Creates(req[s].addon)
            /\ req'[s].pc = "idle"
            /\ UNCHANGED folder
<1> DEFINE r(p) == [pc |-> "rest", at |-> req[s].at, addon |-> req[s].addon,
                    zip |-> req[s].zip, part |-> p]
<1>0. req \in [Slots -> Request]
  BY DEF TypeInv, TypeOK
<1>1. CASE Creates(req[s].addon)
  <2>1. PICK p \in Parts :
          /\ folder' = [folder EXCEPT ![req[s].addon][p] = req[s].zip]
          /\ SetReq(s, r(p))
    BY <1>1 DEF CopyFirst
  <2>2. req'[s] = r(p)
    BY <1>0, <2>1 DEF SetReq
  <2>3. /\ req'[s].pc = "rest" /\ req'[s].addon = req[s].addon
        /\ req'[s].zip = req[s].zip /\ req'[s].part = p
    BY <2>2
  <2> HIDE DEF r
  <2> QED
    BY <1>1, <2>1, <2>3
<1>2. CASE ~Creates(req[s].addon)
  BY <1>0, <1>2 DEF CopyFirst, Answer, SetReq
<1> QED
  BY <1>1, <1>2

LEMMA CopyRestMoves ==
  ASSUME TypeInv, NEW s \in Slots, CopyRest(s)
  PROVE  \/ /\ folder[req[s].addon] # Absent
            /\ req'[s].pc = "register" /\ req'[s].addon = req[s].addon
            /\ req'[s].zip = req[s].zip
            /\ folder' = [folder EXCEPT ![req[s].addon] =
                            [p \in Parts |-> IF p = req[s].part
                                             THEN folder[req[s].addon][p]
                                             ELSE req[s].zip]]
         \/ /\ folder[req[s].addon] = Absent
            /\ req'[s].pc = "idle"
            /\ UNCHANGED folder
<1>0. req \in [Slots -> Request]
  BY DEF TypeInv, TypeOK
<1>1. CASE folder[req[s].addon] = Absent
  BY <1>0, <1>1 DEF CopyRest, Answer, SetReq
<1>2. CASE folder[req[s].addon] # Absent
  BY <1>0, <1>2 DEF CopyRest, SetReq
<1> QED
  BY <1>1, <1>2

-----------------------------------------------------------------------------
(* The page switches.                                                      *)

\* Is the slot about to write pages it has read from the row?
WritesBack(r) == r.pc \in {"update", "commit"} /\ r.op \notin Saves

\* While no rival has written, the row has the saved pages, and every other
\* request that writes pages back has read these.
PagesInv ==
  ~undone =>
    /\ row.pages = saved
    /\ \A s \in Slots \ rivals : WritesBack(req[s]) => req[s].new.pages = saved

\* The steps of a request that do not commit leave in its slot pages of the row,
\* or those that were there.
LEMMA BaseRead ==
  ASSUME TypeInv, NEW s \in Slots, SlotStep(s), ~Commit(s), WritesBack(req'[s])
  PROVE  \/ req'[s].new.pages = row.pages
         \/ WritesBack(req[s]) /\ req'[s].new = req[s].new
<1>0. /\ req[s] \in Request /\ req \in [Slots -> Request] /\ row \in Row
  BY DEF TypeInv, TypeOK
<1> USE DEF WritesBack, Saves
<1>1. CASE SaveForm(s, There)
  <2>1. PICK checked \in SUBSET Addons :
          Update(s, "form", "-",
                 [row EXCEPT !.addons =
                    [x \in DOMAIN @ \cup There |-> x \in checked]])
    BY <1>1 DEF SaveForm, Base
  <2> DEFINE new == [row EXCEPT !.addons =
                       [x \in DOMAIN @ \cup There |-> x \in checked]]
  <2>2. new.pages = row.pages
    BY <1>0, FormItems
  <2>3. Update(s, "form", "-", new)
    BY <2>1
  <2> HIDE DEF new
  <2> QED
    BY <1>0, <2>2, <2>3 DEF Update, SetReq
<1>2. CASE LoadRow(s)
  <2>1. req'[s] = [req[s] EXCEPT !.pc = "commit", !.loaded = row]
    BY <1>0, <1>2 DEF LoadRow, SetReq
  <2>2. req[s] \in Updates \/ req[s] \in Installs
    BY <1>0, <1>2, RequestKinds DEF LoadRow
  <2>3. req'[s].new = req[s].new /\ req'[s].op = req[s].op /\ req[s].pc = "update"
    BY <1>2, <2>1, <2>2 DEF LoadRow, Updates, Installs
  <2> QED
    BY <2>3
<1>3. CASE Register(s)
  <2> DEFINE x   == req[s].addon
             new == Enabling(row, x)
  <2>1. x \in Addons
    BY <1>0, <1>3, RequestKinds DEF Register, Zipped
  <2>2. new.pages = row.pages
    BY <1>0, <2>1, RegisteredItems
  <2>3. req'[s].new = new
    BY <1>0, <1>3 DEF Register, SetReq, Base
  <2> HIDE DEF new
  <2> QED
    BY <2>2, <2>3
<1>4. CASE Unregister(s)
  <2> DEFINE x   == req[s].addon
             new == Without(row, x)
  <2>1. new.pages = row.pages
    BY <1>0, UnregisteredItems
  <2>2. req'[s].new = new
    BY <1>0, <1>4 DEF Unregister, Update, SetReq, Base
  <2> HIDE DEF new
  <2> QED
    BY <2>1, <2>2
<1>5. CASE SettingsStep(s, There) /\ ~SaveForm(s, There) /\ ~LoadRow(s)
  <2>1. CASE Begin(s) \/ View(s)
    BY <1>0, <2>1 DEF Begin, View, Answer, SetReq
  <2>2. CASE Import(s)
    BY <1>0, <2>2 DEF Import, Update, SetReq
  <2>3. CASE SavePages(s) \/ ToggleMaintenance(s)
    <3>1. PICK pages : EditPages(s, pages)
      BY <2>3 DEF SavePages, ToggleMaintenance
    <3>2. req'[s].op = "pages"
      BY <1>0, <3>1 DEF EditPages, Update, SetReq
    <3> QED
      BY <3>2
  <2>4. CASE Refresh(s)
    <3> DEFINE new == IF req[s].op = "pages" THEN req[s].new ELSE row
    <3>1. req[s] \in [pc : {"refresh", "apply"}, at : Workers, op : Operations,
                      new : Row]
      BY <1>0, <2>4, RequestKinds DEF Refresh
    <3>2. req'[s] = [req[s] EXCEPT !.pc = "apply", !.new = new]
      BY <1>0, <2>4 DEF Refresh, SetReq
    <3> HIDE DEF new
    <3>3. req'[s].pc = "apply"
      BY <3>1, <3>2
    <3> QED
      BY <3>3
  <2>5. CASE Apply(s)
    BY <1>0, <2>5 DEF Apply, Answer, SetReq
  <2> QED
    BY <1>1, <1>2, <1>5, <2>1, <2>2, <2>3, <2>4, <2>5 DEF SettingsStep
<1>6. CASE Sync(s) \/ Load(s) \/ ImportModules(s)
  <2>1. req'[s].pc \in {"idle", "ready", "load", "import"}
    <3>1. CASE Sync(s)
      BY <1>0, <3>1 DEF Sync, SetReq
    <3>2. CASE Load(s)
      BY <1>0, <3>2 DEF Load, SetReq
    <3>3. CASE ImportModules(s)
      BY <1>0, <3>3 DEF ImportModules, SetReq, Answer
    <3> QED
      BY <1>6, <3>1, <3>2, <3>3
  <2> QED
    BY <2>1
<1>9. CASE InstallCheck(s) \/ CopyFirst(s) \/ CopyRest(s) \/ UninstallCheck(s)
  <2>1. CASE InstallCheck(s) \/ UninstallCheck(s)
    BY <1>0, <2>1 DEF InstallCheck, UninstallCheck, SetReq
  <2>2. CASE CopyFirst(s)
    <3>1. req'[s].pc = "rest" \/ req'[s] = [pc |-> "idle"]
      BY <2>2, CopyFirstMoves
    <3> QED
      BY <3>1
  <2>3. CASE CopyRest(s)
    <3>1. req'[s].pc = "register" \/ req'[s] = [pc |-> "idle"]
      BY <2>3, CopyRestMoves
    <3> QED
      BY <3>1
  <2> QED
    BY <1>9, <2>1, <2>2, <2>3
<1>7. CASE RemovePart(s)
  <2>1. req[s] \in [pc : {"remove", "unregister"}, at : Workers, addon : Zipped]
    BY <1>0, <1>7, RequestKinds DEF RemovePart
  <2>2. req'[s] = req[s] \/ req'[s] = [req[s] EXCEPT !.pc = "unregister"]
    BY <1>0, <1>7 DEF RemovePart, SetReq
  <2> QED
    BY <2>1, <2>2
<1>8. CASE Fail(s) \/ CopyFails(s) \/ InstallConflict(s) \/ RemoveClash(s)
             \/ RemoveFails(s)
  BY <1>0, <1>8 DEF Fail, CopyFails, InstallConflict, RemoveClash, RemoveFails,
                    SetReq, Answer
<1> QED
  BY <1>1, <1>2, <1>3, <1>4, <1>5, <1>6, <1>7, <1>8, <1>9
     DEF SlotStep, CommitInstall, CommitOther

\* Only commits, and the command line, change the row and its history; who stops
\* being a rival writes nothing back any more.
LEMMA RowStays ==
  ASSUME TypeInv, NEW s \in Slots, SlotStep(s), ~Commit(s)
  PROVE  /\ UNCHANGED <<row, saved, undone>>
         /\ rivals' = rivals \/ (rivals' = rivals \ {s} /\ ~WritesBack(req'[s]))
<1>1. CASE Fail(s) \/ InstallConflict(s)
  BY <1>1 DEF Fail, InstallConflict, Answer, SetReq, WritesBack, TypeInv, TypeOK
<1>2. CASE SettingsStep(s, There)
  BY <1>2 DEF SettingsStep, Begin, SaveForm, Import, SavePages, ToggleMaintenance,
              EditPages, LoadRow, Refresh, Apply, View, others
<1>3. CASE ~(Fail(s) \/ InstallConflict(s) \/ SettingsStep(s, There))
  BY <1>3 DEF SlotStep, CommitInstall, CommitOther, Sync, Load, ImportModules,
              InstallCheck, CopyFirst, CopyRest, CopyFails, Register,
              UninstallCheck, RemovePart, RemoveClash, RemoveFails, Unregister,
              others
<1> QED
  BY <1>1, <1>2, <1>3

LEMMA PagesStep ==
  ASSUME TypeInv, PagesInv, [Next]_vars
  PROVE  PagesInv'
<1>1. ASSUME NEW s \in Slots, SlotStep(s), ~Commit(s)
      PROVE  PagesInv'
  <2> SUFFICES ASSUME ~undone'
               PROVE  /\ row'.pages = saved'
                      /\ \A t \in Slots \ rivals' :
                           WritesBack(req'[t]) => req'[t].new.pages = saved'
    BY DEF PagesInv, WritesBack
  <2>1. /\ UNCHANGED <<row, saved, undone>>
        /\ rivals' = rivals \/ (rivals' = rivals \ {s} /\ ~WritesBack(req'[s]))
    BY <1>1, RowStays
  <2>2. row.pages = saved
    BY <2>1 DEF PagesInv
  <2>3. ASSUME NEW t \in Slots \ rivals', WritesBack(req'[t])
        PROVE  req'[t].new.pages = saved
    <3>1. t \notin rivals
      BY <2>1, <2>3
    <3>2. CASE t = s
      BY <1>1, <2>1, <2>2, <2>3, <3>1, <3>2, BaseRead DEF PagesInv
    <3>3. CASE t # s
      <4>1. req'[t] = req[t]
        BY <1>1, <3>3, OthersStay
      <4> QED
        BY <2>1, <2>3, <3>1, <4>1 DEF PagesInv
    <3> QED
      BY <3>2, <3>3
  <2> QED
    BY <2>1, <2>2, <2>3
<1>2. ASSUME NEW s \in Slots, SlotStep(s), Commit(s)
      PROVE  PagesInv'
  <2> SUFFICES ASSUME ~undone'
               PROVE  /\ row'.pages = saved'
                      /\ \A t \in Slots \ rivals' :
                           WritesBack(req'[t]) => req'[t].new.pages = saved'
    BY DEF PagesInv, WritesBack
  <2>1. /\ req[s] \in Request /\ row \in Row /\ req[s].pc = "commit"
        /\ req[s].loaded \in Row /\ req[s].new \in Row
        /\ req \in [Slots -> Request]
    BY <1>2, RequestKinds DEF Commit, TypeInv, TypeOK
  <2>2. /\ row'.pages \in {row.pages, req[s].new.pages}
        /\ req'[s].pc = "refresh"
        /\ Recorded(s, req[s].op, req[s].new)
    BY <1>2, <2>1, WrittenRow DEF Commit, SetReq
  <2>3. \A t \in Slots : WritesBack(req'[t]) => t # s /\ WritesBack(req[t])
                                             /\ req'[t] = req[t]
    BY <1>2, <2>2, OthersStay DEF WritesBack
  <2>4. CASE req[s].op \in Saves
    <3>1. saved' = row'.pages /\ rivals' = Based \ {s}
      BY <2>2, <2>4 DEF Recorded
    <3> QED
      BY <2>3, <3>1 DEF Based, WritesBack
  <2>5. CASE req[s].op \notin Saves
    <3>1. saved' = saved /\ rivals' = rivals \ {s} /\ ~undone /\ s \notin rivals
      BY <2>2, <2>5 DEF Recorded
    <3>2. req[s].new.pages = saved /\ row.pages = saved
      BY <2>1, <2>5, <3>1 DEF PagesInv, WritesBack
    <3> QED
      BY <2>2, <2>3, <3>1, <3>2 DEF PagesInv
  <2> QED
    BY <2>4, <2>5
<1>3. ASSUME NEW w \in Workers, RestartWorker(w)
      PROVE  PagesInv'
  <2>1. /\ UNCHANGED <<row, saved, undone>> /\ rivals' = rivals \ ServedBy(w)
        /\ \A t \in Slots : req'[t] = IF t \in ServedBy(w) THEN [pc |-> "idle"]
                                                          ELSE req[t]
    BY <1>3 DEF RestartWorker, Restart
  <2>2. \A t \in Slots : WritesBack(req'[t]) => t \notin ServedBy(w) /\ req'[t] = req[t]
    BY <2>1 DEF WritesBack
  <2>3. \A t \in Slots \ rivals' : WritesBack(req'[t]) =>
          t \notin rivals /\ req'[t] = req[t]
    BY <2>1, <2>2
  <2> QED
    BY <2>1, <2>3 DEF PagesInv, WritesBack
<1>4. CASE CliMaintenance
  <2>1. saved' = row'.pages /\ rivals' = Based /\ req' = req
    BY <1>4 DEF CliMaintenance
  <2> QED
    BY <2>1 DEF PagesInv, Based, WritesBack
<1>5. CASE UNCHANGED vars
  BY <1>5 DEF vars, settingsVars, others, PagesInv, WritesBack
<1> QED
  BY <1>1, <1>2, <1>3, <1>4, <1>5, Steps

\* The pages that were saved stay until the next save or until a request that
\* had read the settings before writes, whatever times the rows are of that the
\* other requests read, load and write.
THEOREM PagesStay == Spec => []PagesKept
<1>1. Init => PagesInv
  BY DEF Init, SettingsInit, PagesInv, WritesBack
<1>2. TypeInv /\ PagesInv /\ [Next]_vars => PagesInv'
  BY PagesStep
<1>3. PagesInv => PagesKept
  BY DEF PagesInv, PagesKept
<1> QED
  BY <1>1, <1>2, <1>3, TypeInit, TypeStep, PTL DEF Spec

-----------------------------------------------------------------------------
(* The folders and the registry.                                           *)

IsFilling(r, x) ==
  /\ \/ r.pc \in {"rest", "register"}
     \/ r.pc \in {"update", "commit"} /\ r.op = "install"
  /\ r.addon = x

LEMMA FillingIs ==
  /\ \A x : Filling(x) = {s \in Slots : IsFilling(req[s], x)}
  /\ \A x : Filling(x)' = {s \in Slots : IsFilling(req'[s], x)}
BY DEF Filling, IsFilling

\* One install at a time fills a folder, from one ZIP, and what it is about to
\* register is the checksum of the whole folder.
FillsAlone(x) ==
  /\ \A s, t \in Filling(x) : s = t
  /\ \A s \in Filling(x) :
       /\ folder[x] # Absent
       /\ req[s].pc = "rest" => folder[x][req[s].part] = req[s].zip
       /\ req[s].pc # "rest" => Whole(x)
       /\ req[s].pc \in {"update", "commit"} => req[s].sum = folder[x]

SameSource(x) == Whole(x) => folder[x]["main"] = folder[x]["rest"]

\* Nobody fills the folder of an add-on that is installed.
Kept(x) ==
  x \in installed => Filling(x) = {} /\ Whole(x) /\ reg[x].sum = {folder[x]}

InstallOf(x) == x \notin torn => FillsAlone(x) /\ SameSource(x) /\ Kept(x)

InstallInv == \A x \in Zipped : InstallOf(x)

\* A step keeps the invariant of the add-ons whose folder it does not touch and
\* whose installs it only ends.
LEMMA Elsewhere ==
  ASSUME InstallInv, NEW x \in Zipped,
         folder'[x] = folder[x], reg'[x].sum = reg[x].sum, torn' = torn,
         x \in installed' => x \in installed,
         \A s \in Filling(x)' : s \in Filling(x) /\ req'[s] = req[s]
  PROVE  InstallOf(x)'
<1> SUFFICES ASSUME x \notin torn PROVE InstallOf(x)'
  BY DEF InstallOf
<1>1. FillsAlone(x) /\ SameSource(x) /\ Kept(x)
  BY DEF InstallInv, InstallOf
<1>2. FillsAlone(x)'
  BY <1>1 DEF FillsAlone, Absent, Whole
<1>3. SameSource(x)'
  BY <1>1 DEF SameSource, Whole
<1>4. Kept(x)'
  BY <1>1 DEF Kept, Whole
<1> QED
  BY <1>2, <1>3, <1>4 DEF InstallOf

\* A step of a slot that does not leave it filling a folder.
LEMMA NotFilling ==
  ASSUME TypeInv, NEW s \in Slots, SlotStep(s), NEW x,
         IsFilling(req'[s], x) => IsFilling(req[s], x) /\ req'[s] = req[s]
  PROVE  \A t \in Filling(x)' : t \in Filling(x) /\ req'[t] = req[t]
BY OthersStay, FillingIs

\* Imports only add rows to the registry.
LEMMA SumsStay ==
  ASSUME TypeInv, NEW on,
         reg' = [x \in Addons |-> IF x \in on THEN [reg[x] EXCEPT !.there = TRUE]
                                              ELSE reg[x]]
  PROVE  \A x \in Zipped : reg'[x].sum = reg[x].sum
<1>1. \A x \in Addons : reg[x] \in [there : BOOLEAN, sum : SUBSET Content]
  BY DEF TypeInv, TypeOK
<1>2. \A x \in Addons :
        reg'[x] = [reg[x] EXCEPT !.there = TRUE] \/ reg'[x] = reg[x]
  OBVIOUS
<1>3. \A x \in Addons : reg'[x].sum = reg[x].sum
  BY <1>1, <1>2
<1> QED
  BY <1>3 DEF Zipped

\* Steps that touch no folder and leave no install in the slot.
LEMMA AsideStep ==
  ASSUME TypeInv, InstallInv, NEW s \in Slots, SlotStep(s),
         \/ (SettingsStep(s, There) \/ Fail(s)) /\ UNCHANGED addonVars
         \/ Sync(s) \/ Load(s) \/ ImportModules(s)
         \/ InstallCheck(s) \/ CopyFails(s) \/ InstallConflict(s) \/ CommitOther(s)
         \/ UninstallCheck(s) \/ RemoveClash(s) \/ RemoveFails(s)
         \/ Unregister(s),
         ~LoadRow(s)
  PROVE  InstallInv'
<1>0. req[s] \in Request /\ req \in [Slots -> Request]
  BY DEF TypeInv, TypeOK
<1>1. \A x : ~IsFilling(req'[s], x)
  <2>1. CASE SettingsStep(s, There) \/ Fail(s)
    <3>1. CASE Begin(s) \/ View(s) \/ Fail(s)
      BY <1>0, <3>1 DEF Begin, View, Fail, Answer, SetReq, IsFilling
    <3>2. CASE SaveForm(s, There) \/ Import(s) \/ SavePages(s)
                 \/ ToggleMaintenance(s)
      <4>1. \E op \in {"form", "import", "pages"} : \E x, new : Update(s, op, x, new)
        BY <3>2 DEF SaveForm, Import, SavePages, ToggleMaintenance, EditPages
      <4>2. req'[s].pc = "update" /\ req'[s].op \in {"form", "import", "pages"}
        BY <1>0, <4>1 DEF Update, SetReq
      <4> QED
        BY <4>2 DEF IsFilling
    <3>3. CASE Refresh(s)
      <4> DEFINE new == IF req[s].op = "pages" THEN req[s].new ELSE row
      <4>1. req[s] \in [pc : {"refresh", "apply"}, at : Workers, op : Operations,
                        new : Row]
        BY <1>0, <3>3, RequestKinds DEF Refresh
      <4>2. req'[s] = [req[s] EXCEPT !.pc = "apply", !.new = new]
        BY <1>0, <3>3 DEF Refresh, SetReq
      <4> HIDE DEF new
      <4>3. req'[s].pc = "apply"
        BY <4>1, <4>2
      <4> QED
        BY <4>3 DEF IsFilling
    <3>4. CASE Apply(s)
      BY <1>0, <3>4 DEF Apply, Answer, SetReq, IsFilling
    <3> QED
      BY <2>1, <3>1, <3>2, <3>3, <3>4 DEF SettingsStep
  <2>2. CASE Sync(s) \/ Load(s) \/ ImportModules(s)
    <3>1. CASE Sync(s)
      BY <1>0, <3>1 DEF Sync, SetReq, IsFilling
    <3>2. CASE Load(s)
      BY <1>0, <3>2 DEF Load, SetReq, IsFilling
    <3>3. CASE ImportModules(s)
      BY <1>0, <3>3 DEF ImportModules, SetReq, Answer, IsFilling
    <3> QED
      BY <2>2, <3>1, <3>2, <3>3
  <2>3. CASE InstallCheck(s) \/ UninstallCheck(s)
    <3>1. req'[s].pc \in {"copy", "remove"}
      BY <1>0, <2>3 DEF InstallCheck, UninstallCheck, SetReq
    <3> QED
      BY <3>1 DEF IsFilling
  <2>4. CASE CopyFails(s) \/ InstallConflict(s) \/ RemoveClash(s) \/ RemoveFails(s)
    BY <1>0, <2>4 DEF CopyFails, InstallConflict, RemoveClash, RemoveFails, Answer,
                      SetReq, IsFilling
  <2>5. CASE CommitOther(s)
    <3>1. req'[s].pc = "refresh"
      BY <1>0, <2>5 DEF CommitOther, Commit, SetReq
    <3> QED
      BY <3>1 DEF IsFilling
  <2>6. CASE Unregister(s)
    <3>1. req'[s].op = "uninstall"
      BY <1>0, <2>6 DEF Unregister, Update, SetReq
    <3>2. req'[s].pc = "update"
      BY <1>0, <2>6 DEF Unregister, Update, SetReq
    <3> QED
      BY <3>1, <3>2 DEF IsFilling
  <2> QED
    BY <2>1, <2>2, <2>3, <2>4, <2>5, <2>6
<1>2. UNCHANGED <<folder, torn, installed>>
  BY DEF Sync, Load, ImportModules, InstallCheck, CopyFails, InstallConflict,
         CommitOther, UninstallCheck, RemoveClash, RemoveFails, Unregister,
         addonVars
<1>3. \A x \in Zipped : reg'[x].sum = reg[x].sum
  <2>1. CASE ImportModules(s)
    BY <2>1, SumsStay DEF ImportModules
  <2>2. CASE ~ImportModules(s)
    BY <2>2 DEF Sync, Load, InstallCheck, CopyFails, InstallConflict, CommitOther,
                UninstallCheck, RemoveClash, RemoveFails, Unregister, addonVars
  <2> QED
    BY <2>1, <2>2
<1>4. SUFFICES ASSUME NEW x \in Zipped PROVE InstallOf(x)'
  BY DEF InstallInv
<1>5. \A t \in Filling(x)' : t \in Filling(x) /\ req'[t] = req[t]
  BY <1>1, NotFilling
<1> QED
  BY <1>2, <1>3, <1>5, Elsewhere

\* An update of an install stays one while it loads the row.
LEMMA LoadRowInstall ==
  ASSUME TypeInv, InstallInv, NEW s \in Slots, SlotStep(s), LoadRow(s),
         UNCHANGED addonVars
  PROVE  InstallInv'
<1>0. /\ req[s] \in Updates \/ req[s] \in Installs
      /\ req[s].pc = "update"
      /\ req'[s] = [req[s] EXCEPT !.pc = "commit", !.loaded = row]
  BY RequestKinds DEF LoadRow, SetReq, TypeInv, TypeOK
<1>1. /\ req'[s].pc = "commit" /\ req'[s].op = req[s].op
      /\ req'[s].addon = req[s].addon
      /\ req[s] \in Installs => req'[s].sum = req[s].sum
  BY <1>0 DEF Updates, Installs
<1>2. req[s].op = "install" => req[s] \in Installs
  BY <1>0 DEF Updates
<1> SUFFICES ASSUME NEW x \in Zipped, x \notin torn PROVE InstallOf(x)'
  BY DEF InstallInv, InstallOf, addonVars
<1>3. FillsAlone(x) /\ SameSource(x) /\ Kept(x)
  BY DEF InstallInv, InstallOf
<1>4. Filling(x)' = Filling(x)
  <2>1. IsFilling(req'[s], x) <=> IsFilling(req[s], x)
    BY <1>0, <1>1 DEF IsFilling
  <2> QED
    BY <2>1, OthersStay, FillingIs
<1>5. \A t \in Filling(x) : t # s => req'[t] = req[t]
  BY OthersStay DEF Filling
<1>6. s \in Filling(x) => Whole(x) /\ folder[x] # Absent /\ req'[s].sum = folder[x]
  <2> SUFFICES ASSUME s \in Filling(x)
               PROVE  Whole(x) /\ folder[x] # Absent /\ req'[s].sum = folder[x]
    OBVIOUS
  <2>1. req[s].op = "install"
    BY <1>0 DEF Filling
  <2> QED
    BY <1>0, <1>1, <1>2, <1>3, <2>1 DEF FillsAlone
<1>7. FillsAlone(x)'
  BY <1>1, <1>3, <1>4, <1>5, <1>6 DEF FillsAlone, addonVars, Absent, Whole
<1>8. SameSource(x)' /\ Kept(x)'
  BY <1>3, <1>4 DEF SameSource, Kept, Whole, addonVars
<1> QED
  BY <1>7, <1>8 DEF InstallOf

\* copytree creates the folder or the install ends: a folder being filled is
\* there, so that no second install creates it.
LEMMA CopyFirstStep ==
  ASSUME TypeInv, InstallInv, NEW s \in Slots, SlotStep(s), CopyFirst(s)
  PROVE  InstallInv'
<1>0. /\ req[s].pc = "copy" /\ req[s].addon \in Zipped /\ req[s].zip \in Zips
      /\ req \in [Slots -> Request]
      /\ folder \in [Zipped -> Content]
      /\ UNCHANGED <<reg, torn, installed>>
  BY RequestKinds DEF CopyFirst, TypeInv, TypeOK
<1> SUFFICES ASSUME NEW x \in Zipped PROVE InstallOf(x)'
  BY DEF InstallInv
<1>1. ~IsFilling(req[s], x)
  BY <1>0 DEF IsFilling
<1>2. CASE Creates(req[s].addon) /\ x = req[s].addon /\ x \notin torn
  <2> DEFINE p == req'[s].part
  <2>1. /\ folder[x] = Absent
        /\ req'[s].pc = "rest" /\ req'[s].addon = x
        /\ req'[s].zip = req[s].zip /\ p \in Parts
        /\ folder' = [folder EXCEPT ![x][p] = req[s].zip]
    BY <1>2, CopyFirstMoves DEF Creates
  <2> HIDE DEF p
  <2>2. req[s].zip # 0
    BY <1>0, ZipsAssumption
  <2>3. \A i \in Parts : folder'[x][i] = IF i = p THEN req[s].zip ELSE 0
    BY <1>0, <2>1 DEF Absent, Content
  <2>4. ~Whole(x)
    BY <2>1 DEF Whole, Absent, Parts
  <2>5. Filling(x) = {} /\ x \notin installed
    BY <1>2, <2>1, <2>4 DEF InstallInv, InstallOf, FillsAlone, Kept
  <2>6. \A t \in Filling(x)' : t = s
    BY <2>5, OthersStay, FillingIs
  <2>7. folder'[x] # Absent
    BY <2>1, <2>2, <2>3 DEF Absent
  <2>8. folder'[x][p] = req[s].zip
    BY <2>1, <2>3
  <2>9. FillsAlone(x)'
    BY <2>1, <2>6, <2>7, <2>8 DEF FillsAlone, Absent, p
  <2>10. SameSource(x)'
    <3>1. ~Whole(x)'
      BY <2>1, <2>3 DEF Whole, Parts
    <3> QED
      BY <3>1 DEF SameSource
  <2> QED
    BY <1>0, <2>5, <2>9, <2>10 DEF InstallOf, Kept
<1>3. CASE ~(Creates(req[s].addon) /\ x = req[s].addon)
  <2>1. folder'[x] = folder[x]
    BY <1>0, <1>3, CopyFirstMoves
  <2>2. ~IsFilling(req'[s], x)
    BY <1>3, CopyFirstMoves DEF IsFilling
  <2>3. \A t \in Filling(x)' : t \in Filling(x) /\ req'[t] = req[t]
    BY <2>2, NotFilling
  <2> QED
    BY <1>0, <2>1, <2>3, Elsewhere
<1>4. CASE x \in torn
  BY <1>0, <1>4 DEF InstallOf
<1> QED
  BY <1>2, <1>3, <1>4

\* The other part comes from the same ZIP.
LEMMA CopyRestStep ==
  ASSUME TypeInv, InstallInv, NEW s \in Slots, SlotStep(s), CopyRest(s)
  PROVE  InstallInv'
<1>0. /\ req[s].pc = "rest" /\ req[s].addon \in Zipped /\ req[s].zip \in Zips
      /\ req \in [Slots -> Request]
      /\ folder \in [Zipped -> Content]
      /\ UNCHANGED <<reg, torn, installed>>
  BY RequestKinds DEF CopyRest, TypeInv, TypeOK
<1> SUFFICES ASSUME NEW x \in Zipped PROVE InstallOf(x)'
  BY DEF InstallInv
<1>1. CASE x # req[s].addon
  <2>1. folder'[x] = folder[x]
    BY <1>0, <1>1, CopyRestMoves
  <2>2. ~IsFilling(req'[s], x)
    BY <1>1, CopyRestMoves DEF IsFilling
  <2>3. \A t \in Filling(x)' : t \in Filling(x) /\ req'[t] = req[t]
    BY <2>2, NotFilling
  <2> QED
    BY <1>0, <2>1, <2>3, Elsewhere
<1>2. CASE x = req[s].addon /\ x \notin torn
  <2>1. s \in Filling(x)
    BY <1>0, <1>2 DEF Filling
  <2>2. /\ folder[x] # Absent
        /\ \A t \in Filling(x) : t = s
        /\ folder[x][req[s].part] = req[s].zip
        /\ x \notin installed
    BY <1>0, <1>2, <2>1 DEF InstallInv, InstallOf, FillsAlone, Kept
  <2>3. /\ req'[s].pc = "register" /\ req'[s].addon = x
        /\ folder' = [folder EXCEPT ![x] =
                        [p \in Parts |-> IF p = req[s].part THEN folder[x][p]
                                                           ELSE req[s].zip]]
    BY <1>2, <2>2, CopyRestMoves
  <2>4. \A p \in Parts : folder'[x][p] = req[s].zip
    BY <1>0, <2>2, <2>3
  <2>5. req[s].zip # 0
    BY <1>0, ZipsAssumption
  <2>6. \A t \in Filling(x)' : t = s
    BY <2>2, OthersStay, FillingIs
  <2>7. Whole(x)' /\ folder'[x] # Absent
    BY <2>4, <2>5 DEF Whole, Absent, Parts
  <2>8. FillsAlone(x)'
    BY <2>3, <2>6, <2>7 DEF FillsAlone, Absent
  <2>9. SameSource(x)'
    BY <2>4 DEF SameSource, Parts
  <2> QED
    BY <1>0, <2>2, <2>8, <2>9 DEF InstallOf, Kept
<1>3. CASE x \in torn
  BY <1>0, <1>3 DEF InstallOf
<1> QED
  BY <1>1, <1>2, <1>3

\* addons_install computes the checksum of what the install has copied.
LEMMA RegisterStep ==
  ASSUME TypeInv, InstallInv, NEW s \in Slots, SlotStep(s), Register(s)
  PROVE  InstallInv'
<1>0. /\ req \in [Slots -> Request]
      /\ req[s].pc = "register"
      /\ UNCHANGED <<folder, reg, torn, installed>>
  BY DEF Register, TypeInv, TypeOK, addonVars
<1>1. /\ req'[s].pc = "update" /\ req'[s].op = "install"
      /\ req'[s].addon = req[s].addon /\ req'[s].sum = folder[req[s].addon]
  BY <1>0 DEF Register, SetReq
<1> SUFFICES ASSUME NEW x \in Zipped PROVE InstallOf(x)'
  BY DEF InstallInv
<1>2. CASE x # req[s].addon
  <2>1. ~IsFilling(req'[s], x)
    BY <1>1, <1>2 DEF IsFilling
  <2>2. \A t \in Filling(x)' : t \in Filling(x) /\ req'[t] = req[t]
    BY <2>1, NotFilling
  <2> QED
    BY <1>0, <2>2, Elsewhere
<1>3. CASE x = req[s].addon /\ x \notin torn
  <2>1. s \in Filling(x)
    BY <1>0, <1>3 DEF Filling
  <2>2. /\ folder[x] # Absent /\ Whole(x)
        /\ \A t \in Filling(x) : t = s
        /\ x \notin installed /\ SameSource(x)
    BY <1>0, <1>3, <2>1 DEF InstallInv, InstallOf, FillsAlone, Kept
  <2>3. \A t \in Filling(x)' : t = s
    BY <2>2, OthersStay, FillingIs
  <2>4. FillsAlone(x)'
    BY <1>0, <1>1, <1>3, <2>2, <2>3 DEF FillsAlone, Absent, Whole
  <2>5. SameSource(x)'
    BY <1>0, <2>2 DEF SameSource, Whole
  <2> QED
    BY <1>0, <2>2, <2>4, <2>5 DEF InstallOf, Kept
<1>4. CASE x \in torn
  BY <1>0, <1>4 DEF InstallOf
<1> QED
  BY <1>2, <1>3, <1>4

\* The commit registers the checksum of the folder, which nobody else has
\* touched since it was computed.
LEMMA CommitInstallStep ==
  ASSUME TypeInv, InstallInv, NEW s \in Slots, SlotStep(s), CommitInstall(s)
  PROVE  InstallInv'
<1>0. /\ req[s].pc = "commit" /\ req[s].op = "install"
      /\ req[s].addon \in Zipped /\ req[s].addon \in Addons
      /\ reg \in [Addons -> [there : BOOLEAN, sum : SUBSET Content]]
      /\ UNCHANGED <<folder, torn>>
      /\ installed' = installed \cup {req[s].addon}
  BY RequestKinds DEF CommitInstall, TypeInv, TypeOK, Zipped, Installs
<1>1. reg' = [reg EXCEPT ![req[s].addon] =
                [there |-> TRUE, sum |-> {req[s].sum}]]
  BY DEF CommitInstall, Registered
<1>2. req'[s].pc = "refresh"
  BY DEF CommitInstall, Commit, SetReq, TypeInv, TypeOK
<1> SUFFICES ASSUME NEW x \in Zipped PROVE InstallOf(x)'
  BY DEF InstallInv
<1>3. ~IsFilling(req'[s], x)
  BY <1>2 DEF IsFilling
<1>4. CASE x # req[s].addon
  <2>1. reg'[x].sum = reg[x].sum
    BY <1>0, <1>1, <1>4 DEF Zipped
  <2>2. \A t \in Filling(x)' : t \in Filling(x) /\ req'[t] = req[t]
    BY <1>3, NotFilling
  <2> QED
    BY <1>0, <1>4, <2>1, <2>2, Elsewhere
<1>5. CASE x = req[s].addon /\ x \notin torn
  <2>1. s \in Filling(x)
    BY <1>0, <1>5 DEF Filling
  <2>2. /\ \A t \in Filling(x) : t = s
        /\ req[s].sum = folder[x] /\ Whole(x) /\ SameSource(x)
    BY <1>0, <1>5, <2>1 DEF InstallInv, InstallOf, FillsAlone
  <2>3. Filling(x)' = {}
    <3>1. \A t \in Filling(x)' : t \in Filling(x) /\ t # s
      BY <1>3, OthersStay, FillingIs
    <3> QED
      BY <2>2, <3>1
  <2>4. FillsAlone(x)'
    BY <2>3 DEF FillsAlone
  <2>5. SameSource(x)' /\ Whole(x)'
    BY <1>0, <2>2 DEF SameSource, Whole
  <2>6. reg'[x].sum = {folder'[x]}
    BY <1>0, <1>1, <1>5, <2>2
  <2> QED
    BY <2>3, <2>4, <2>5, <2>6 DEF InstallOf, Kept
<1>6. CASE x \in torn
  BY <1>0, <1>6 DEF InstallOf
<1> QED
  BY <1>4, <1>5, <1>6

\* A file that is removed during an install tears the folder; otherwise the
\* add-on is not installed any more.
LEMMA RemovePartStep ==
  ASSUME TypeInv, InstallInv, NEW s \in Slots, SlotStep(s), RemovePart(s)
  PROVE  InstallInv'
<1> DEFINE y == req[s].addon
<1>0. /\ req[s] \in [pc : {"remove", "unregister"}, at : Workers, addon : Zipped]
      /\ req \in [Slots -> Request]
      /\ folder \in [Zipped -> Content]
      /\ req[s].pc = "remove"
      /\ UNCHANGED reg
      /\ torn' = IF Filling(y) # {} THEN torn \cup {y} ELSE torn
      /\ installed' = installed \ {y}
  BY RequestKinds DEF RemovePart, TypeInv, TypeOK
<1>1. PICK p \in Parts : folder' = [folder EXCEPT ![y][p] = 0]
  BY DEF RemovePart
<1>2. \A x : ~IsFilling(req'[s], x)
  <2>1. req'[s] = req[s] \/ req'[s] = [req[s] EXCEPT !.pc = "unregister"]
    BY <1>0 DEF RemovePart, SetReq
  <2>2. req'[s].pc \in {"remove", "unregister"}
    BY <1>0, <2>1
  <2> QED
    BY <2>2 DEF IsFilling
<1>3. y \in Zipped
  BY <1>0
<1> HIDE DEF y
<1> SUFFICES ASSUME NEW x \in Zipped PROVE InstallOf(x)'
  BY DEF InstallInv
<1>4. \A t \in Filling(x)' : t \in Filling(x) /\ req'[t] = req[t]
  BY <1>2, NotFilling
<1>5. CASE x # y /\ x \notin torn
  <2>1. folder'[x] = folder[x]
    BY <1>0, <1>1, <1>5
  <2>2. FillsAlone(x) /\ SameSource(x) /\ Kept(x)
    BY <1>5 DEF InstallInv, InstallOf
  <2>3. FillsAlone(x)'
    BY <1>4, <2>1, <2>2 DEF FillsAlone, Absent, Whole
  <2>4. SameSource(x)'
    BY <2>1, <2>2 DEF SameSource, Whole
  <2>5. Kept(x)'
    BY <1>0, <1>4, <2>1, <2>2 DEF Kept, Whole
  <2> QED
    BY <2>3, <2>4, <2>5 DEF InstallOf
<1>6. CASE x = y
  <2> SUFFICES ASSUME x \notin torn' PROVE InstallOf(x)'
    BY DEF InstallOf
  <2>1. Filling(x) = {}
    BY <1>0, <1>6
  <2>2. Filling(x)' = {}
    BY <1>4, <2>1
  <2>3. folder'[x][p] = 0
    BY <1>0, <1>1, <1>3, <1>6 DEF Content
  <2>4. ~Whole(x)'
    BY <2>3 DEF Whole
  <2>5. x \notin installed'
    BY <1>0, <1>6
  <2> QED
    BY <2>2, <2>4, <2>5 DEF InstallOf, FillsAlone, SameSource, Kept
<1>7. CASE x \in torn
  BY <1>0, <1>7 DEF InstallOf
<1> QED
  BY <1>5, <1>6, <1>7

LEMMA RestartStep ==
  ASSUME TypeInv, InstallInv, NEW w \in Workers, RestartWorker(w)
  PROVE  InstallInv'
<1>1. UNCHANGED <<folder, torn, installed>>
  BY DEF RestartWorker
<1>2. \A x \in Zipped : reg'[x].sum = reg[x].sum
  BY SumsStay DEF RestartWorker
<1> SUFFICES ASSUME NEW x \in Zipped PROVE InstallOf(x)'
  BY DEF InstallInv
<1>3. \A t \in Filling(x)' : t \in Filling(x) /\ req'[t] = req[t]
  <2>1. \A t \in Slots : IsFilling(req'[t], x) => req'[t] = req[t]
    BY RestartMoves DEF IsFilling
  <2> QED
    BY <2>1, FillingIs
<1> QED
  BY <1>1, <1>2, <1>3, Elsewhere

LEMMA InstallInvStep ==
  ASSUME TypeInv, InstallInv, [Next]_vars
  PROVE  InstallInv'
<1>1. ASSUME NEW s \in Slots, SlotStep(s)
      PROVE  InstallInv'
  <2>1. CASE LoadRow(s) /\ UNCHANGED addonVars
    BY <1>1, <2>1, LoadRowInstall
  <2>2. CASE CopyFirst(s) \/ CopyRest(s) \/ Register(s) \/ CommitInstall(s)
               \/ RemovePart(s)
    BY <1>1, <2>2, CopyFirstStep, CopyRestStep, RegisterStep, CommitInstallStep,
       RemovePartStep
  <2>3. CASE ~LoadRow(s)
    BY <1>1, <2>2, <2>3, AsideStep DEF SlotStep
  <2>4. CASE LoadRow(s)
    <3>1. req[s].pc = "update"
      BY <2>4 DEF LoadRow
    <3>2. UNCHANGED addonVars
      BY <1>1, <2>4, <3>1
         DEF SlotStep, Sync, Load, ImportModules, InstallCheck, CopyFirst, CopyRest,
             CopyFails, Register, CommitInstall, InstallConflict, CommitOther,
             UninstallCheck, RemovePart, RemoveClash, RemoveFails, Unregister
    <3> QED
      BY <2>1, <2>4, <3>2
  <2> QED
    BY <2>3, <2>4
<1>2. ASSUME NEW w \in Workers, RestartWorker(w)
      PROVE  InstallInv'
  BY <1>2, RestartStep
<1>3. CASE (CliMaintenance /\ UNCHANGED addonVars) \/ UNCHANGED vars
  <2>1. UNCHANGED <<req, folder, reg, torn, installed>>
    BY <1>3 DEF CliMaintenance, vars, settingsVars, addonVars
  <2>2. SUFFICES ASSUME NEW x \in Zipped PROVE InstallOf(x)'
    BY DEF InstallInv
  <2>3. Filling(x)' = Filling(x)
    BY <2>1 DEF Filling
  <2> QED
    BY <2>1, <2>3, Elsewhere
<1> QED
  BY <1>1, <1>2, <1>3, Steps

LEMMA InstallInvInit == Init => InstallInv
<1> SUFFICES ASSUME Init, NEW x \in Zipped PROVE InstallOf(x)
  BY DEF InstallInv
<1>1. \A s : s \notin Filling(x)
  BY DEF Init, SettingsInit, Filling
<1>2. folder[x] = Absent /\ x \notin installed
  BY DEF Init
<1>3. SameSource(x)
  BY <1>2 DEF SameSource, Absent, Parts
<1> QED
  BY <1>1, <1>2, <1>3 DEF InstallOf, FillsAlone, Kept

\* However many installs of an add-on meet, in any processes, with restarts and
\* failures at any point, a complete folder is of one ZIP.
THEOREM FoldersWhole == Spec => []OneSource
<1>1. InstallInv => OneSource
  BY DEF InstallInv, InstallOf, SameSource, OneSource
<1> QED
  BY <1>1, TypeInit, TypeStep, InstallInvInit, InstallInvStep, PTL DEF Spec

\* What was installed stays whole under its own checksum until an uninstall
\* removes the first file, in which order others install, copies fail and
\* processes restart.
THEOREM InstalledStays == Spec => []InstalledWhole
<1>1. TypeInv /\ InstallInv => InstalledWhole
  BY DEF InstallInv, InstallOf, Kept, InstalledWhole, TypeInv, TypeOK
<1> QED
  BY <1>1, TypeInit, TypeStep, InstallInvInit, InstallInvStep, PTL DEF Spec

-----------------------------------------------------------------------------
(* Which add-ons a request finds switched off.                             *)

\* A form or an import has switched off what these items have off.
Explained(items) == \A x \in DOMAIN items : ~items[x] => x \in off

\* What is there and not on is off or left out.
LeftOut(there, on) ==
  \A x \in there \ on : IF scene.env = {} THEN x \in off ELSE x \notin scene.env

\* The items a request is about to write or to apply, and what it found on.
RequestExplained(r) ==
  /\ r.pc \in {"update", "commit"} /\ r.op \notin {"form", "import"} =>
       Explained(r.new.addons)
  /\ r.pc \in {"refresh", "apply"} => Explained(r.new.addons)
  /\ r.pc = "import" => LeftOut(r.mods.there, r.mods.on)
  /\ r.pc = "ready" => LeftOut(r.there, r.on)

OffInv ==
  /\ Explained(row.addons)
  /\ \A w \in Workers : Explained(cache[w].addons)
  /\ \A s \in Slots : RequestExplained(req[s])

LEMMA OffGrows ==
  ASSUME off \subseteq off', scene' = scene
  PROVE  /\ \A items : Explained(items) => Explained(items)'
         /\ \A there, on : LeftOut(there, on) => LeftOut(there, on)'
         /\ \A r : RequestExplained(r) => RequestExplained(r)'
<1>1. \A items : Explained(items) => Explained(items)'
  BY DEF Explained
<1>2. \A there, on : LeftOut(there, on) => LeftOut(there, on)'
  BY DEF LeftOut
<1> QED
  BY <1>1, <1>2 DEF RequestExplained

LEMMA EnabledLeavesOut ==
  ASSUME NEW items, Explained(items), NEW there
  PROVE  LeftOut(there, Enabled(items, there))
BY DEF Explained, LeftOut, Enabled, Listed

LEMMA OffMonotone ==
  ASSUME [Next]_vars
  PROVE  off \subseteq off' /\ scene' = scene
<1>1. ASSUME NEW s \in Slots, SlotStep(s)
      PROVE  off \subseteq off' /\ scene' = scene
  <2>1. CASE SettingsStep(s, There) \/ Fail(s)
    BY <2>1 DEF SettingsStep, Begin, SaveForm, Import, SavePages,
                ToggleMaintenance, EditPages, LoadRow, Refresh, Apply, View, Fail,
                others
  <2>2. CASE ~(SettingsStep(s, There) \/ Fail(s))
    BY <1>1, <2>2
       DEF SlotStep, Sync, Load, ImportModules, InstallCheck, CopyFirst, CopyRest,
           CopyFails, Register, CommitInstall, InstallConflict, CommitOther,
           UninstallCheck, RemovePart, RemoveClash, RemoveFails, Unregister,
           Commit, Recorded, others
  <2> QED
    BY <2>1, <2>2
<1>2. ASSUME NEW w \in Workers, RestartWorker(w)
      PROVE  off \subseteq off' /\ scene' = scene
  BY <1>2 DEF RestartWorker, Restart
<1>3. CASE CliMaintenance \/ UNCHANGED vars
  BY <1>3 DEF CliMaintenance, vars, settingsVars, others
<1> QED
  BY <1>1, <1>2, <1>3, Steps

\* A step of a slot keeps the invariant if what it leaves in the row, in the
\* caches and in its slot is explained.
LEMMA OffKept ==
  ASSUME TypeInv, OffInv, [Next]_vars, NEW s \in Slots, SlotStep(s),
         Explained(row.addons)',
         \A w \in Workers : Explained(cache[w].addons)',
         RequestExplained(req[s])'
  PROVE  OffInv'
<1>1. \A t \in Slots \ {s} : RequestExplained(req[t])'
  <2> SUFFICES ASSUME NEW t \in Slots \ {s} PROVE RequestExplained(req[t])'
    OBVIOUS
  <2>1. req'[t] = req[t] /\ RequestExplained(req[t])
    BY OthersStay DEF OffInv
  <2>2. \A r : RequestExplained(r) => RequestExplained(r)'
    BY OffMonotone, OffGrows
  <2> QED
    BY <2>1, <2>2
<1> QED
  BY <1>1 DEF OffInv

\* Where a step leaves the row and the caches, they stay explained.
LEMMA RowAndCacheKept ==
  ASSUME OffInv, [Next]_vars
  PROVE  /\ row'.addons = row.addons => Explained(row.addons)'
         /\ UNCHANGED cache => \A w \in Workers : Explained(cache[w].addons)'
<1>1. off \subseteq off'
  BY OffMonotone
<1> QED
  BY <1>1 DEF OffInv, Explained

\* A step of a slot that leaves the row and the caches, and leaves the slot
\* where nothing is asked of it.
Plain == {"idle", "sync", "load", "copy", "rest", "register", "remove", "unregister"}

LEMMA OffPlain ==
  ASSUME TypeInv, OffInv, [Next]_vars, NEW s \in Slots, SlotStep(s),
         UNCHANGED <<row, cache>>, req'[s].pc \in Plain
  PROVE  OffInv'
<1>1. RequestExplained(req[s])'
  BY DEF RequestExplained, Plain
<1> QED
  BY <1>1, OffKept, RowAndCacheKept

LEMMA OffEdits ==
  ASSUME TypeInv, OffInv, [Next]_vars, NEW s \in Slots, SlotStep(s),
         SaveForm(s, There) \/ Import(s) \/ SavePages(s) \/ ToggleMaintenance(s)
  PROVE  OffInv'
<1>0. /\ req[s] \in Request /\ req \in [Slots -> Request]
      /\ cache \in [Workers -> Row]
      /\ off \subseteq off'
  BY OffMonotone DEF TypeInv, TypeOK
<1>1. CASE SaveForm(s, There) \/ Import(s)
  <2>1. \E op \in {"form", "import"} : \E new : Update(s, op, "-", new)
    BY <1>1 DEF SaveForm, Import
  <2>2. req'[s].pc = "update" /\ req'[s].op \in {"form", "import"}
    BY <1>0, <2>1 DEF Update, SetReq
  <2>3. RequestExplained(req[s])'
    BY <2>2 DEF RequestExplained
  <2>4. UNCHANGED <<row, cache>>
    BY <1>1 DEF SaveForm, Import, others
  <2> QED
    BY <2>3, <2>4, OffKept, RowAndCacheKept
<1>2. ASSUME NEW pages, EditPages(s, pages)
      PROVE  OffInv'
  <2>1. req[s].at \in Workers
    BY <1>0, <1>2, RequestKinds DEF EditPages
  <2>2. PICK old \in Row : old = cache[req[s].at] /\ Explained(old.addons)
    BY <1>0, <2>1 DEF OffInv
  <2> DEFINE edited == [old EXCEPT !.pages = pages]
  <2>3. edited.addons = old.addons
    BY <2>2 DEF Row
  <2>4. /\ cache' = [cache EXCEPT ![req[s].at] = edited]
        /\ Update(s, "pages", "-", edited)
        /\ UNCHANGED <<row, off>>
    BY <1>2, <2>2 DEF EditPages
  <2>5. Explained(edited.addons)'
    BY <2>2, <2>3, <2>4 DEF Explained
  <2> HIDE DEF edited
  <2>6. req'[s].pc = "update" /\ req'[s].op = "pages" /\ req'[s].new = edited
    BY <1>0, <2>4 DEF Update, SetReq
  <2>7. RequestExplained(req[s])'
    BY <2>5, <2>6 DEF RequestExplained, Explained
  <2>8. \A w \in Workers : Explained(cache[w].addons)'
    <3> SUFFICES ASSUME NEW w \in Workers PROVE Explained(cache[w].addons)'
      OBVIOUS
    <3>1. cache'[w] = edited \/ cache'[w] = cache[w]
      BY <1>0, <2>4
    <3>2. Explained(cache[w].addons)
      BY DEF OffInv
    <3> QED
      BY <1>0, <2>5, <3>1, <3>2 DEF Explained
  <2> QED
    BY <2>4, <2>7, <2>8, OffKept, RowAndCacheKept
<1>3. CASE SavePages(s) \/ ToggleMaintenance(s)
  BY <1>2, <1>3 DEF SavePages, ToggleMaintenance
<1> QED
  BY <1>1, <1>3

LEMMA OffUpdates ==
  ASSUME TypeInv, OffInv, [Next]_vars, NEW s \in Slots, SlotStep(s),
         LoadRow(s) \/ Refresh(s) \/ Apply(s)
  PROVE  OffInv'
<1>0. /\ req[s] \in Request /\ req \in [Slots -> Request]
      /\ cache \in [Workers -> Row]
      /\ RequestExplained(req[s]) /\ Explained(row.addons)
      /\ off \subseteq off'
  BY OffMonotone DEF TypeInv, TypeOK, OffInv
<1>1. CASE LoadRow(s)
  <2>1. req[s] \in Updates \/ req[s] \in Installs
    BY <1>0, <1>1, RequestKinds DEF LoadRow
  <2>2. req'[s] = [req[s] EXCEPT !.pc = "commit", !.loaded = row]
    BY <1>0, <1>1 DEF LoadRow, SetReq
  <2>3. /\ req'[s].pc = "commit" /\ req'[s].op = req[s].op
        /\ req'[s].new = req[s].new /\ req[s].pc = "update"
    BY <1>1, <2>1, <2>2 DEF LoadRow, Updates, Installs
  <2>4. RequestExplained(req[s])'
    BY <1>0, <2>3 DEF RequestExplained, Explained
  <2> QED
    BY <1>1, <2>4, OffKept, RowAndCacheKept DEF LoadRow, others
<1>2. CASE Refresh(s)
  <2> DEFINE new == IF req[s].op = "pages" THEN req[s].new ELSE row
  <2>1. /\ req[s] \in [pc : {"refresh", "apply"}, at : Workers, op : Operations,
                       new : Row]
        /\ req[s].pc = "refresh"
    BY <1>0, <1>2, RequestKinds DEF Refresh
  <2>2. req'[s] = [req[s] EXCEPT !.pc = "apply", !.new = new]
    BY <1>0, <1>2 DEF Refresh, SetReq
  <2>3. Explained(new.addons)
    BY <1>0, <2>1 DEF RequestExplained
  <2> HIDE DEF new
  <2>4. req'[s].pc = "apply" /\ req'[s].new = new
    BY <2>1, <2>2
  <2>5. RequestExplained(req[s])'
    BY <1>0, <2>3, <2>4 DEF RequestExplained, Explained
  <2> QED
    BY <1>2, <2>5, OffKept, RowAndCacheKept DEF Refresh, others
<1>3. CASE Apply(s)
  <2>1. /\ req[s].pc = "apply" /\ req[s].at \in Workers
        /\ Explained(req[s].new.addons)
        /\ req[s].new \in Row
        /\ UNCHANGED <<row, off>>
        /\ req'[s].pc \in {"idle", "load"}
    BY <1>0, <1>3, RequestKinds DEF Apply, Answer, SetReq, RequestExplained
  <2>2. \/ cache' = [cache EXCEPT ![req[s].at].pages = req[s].new.pages]
        \/ cache' = [cache EXCEPT ![req[s].at] = req[s].new]
    BY <1>3 DEF Apply
  <2>3. ASSUME NEW w \in Workers PROVE Explained(cache[w].addons)'
    <3>1. cache'[w].addons = cache[w].addons \/ cache'[w].addons = req[s].new.addons
      BY <1>0, <2>1, <2>2 DEF Row
    <3>2. Explained(cache[w].addons)
      BY DEF OffInv
    <3> QED
      BY <2>1, <3>1, <3>2 DEF Explained
  <2>4. RequestExplained(req[s])'
    BY <2>1 DEF RequestExplained
  <2> QED
    BY <2>1, <2>3, <2>4, OffKept, RowAndCacheKept
<1> QED
  BY <1>1, <1>2, <1>3

LEMMA OffLoading ==
  ASSUME TypeInv, OffInv, [Next]_vars, NEW s \in Slots, SlotStep(s),
         Sync(s) \/ Load(s) \/ ImportModules(s)
  PROVE  OffInv'
<1>0. /\ req[s] \in Request /\ req \in [Slots -> Request]
      /\ RequestExplained(req[s])
      /\ off \subseteq off' /\ scene' = scene
      /\ UNCHANGED <<row, cache, off>>
      /\ req[s].at \in Workers
  BY OffMonotone, RequestKinds
     DEF TypeInv, TypeOK, OffInv, Sync, Load, ImportModules, others
<1>1. LeftOut(There, Enabled(cache[req[s].at].addons, There))
  BY <1>0, EnabledLeavesOut DEF OffInv
<1>2. CASE Sync(s)
  <2>1. \/ req'[s].pc = "load"
        \/ /\ req'[s].pc = "ready" /\ req'[s].there = There
           /\ req'[s].on = Enabled(cache[req[s].at].addons, There)
    BY <1>0, <1>2 DEF Sync, SetReq
  <2>2. RequestExplained(req[s])'
    BY <1>0, <1>1, <2>1 DEF RequestExplained, LeftOut
  <2> QED
    BY <1>0, <2>2, OffKept, RowAndCacheKept
<1>3. CASE Load(s)
  <2>1. /\ req'[s].pc = "import" /\ req'[s].mods.there = There
        /\ req'[s].mods.on = Enabled(cache[req[s].at].addons, There)
    BY <1>0, <1>3 DEF Load, SetReq
  <2>2. RequestExplained(req[s])'
    BY <1>0, <1>1, <2>1 DEF RequestExplained, LeftOut
  <2> QED
    BY <1>0, <2>2, OffKept, RowAndCacheKept
<1>4. CASE ImportModules(s)
  <2>1. /\ req[s].pc = "import"
        /\ \/ req'[s].pc = "idle"
           \/ /\ req'[s].pc = "ready"
              /\ req'[s].there = req[s].mods.there
              /\ req'[s].on = req[s].mods.on
    BY <1>0, <1>4 DEF ImportModules, SetReq, Answer
  <2>2. RequestExplained(req[s])'
    BY <1>0, <2>1 DEF RequestExplained, LeftOut
  <2> QED
    BY <1>0, <2>2, OffKept, RowAndCacheKept
<1> QED
  BY <1>2, <1>3, <1>4

\* What a request edits before it writes its settings: the row, which is
\* explained.
LEMMA OffEdited ==
  ASSUME TypeInv, OffInv, [Next]_vars, NEW s \in Slots, SlotStep(s),
         Register(s) \/ Unregister(s)
  PROVE  OffInv'
<1>0. /\ req[s] \in Request /\ req \in [Slots -> Request]
      /\ row \in Row /\ Explained(row.addons)
      /\ UNCHANGED <<row, cache, off>>
  BY DEF TypeInv, TypeOK, OffInv, Register, Unregister, others
<1>1. row \in Row
  BY <1>0
<1>2. CASE Register(s)
  <2> DEFINE new == Enabling(row, req[s].addon)
  <2>1. req[s].addon \in Addons
    BY <1>0, <1>2, RequestKinds DEF Register, Zipped
  <2>2. \A y \in DOMAIN new.addons :
          ~new.addons[y] => y \in DOMAIN row.addons /\ ~row.addons[y]
    BY <1>1, <2>1, RegisteredItems
  <2>3. Explained(new.addons)
    BY <1>0, <2>2 DEF Explained
  <2>4. SetReq(s, [pc |-> "update", at |-> req[s].at, op |-> "install",
                   addon |-> req[s].addon, new |-> new, loaded |-> new,
                   sum |-> folder[req[s].addon], seen |-> reg[req[s].addon].there])
    BY <1>2 DEF Register, Base
  <2> HIDE DEF new
  <2>5. req'[s].pc = "update" /\ req'[s].new = new
    BY <1>0, <2>4 DEF SetReq
  <2>6. RequestExplained(req[s])'
    BY <1>0, <2>3, <2>5 DEF RequestExplained, Explained
  <2> QED
    BY <1>0, <2>6, OffKept, RowAndCacheKept
<1>3. CASE Unregister(s)
  <2> DEFINE x   == req[s].addon
             new == Without(row, x)
  <2>1. \A y \in DOMAIN new.addons :
          ~new.addons[y] => y \in DOMAIN row.addons /\ ~row.addons[y]
    BY <1>1, UnregisteredItems
  <2>2. Explained(new.addons)
    BY <1>0, <2>1 DEF Explained
  <2>3. Update(s, "uninstall", x, new)
    BY <1>3 DEF Unregister, Base
  <2> HIDE DEF new
  <2>4. req'[s].pc = "update" /\ req'[s].new = new
    BY <1>0, <2>3 DEF Update, SetReq
  <2>5. RequestExplained(req[s])'
    BY <1>0, <2>2, <2>4 DEF RequestExplained, Explained
  <2> QED
    BY <1>0, <2>5, OffKept, RowAndCacheKept
<1> QED
  BY <1>2, <1>3

\* What a commit writes beyond the explained is what the form or the import
\* switches off.
LEMMA OffCommits ==
  ASSUME TypeInv, OffInv, [Next]_vars, NEW s \in Slots, SlotStep(s), Commit(s)
  PROVE  OffInv'
<1>0. /\ req[s] \in Request /\ req \in [Slots -> Request]
      /\ RequestExplained(req[s]) /\ Explained(row.addons)
      /\ req[s].pc = "commit" /\ row \in Row
      /\ UNCHANGED cache
  BY DEF TypeInv, TypeOK, OffInv, Commit
<1>1. req[s].loaded \in Row /\ req[s].new \in Row
  BY <1>0, RequestKinds DEF Updates, Installs
<1>2. /\ row' = Written(row, req[s].loaded, req[s].new, Assigned(req[s].op))
      /\ off' = off \cup SwitchedOff(req[s].op, req[s].new)
      /\ req'[s].pc = "refresh" /\ req'[s].new = req[s].new
  BY <1>0 DEF Commit, Recorded, SetReq
<1>3. row'.addons \in {row.addons, req[s].new.addons}
  BY <1>0, <1>1, <1>2, WrittenRow
<1>4. \A x \in DOMAIN req[s].new.addons : ~req[s].new.addons[x] => x \in off'
  BY <1>0, <1>2 DEF RequestExplained, Explained, SwitchedOff
<1>5. Explained(row.addons)'
  BY <1>0, <1>2, <1>3, <1>4 DEF Explained
<1>6. RequestExplained(req[s])'
  BY <1>2, <1>4 DEF RequestExplained, Explained
<1> QED
  BY <1>0, <1>5, <1>6, OffKept, RowAndCacheKept

\* The steps that neither read nor write settings.
LEMMA OffAside ==
  ASSUME TypeInv, OffInv, [Next]_vars, NEW s \in Slots, SlotStep(s),
         \/ Begin(s) \/ View(s) \/ Fail(s)
         \/ InstallCheck(s) \/ CopyFirst(s) \/ CopyRest(s) \/ CopyFails(s)
         \/ InstallConflict(s)
         \/ UninstallCheck(s) \/ RemovePart(s) \/ RemoveClash(s) \/ RemoveFails(s)
  PROVE  OffInv'
<1>0. req[s] \in Request /\ req \in [Slots -> Request]
  BY DEF TypeInv, TypeOK
<1>1. UNCHANGED <<row, cache>>
  BY DEF Begin, View, Fail, InstallCheck, CopyFirst, CopyRest, CopyFails,
         InstallConflict, UninstallCheck, RemovePart, RemoveClash, RemoveFails,
         others
<1>2. CASE Begin(s)
  <2>1. \E w \in Workers : req'[s] = [pc |-> "sync", at |-> w]
    BY <1>0, <1>2 DEF Begin, SetReq
  <2>2. req'[s].pc = "sync"
    BY <2>1
  <2> QED
    BY <1>1, <2>2, OffPlain DEF Plain
<1>3. CASE View(s) \/ Fail(s) \/ CopyFails(s) \/ InstallConflict(s)
             \/ RemoveClash(s) \/ RemoveFails(s)
  <2>1. req'[s].pc = "idle"
    BY <1>0, <1>3 DEF View, Fail, CopyFails, InstallConflict, RemoveClash,
                      RemoveFails, Answer, SetReq
  <2> QED
    BY <1>1, <2>1, OffPlain DEF Plain
<1>4. CASE InstallCheck(s) \/ UninstallCheck(s)
  <2>1. req'[s].pc \in {"copy", "remove"}
    BY <1>0, <1>4 DEF InstallCheck, UninstallCheck, SetReq
  <2> QED
    BY <1>1, <2>1, OffPlain DEF Plain
<1>5. CASE CopyFirst(s) \/ CopyRest(s)
  <2>1. req'[s].pc \in {"idle", "rest", "register"}
    BY <1>5, CopyFirstMoves, CopyRestMoves
  <2> QED
    BY <1>1, <2>1, OffPlain DEF Plain
<1>6. CASE RemovePart(s)
  <2>1. req[s] \in [pc : {"remove", "unregister"}, at : Workers, addon : Zipped]
    BY <1>0, <1>6, RequestKinds DEF RemovePart
  <2>2. req'[s] = req[s] \/ req'[s] = [req[s] EXCEPT !.pc = "unregister"]
    BY <1>0, <1>6 DEF RemovePart, SetReq
  <2>3. req'[s].pc \in {"remove", "unregister"}
    BY <2>1, <2>2
  <2> QED
    BY <1>1, <2>3, OffPlain DEF Plain
<1> QED
  BY <1>2, <1>3, <1>4, <1>5, <1>6

LEMMA OffRestart ==
  ASSUME TypeInv, OffInv, [Next]_vars, NEW w \in Workers, RestartWorker(w)
  PROVE  OffInv'
<1>1. /\ cache' = [cache EXCEPT ![w] = row]
      /\ UNCHANGED <<row, off, scene>>
  BY DEF RestartWorker, Restart
<1>2. \A v \in Workers : Explained(cache[v].addons)'
  BY <1>1 DEF OffInv, Explained, TypeInv, TypeOK
<1>3. ASSUME NEW s \in Slots
      PROVE  RequestExplained(req[s])'
  <2>1. req'[s] = [pc |-> "idle"] \/ req'[s] = req[s]
    BY RestartMoves
  <2>2. RequestExplained(req[s])
    BY DEF OffInv
  <2> QED
    BY <1>1, <2>1, <2>2 DEF RequestExplained, Explained, LeftOut
<1> QED
  BY <1>1, <1>2, <1>3, RowAndCacheKept DEF OffInv

LEMMA OffStep ==
  ASSUME TypeInv, OffInv, [Next]_vars
  PROVE  OffInv'
<1>1. ASSUME NEW s \in Slots, SlotStep(s)
      PROVE  OffInv'
  BY <1>1, OffEdits, OffUpdates, OffLoading, OffEdited, OffCommits, OffAside
     DEF SlotStep, SettingsStep, CommitInstall, CommitOther
<1>2. ASSUME NEW w \in Workers, RestartWorker(w)
      PROVE  OffInv'
  BY <1>2, OffRestart
<1>3. CASE CliMaintenance
  <2>1. row'.addons = row.addons
    BY <1>3 DEF CliMaintenance, TypeInv, TypeOK, Row
  <2>2. UNCHANGED <<cache, req, off, scene>>
    BY <1>3 DEF CliMaintenance
  <2>3. \A s \in Slots : RequestExplained(req[s])'
    BY <2>2 DEF OffInv, RequestExplained, Explained, LeftOut
  <2> QED
    BY <2>1, <2>2, <2>3, RowAndCacheKept DEF OffInv
<1>4. CASE UNCHANGED vars
  BY <1>4 DEF vars, settingsVars, others, OffInv, RequestExplained, Explained,
              LeftOut
<1> QED
  BY <1>1, <1>2, <1>3, <1>4, Steps

\* An add-on that a request finds switched off was switched off by a form, an
\* import or ADDONS_ENABLED, however stale the process's settings are.
THEOREM OffIsExplained == Spec => []OnUnlessSwitchedOff
<1>1. Init => OffInv
  BY BuiltinAssumption
     DEF Init, SettingsInit, OffInv, RequestExplained, Explained
<1>2. TypeInv /\ OffInv /\ [Next]_vars => OffInv'
  BY OffStep
<1>3. OffInv => OnUnlessSwitchedOff
  BY DEF OffInv, RequestExplained, LeftOut, OnUnlessSwitchedOff
<1> QED
  BY <1>1, <1>2, <1>3, TypeInit, TypeStep, PTL DEF Spec

==============================================================================
