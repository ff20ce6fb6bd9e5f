------------------------------- MODULE Settings -------------------------------
(***************************************************************************)
(* The runtime settings: one row of the database, which every update       *)
(* writes as a whole, and the copy that each web process keeps in its      *)
(* app.config (app/services/app_settings_service.py, pages_service.py, the *)
(* hooks of app/__init__.py and the settings routes of                     *)
(* app/blueprints/admin/routes.py).  Module Addons completes the actions   *)
(* with what they do to add-ons, and states the specification.             *)
(*                                                                         *)
(* An update edits settings that its handler has read (get_effective_      *)
(* settings, plain dicts) and then loads the row once more to assign them  *)
(* to it: a session holds rows weakly and has dropped the first one.       *)
(*                                                                         *)
(* Of the row's columns there are pages_json, the set of the pages and     *)
(* features switched off, and addons_json, the ITEMS map; the others are   *)
(* read and written with them.  The first start has inserted the row.      *)
(*                                                                         *)
(* An operator marked "mutant" is a plausible mistake in the code that the *)
(* operator after it models; no specification uses it.                     *)
(***************************************************************************)
EXTENDS Naturals, FiniteSets

CONSTANTS
  Workers,   \* web processes
  Slots,     \* requests that are served at the same time, by any of them
  Pages,     \* pages and features that can be switched off
  Addons,    \* the add-ons there may be
  Builtin,   \* those that come with the application
  Scenes     \* bound: the operations that are explored together, and how
             \* many requests, failures and restarts there are

Operations == {"form", "import", "pages", "install", "uninstall"}

ASSUME BuiltinAssumption == Builtin \subseteq Addons
ASSUME SettingsScenes ==
  Scenes \subseteq [ops : SUBSET Operations, env : SUBSET Addons, requests : Nat,
                    failures : Nat, restarts : Nat]

VARIABLES
  scene,  \* the member of Scenes this behaviour explores
  left,   \* the requests, failures and restarts that may still come
  row,    \* the app_settings row
  cache,  \* cache[w]: APP_CONFIG_EFFECTIVE in the app.config of process w
  req,    \* req[s]: the request slot s serves
  off,    \* history: the add-ons that a form or an import has ever switched off
  saved,  \* history: the pages as they were last saved or imported
  rivals, \* history: the requests under way that read the settings before that
  undone  \* history: has one of these written since?

others       == <<scene, left, row, cache, off, saved, rivals, undone>>
settingsVars == <<others, req>>

\* ADDONS.ITEMS: is the add-on enabled?
Items == UNION {[known -> BOOLEAN] : known \in SUBSET Addons}

Row == [pages : SUBSET Pages, addons : Items]

Left == [requests : Nat, failures : Nat, restarts : Nat]

\* app_config.json lists the add-ons that come with the application.
SettingsInit ==
  /\ scene \in Scenes
  /\ left = [requests |-> scene.requests, failures |-> scene.failures,
             restarts |-> scene.restarts]
  /\ row = [pages |-> {}, addons |-> [x \in Builtin |-> TRUE]]
  /\ cache = [w \in Workers |-> row]
  /\ req = [s \in Slots |-> [pc |-> "idle"]]
  /\ off = {}
  /\ saved = row.pages /\ rivals = {} /\ undone = FALSE

SetReq(s, r) == req' = [req EXCEPT ![s] = r]
Answer(s)    == SetReq(s, [pc |-> "idle"])

Begin(s) ==
  /\ req[s].pc = "idle" /\ left.requests > 0
  /\ left' = [left EXCEPT !.requests = @ - 1]
  /\ \E w \in Workers : SetReq(s, [pc |-> "sync", at |-> w])
  /\ UNCHANGED <<scene, row, cache, off, saved, rivals, undone>>

-----------------------------------------------------------------------------
(* The handlers up to update_settings and write_pages.                     *)

\* Mutant: the settings of the process are edited.
BaseOfProcess(w) == cache[w]

\* get_effective_settings, in a request to process w
Base(w) == row

\* A request that is about to write new settings, and has not loaded the row.
Update(s, op, addon, new) ==
  SetReq(s, [pc |-> "update", at |-> req[s].at, op |-> op, addon |-> addon,
             new |-> new, loaded |-> new])

\* The settings form: an unchecked box, or one the page did not show when it
\* was rendered, switches the add-on off (build_runtime_payload_from_form).
SaveForm(s, panels) ==
  LET base == Base(req[s].at)
  IN  /\ req[s].pc = "ready" /\ "form" \in scene.ops
      /\ \E checked \in SUBSET Addons :
           Update(s, "form", "-",
                  [base EXCEPT !.addons =
                     [x \in DOMAIN @ \cup panels |-> x \in checked]])
      /\ UNCHANGED others

\* The file is one that was exported, perhaps of another installation.
Import(s) ==
  /\ req[s].pc = "ready" /\ "import" \in scene.ops
  /\ \E new \in Row : Update(s, "import", "-", new)
  /\ UNCHANGED others

\* read_pages returns the copy of the process, which is edited in place.
EditPages(s, pages) ==
  LET edited == [cache[req[s].at] EXCEPT !.pages = pages]
  IN  /\ req[s].pc = "ready" /\ "pages" \in scene.ops
      /\ cache' = [cache EXCEPT ![req[s].at] = edited]
      /\ Update(s, "pages", "-", edited)
      /\ UNCHANGED <<scene, left, row, off, saved, rivals, undone>>

\* A payload may set every page.
SavePages(s) == \E pages \in SUBSET Pages : EditPages(s, pages)

ToggleMaintenance(s) ==
  /\ "maintenance_mode" \in Pages
  /\ \E some \in {{}, {"maintenance_mode"}} :
       EditPages(s, (cache[req[s].at].pages \ {"maintenance_mode"}) \cup some)

-----------------------------------------------------------------------------
(* update_settings and write_pages.                                        *)

\* The columns they assign.
Assigned(op) == IF op = "pages" THEN {"pages"} ELSE {"pages", "addons"}

\* The assigned columns that differ from the row the session loaded are written.
Written(current, loaded, new, columns) ==
  [c \in {"pages", "addons"} |->
     IF c \in columns /\ new[c] # loaded[c] THEN new[c] ELSE current[c]]

\* ensure_app_settings_row; the values are assigned to this row.
LoadRow(s) ==
  LET r == req[s]
  IN  /\ r.pc = "update"
      /\ SetReq(s, [r EXCEPT !.pc = "commit", !.loaded = row])
      /\ UNCHANGED others

SwitchedOff(op, new) ==
  IF op \in {"form", "import"} THEN {x \in DOMAIN new.addons : ~new.addons[x]}
                               ELSE {}

Saves == {"pages", "import"}

\* The requests that will write settings read from the row.
Based == {s \in Slots : req[s].pc \in {"update", "commit"} /\ req[s].op \notin Saves}

\* The history of a commit: pages are saved, or written back by a rival.
Recorded(s, op, new) ==
  /\ off' = off \cup SwitchedOff(op, new)
  /\ saved'  = IF op \in Saves THEN row'.pages ELSE saved
  /\ rivals' = (IF op \in Saves THEN Based ELSE rivals) \ {s}
  /\ undone' = (op \notin Saves /\ (undone \/ s \in rivals))

Commit(s) ==
  LET r == req[s]
  IN  /\ r.pc = "commit"
      /\ row' = Written(row, r.loaded, r.new, Assigned(r.op))
      /\ Recorded(s, r.op, r.new)
      /\ SetReq(s, [pc |-> "refresh", at |-> r.at, op |-> r.op, new |-> r.new])
      /\ UNCHANGED <<scene, left, cache>>

\* update_settings loads the row again, to apply what is in it.
Refresh(s) ==
  LET r == req[s]
  IN  /\ r.pc = "refresh"
      /\ SetReq(s, [r EXCEPT !.pc = "apply", !.new = IF r.op = "pages" THEN @ ELSE row])
      /\ UNCHANGED others

\* _apply_runtime_to_app, or write_pages after its commit; another thread of
\* the process may have applied a later row in between.
Apply(s) ==
  LET r == req[s]
  IN  /\ r.pc = "apply"
      /\ IF r.op = "pages"
         THEN /\ cache' = [cache EXCEPT ![r.at].pages = r.new.pages]
              /\ Answer(s)
         ELSE /\ cache' = [cache EXCEPT ![r.at] = r.new]
              /\ SetReq(s, [pc |-> "load", at |-> r.at, back |-> FALSE])
      /\ UNCHANGED <<scene, left, row, off, saved, rivals, undone>>

\* The database fails the commit, which is rolled back.
Fail(s) ==
  /\ req[s].pc = "commit" /\ left.failures > 0
  /\ left' = [left EXCEPT !.failures = @ - 1]
  /\ Answer(s)
  /\ rivals' = rivals \ {s}
  /\ UNCHANGED <<scene, row, cache, off, saved, undone>>

-----------------------------------------------------------------------------
(* The rest.                                                               *)

\* The command "maintenance" is a process of its own, whose copy is as old as
\* its start: any pages may be off afterwards.
CliMaintenance ==
  /\ "pages" \in scene.ops /\ left.requests > 0
  /\ left' = [left EXCEPT !.requests = @ - 1]
  /\ \E pages \in SUBSET Pages : row' = [row EXCEPT !.pages = pages]
  /\ saved' = row'.pages /\ rivals' = Based /\ undone' = FALSE
  /\ UNCHANGED <<scene, cache, req, off>>

\* Any other request.
View(s) ==
  /\ req[s].pc = "ready"
  /\ Answer(s)
  /\ UNCHANGED others

ServedBy(w) == {s \in Slots : req[s].pc # "idle" /\ req[s].at = w}

\* create_app reads the row again; requests of the old process end.
Restart(w) ==
  /\ left.restarts > 0
  /\ left' = [left EXCEPT !.restarts = @ - 1]
  /\ cache' = [cache EXCEPT ![w] = row]
  /\ req' = [s \in Slots |-> IF s \in ServedBy(w) THEN [pc |-> "idle"] ELSE req[s]]
  /\ rivals' = rivals \ ServedBy(w)
  /\ UNCHANGED <<scene, row, off, saved, undone>>

SettingsStep(s, panels) ==
  \/ Begin(s) \/ SaveForm(s, panels) \/ Import(s) \/ SavePages(s)
  \/ ToggleMaintenance(s) \/ LoadRow(s) \/ Refresh(s) \/ Apply(s) \/ View(s)

==============================================================================
