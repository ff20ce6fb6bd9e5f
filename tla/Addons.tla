-------------------------------- MODULE Addons --------------------------------
(***************************************************************************)
(* Add-ons: folders below one directory that all web processes share, rows *)
(* of the addon_registry with the checksum of what was installed, and what *)
(* each process has loaded (app/services/addon_loader.py,                  *)
(* addon_installer.py, addon_data_service.py and the add-on routes of      *)
(* app/blueprints/admin/routes.py).  An install and an uninstall end as    *)
(* updates of the runtime settings (module Settings).                      *)
(***************************************************************************)
EXTENDS Settings

CONSTANT Zips  \* the ZIP files there are to install, as numbers from 1

ASSUME ZipsAssumption == Zips \subseteq Nat \ {0}

VARIABLES
  folder,   \* folder[x]: from which ZIP each part of the folder is, 0 if absent
  reg,      \* reg[x]: is there a row, and the checksum in it, if any
  mods,     \* mods[w]: app.extensions["addons"] of process w
  torn,     \* history: add-ons that were uninstalled during an install
  installed \* history: add-ons that were installed and not uninstalled since

addonVars == <<folder, reg, mods, torn, installed>>
vars == <<settingsVars, addonVars>>

Zipped == Addons \ Builtin

\* The files that make a folder an add-on, and the rest of it.
Parts   == {"main", "rest"}
Content == [Parts -> {0} \cup Zips]
Absent  == [p \in Parts |-> 0]

Mods == [there : SUBSET Addons, on : SUBSET Addons, loaded : SUBSET Addons]

\* update_settings has no row at first, and an install a checksum too.
Updates == [pc : {"update", "commit"}, at : Workers, new : Row, loaded : Row,
            op : {"form", "import", "pages", "uninstall"}, addon : Addons \cup {"-"}]

Installs == [pc : {"update", "commit"}, at : Workers, new : Row, loaded : Row,
             op : {"install"}, addon : Zipped, sum : Content, seen : BOOLEAN]

Request ==
  [pc : {"idle"}]
    \cup [pc : {"sync"}, at : Workers]
    \cup [pc : {"load"}, at : Workers, back : BOOLEAN]
    \cup [pc : {"import"}, at : Workers, back : BOOLEAN, mods : Mods]
    \cup [pc : {"ready"}, at : Workers, there : SUBSET Addons, on : SUBSET Addons]
    \cup [pc : {"copy", "register"}, at : Workers, addon : Zipped, zip : Zips]
    \cup [pc : {"rest"}, at : Workers, addon : Zipped, zip : Zips, part : Parts]
    \cup [pc : {"remove", "unregister"}, at : Workers, addon : Zipped]
    \cup Updates \cup Installs
    \cup [pc : {"refresh", "apply"}, at : Workers, op : Operations, new : Row]

\* What a process has loaded was found and enabled.
TypeOK ==
  /\ scene \in Scenes /\ left \in Left
  /\ row \in Row
  /\ cache \in [Workers -> Row]
  /\ req \in [Slots -> Request]
  /\ off \subseteq Addons
  /\ saved \subseteq Pages /\ rivals \subseteq Slots /\ undone \in BOOLEAN
  /\ folder \in [Zipped -> Content]
  /\ reg \in [Addons -> [there : BOOLEAN, sum : SUBSET Content]]
  /\ mods \in [Workers -> Mods]
  /\ \A w \in Workers : mods[w].loaded \subseteq mods[w].on
                        /\ mods[w].on \subseteq mods[w].there
  /\ torn \subseteq Zipped /\ installed \subseteq Zipped

-----------------------------------------------------------------------------
(* Loading.                                                                *)

\* _discover_addon_names
There == Builtin \cup {x \in Zipped : folder[x]["main"] # 0}

\* Mutant: an add-on the settings do not list is off.
ListedOnly(items, there) ==
  IF scene.env # {} THEN scene.env
  ELSE {x \in DOMAIN items \cap there : items[x]}

\* What ADDONS_ENABLED, else the settings, else the folders list.
Listed(items, there) ==
  IF scene.env # {} THEN scene.env
  ELSE IF DOMAIN items \cap there = {} THEN there
  ELSE {x \in DOMAIN items \cap there : items[x]} \cup (there \ DOMAIN items)

\* _enabled_names
Enabled(items, there) == Listed(items, there) \cap there

\* The checksum that is registered, if one is, is that of the folder.
Verified(x) == x \in Builtin \/ reg[x].sum \subseteq {folder[x]}

\* Mutant: what was loaded before stays.
LoadedToo(w, some) == some \cup mods[w].loaded

\* load_addons starts from nothing.
Loaded(w, some) == some

\* sync_addon_runtime_state: nothing to do, or load_addons.
Sync(s) ==
  LET r     == req[s]
      there == There
      on    == Enabled(cache[r.at].addons, there)
  IN  /\ r.pc = "sync"
      /\ IF mods[r.at].there = there /\ mods[r.at].on = on
         THEN SetReq(s, [pc |-> "ready", at |-> r.at, there |-> there, on |-> on])
         ELSE SetReq(s, [pc |-> "load", at |-> r.at, back |-> TRUE])
      /\ UNCHANGED <<others, addonVars>>

\* load_addons up to the imports; an update ends without them if it fails.
Load(s) ==
  LET r     == req[s]
      there == There
      on    == Enabled(cache[r.at].addons, there)
  IN  /\ r.pc = "load"
      /\ SetReq(s, [pc |-> "import", at |-> r.at, back |-> r.back,
                    mods |-> [there |-> there, on |-> on,
                              loaded |-> {x \in on : Verified(x)}]])
      /\ UNCHANGED <<others, addonVars>>

Whole(x) == 0 \notin {folder[x][p] : p \in Parts}

\* The imports, of which those of incomplete folders may fail, and the rows and
\* events they record.
ImportModules(s) ==
  LET r == req[s]
      m == r.mods
      whole == m.loaded \cap (Builtin \cup {x \in Zipped : Whole(x)})
  IN  /\ r.pc = "import"
      /\ \E some \in {whole, whole \cup (m.loaded \cap There)} :
           mods' = [mods EXCEPT ![r.at] = [m EXCEPT !.loaded = Loaded(r.at, some)]]
      /\ reg' = [x \in Addons |-> IF x \in m.on THEN [reg[x] EXCEPT !.there = TRUE]
                                                ELSE reg[x]]
      /\ IF r.back
         THEN SetReq(s, [pc |-> "ready", at |-> r.at, there |-> m.there, on |-> m.on])
         ELSE Answer(s)
      /\ UNCHANGED <<others, folder, torn, installed>>

-----------------------------------------------------------------------------
(* Installing.                                                             *)

InstallCheck(s) ==
  LET r == req[s]
  IN  /\ r.pc = "ready" /\ "install" \in scene.ops
      /\ \E x \in Zipped : \E zip \in Zips :
           /\ folder[x] = Absent
           /\ SetReq(s, [pc |-> "copy", at |-> r.at, addon |-> x, zip |-> zip])
      /\ UNCHANGED <<others, addonVars>>

\* Mutant: copytree copies into a folder that exists.
CreatesAnyway(x) == TRUE

\* copytree creates the folder or fails.
Creates(x) == folder[x] = Absent

\* A part that cannot be copied (an OSError) is left out.
CopyFirst(s) ==
  LET r == req[s]
  IN  /\ r.pc = "copy"
      /\ IF Creates(r.addon)
         THEN \E p \in Parts :
                /\ folder' = [folder EXCEPT ![r.addon][p] = r.zip]
                /\ SetReq(s, [pc |-> "rest", at |-> r.at, addon |-> r.addon,
                              zip |-> r.zip, part |-> p])
         ELSE Answer(s) /\ UNCHANGED folder
      /\ UNCHANGED <<others, reg, mods, torn, installed>>

\* The other part; without the folder this fails.
CopyRest(s) ==
  LET r == req[s]
  IN  /\ r.pc = "rest"
      /\ IF folder[r.addon] = Absent
         THEN Answer(s) /\ UNCHANGED folder
         ELSE /\ folder' = [folder EXCEPT ![r.addon] =
                              [p \in Parts |-> IF p = r.part THEN @[p] ELSE r.zip]]
              /\ SetReq(s, [pc |-> "register", at |-> r.at, addon |-> r.addon,
                            zip |-> r.zip])
      /\ UNCHANGED <<others, reg, mods, torn, installed>>

\* copytree goes on after an OSError and raises in the end; nothing cleans up.
CopyFails(s) ==
  /\ req[s].pc = "rest" /\ left.failures > 0
  /\ left' = [left EXCEPT !.failures = @ - 1]
  /\ Answer(s)
  /\ UNCHANGED <<scene, row, cache, off, saved, rivals, undone, addonVars>>

\* The settings with an add-on enabled, and without it.
Enabling(base, x) ==
  [base EXCEPT !.addons = [y \in DOMAIN @ \cup {x} |-> y = x \/ @[y]]]

Without(base, x) == [base EXCEPT !.addons = [y \in DOMAIN @ \ {x} |-> @[y]]]

\* addons_install computes the checksum, looks the registry row up, and then
\* edits the settings.
Register(s) ==
  LET r   == req[s]
      x   == r.addon
      new == Enabling(Base(r.at), x)
  IN  /\ r.pc = "register"
      /\ SetReq(s, [pc |-> "update", at |-> r.at, op |-> "install", addon |-> x,
                    new |-> new, loaded |-> new, sum |-> folder[x],
                    seen |-> reg[x].there])
      /\ UNCHANGED <<others, addonVars>>

\* Mutant: a row keeps the checksum of the first install.
RegisteredOnce(x, sum) == IF reg[x].sum = {} THEN {sum} ELSE reg[x].sum

Registered(x, sum) == {sum}

\* One commit for the registry and the settings; it fails when the row was
\* inserted by another process since it was looked up.
CommitInstall(s) ==
  LET r == req[s]
      x == r.addon
  IN  /\ r.pc = "commit" /\ r.op = "install"
      /\ r.seen \/ ~reg[x].there
      /\ Commit(s)
      /\ reg' = [reg EXCEPT ![x] = [there |-> TRUE, sum |-> Registered(x, r.sum)]]
      /\ installed' = installed \cup {x}
      /\ UNCHANGED <<folder, mods, torn>>

InstallConflict(s) ==
  LET r == req[s]
  IN  /\ r.pc = "commit" /\ r.op = "install"
      /\ ~r.seen /\ reg[r.addon].there
      /\ Answer(s)
      /\ rivals' = rivals \ {s}
      /\ UNCHANGED <<scene, left, row, cache, off, saved, undone, addonVars>>

CommitOther(s) ==
  /\ req[s].pc = "commit" /\ req[s].op # "install"
  /\ Commit(s)
  /\ UNCHANGED addonVars

\* The slots whose install has begun to fill the folder of x.
Filling(x) ==
  {s \in Slots : /\ \/ req[s].pc \in {"rest", "register"}
                    \/ req[s].pc \in {"update", "commit"} /\ req[s].op = "install"
                 /\ req[s].addon = x}

-----------------------------------------------------------------------------
(* Uninstalling: the folder, and then the settings; the registry row stays. *)

UninstallCheck(s) ==
  LET r == req[s]
  IN  /\ r.pc = "ready" /\ "uninstall" \in scene.ops
      /\ \E x \in Zipped :
           /\ folder[x] # Absent
           /\ SetReq(s, [pc |-> "remove", at |-> r.at, addon |-> x])
      /\ UNCHANGED <<others, addonVars>>

\* rmtree removes one file after the other, and the folder with the last.
RemovePart(s) ==
  LET r == req[s]
      x == r.addon
  IN  /\ r.pc = "remove"
      /\ \E p \in Parts :
           /\ folder[x][p] # 0
           /\ folder' = [folder EXCEPT ![x][p] = 0]
      /\ IF folder'[x] = Absent THEN SetReq(s, [r EXCEPT !.pc = "unregister"])
                                ELSE UNCHANGED req
      /\ torn' = IF Filling(x) # {} THEN torn \cup {x} ELSE torn
      /\ installed' = installed \ {x}
      /\ UNCHANGED <<others, reg, mods>>

\* A file is gone, because the add-on is removed by others too.
RemoveClash(s) ==
  /\ req[s].pc = "remove"
  /\ \/ folder[req[s].addon] = Absent
     \/ \E t \in Slots \ {s} : req[t].pc = "remove" /\ req[t].addon = req[s].addon
  /\ Answer(s)
  /\ UNCHANGED <<others, addonVars>>

\* Any other OSError ends it halfway.
RemoveFails(s) ==
  /\ req[s].pc = "remove" /\ left.failures > 0
  /\ left' = [left EXCEPT !.failures = @ - 1]
  /\ Answer(s)
  /\ UNCHANGED <<scene, row, cache, off, saved, rivals, undone, addonVars>>

\* addons_uninstall edits the settings.
Unregister(s) ==
  LET x == req[s].addon
  IN  /\ req[s].pc = "unregister"
      /\ Update(s, "uninstall", x, Without(Base(req[s].at), x))
      /\ UNCHANGED <<others, addonVars>>

\* A process ends in the middle of what it does and starts again, loading the
\* add-ons before it serves requests.
RestartWorker(w) ==
  LET on == Enabled(row.addons, There)
  IN  /\ Restart(w)
      /\ mods' = [mods EXCEPT ![w] = [there |-> There, on |-> on,
                                      loaded |-> {x \in on : Verified(x)}]]
      /\ reg' = [x \in Addons |-> IF x \in on THEN [reg[x] EXCEPT !.there = TRUE]
                                              ELSE reg[x]]
      /\ UNCHANGED <<folder, torn, installed>>

-----------------------------------------------------------------------------
Init ==
  /\ SettingsInit
  /\ folder = [x \in Zipped |-> Absent]
  /\ reg = [x \in Addons |-> [there |-> x \in Builtin, sum |-> {}]]
  /\ mods = LET on == Enabled(row.addons, Builtin)
            IN  [w \in Workers |-> [there |-> Builtin, on |-> on, loaded |-> on]]
  /\ torn = {} /\ installed = {}

Next ==
  \/ \E s \in Slots :
       \/ (SettingsStep(s, There) \/ Fail(s)) /\ UNCHANGED addonVars
       \/ Sync(s) \/ Load(s) \/ ImportModules(s)
       \/ InstallCheck(s) \/ CopyFirst(s) \/ CopyRest(s) \/ CopyFails(s)
       \/ Register(s) \/ CommitInstall(s) \/ InstallConflict(s) \/ CommitOther(s)
       \/ UninstallCheck(s) \/ RemovePart(s) \/ RemoveClash(s) \/ RemoveFails(s)
       \/ Unregister(s)
  \/ \E w \in Workers : RestartWorker(w)
  \/ CliMaintenance /\ UNCHANGED addonVars

Spec == Init /\ [][Next]_vars

-----------------------------------------------------------------------------
(* What must hold.                                                         *)

\* The pages stay as they were last saved or imported (write_pages) until a
\* form, an install or an uninstall that had read the settings before writes
\* its older copy over them: no update that starts later does, though the row
\* it reads, the row it loads and the row it writes may be of different times
\* (update_settings).
PagesKept == row.pages = saved \/ undone

\* A request finds every add-on whose folder is there enabled, in any process
\* and however old its settings are, unless a form, an import or ADDONS_ENABLED
\* has left it out ("explicit disable flags still win", _enabled_names).
OnUnlessSwitchedOff ==
  \A s \in Slots : req[s].pc = "ready" =>
    \A x \in req[s].there \ req[s].on :
      IF scene.env = {} THEN x \in off ELSE x \notin scene.env

\* A folder holds files of one ZIP, whichever installs meet in it
\* (install_addon_zip).
OneSource ==
  \A x \in Zipped \ torn :
    Whole(x) => folder[x]["main"] = folder[x]["rest"]

\* From its install to its uninstall the folder of an add-on is whole and from
\* one ZIP, and the registered checksum is its own, so that any process loads
\* it, whatever other installs, failures and restarts there are
\* (addons_install).
InstalledWhole ==
  \A x \in installed \ torn : Whole(x) /\ reg[x].sum = {folder[x]}

==============================================================================
