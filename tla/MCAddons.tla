------------------------------- MODULE MCAddons -------------------------------
(***************************************************************************)
(* The instance of Addons that TLC explores: two web processes, two        *)
(* requests at a time, an add-on of the application and one that is        *)
(* installed.                                                              *)
(***************************************************************************)
EXTENDS Addons, TLC

MCAddonSet == {"hello_world", "zipped"}
MCBuiltin  == {"hello_world"}

Scene(ops, env, requests, failures, restarts) ==
  [ops |-> ops, env |-> env, requests |-> requests, failures |-> failures,
   restarts |-> restarts]

\* Page switches meet forms and imports; installs meet installs, uninstalls and
\* failures; and forms meet installs, with and without ADDONS_ENABLED.
MCScenes ==
  { Scene({"form", "import", "pages"}, {}, 3, 1, 0),
    Scene({"install", "uninstall"}, {}, 4, 1, 0),
    Scene({"install", "uninstall"}, {}, 3, 0, 1),
    Scene({"form", "install", "pages"}, {}, 3, 0, 0),
    Scene({"install", "form"}, {"hello_world"}, 2, 0, 0) }

MCSymmetry == Permutations(Workers) \cup Permutations(Slots)

==============================================================================
