SPECIFICATION Spec
CONSTANTS
  w1 = w1
  w2 = w2
  s1 = s1
  s2 = s2
  Workers = {w1, w2}
  Slots = {s1, s2}
  Pages = {"maintenance_mode"}
  Addons <- MCAddonSet
  Builtin <- MCBuiltin
  Zips = {1, 2}
  Scenes <- MCScenes
SYMMETRY MCSymmetry
INVARIANTS
  TypeOK
  OnUnlessSwitchedOff
  OneSource
  InstalledWhole
  PagesKept
CHECK_DEADLOCK FALSE
