SPECIFICATION Spec
CONSTANTS
  Slots = {s1, s2}
  Limit = 1
  MaxKeys = 3
  Scopes <- AllScopes
  ScopeSets <- KeyScopes
  Endpoints <- Routes
  Scenes <- KeyScenes
SYMMETRY SameSlots
INVARIANT ShownOnce
CHECK_DEADLOCK FALSE
