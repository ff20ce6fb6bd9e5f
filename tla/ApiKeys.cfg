SPECIFICATION Spec
CONSTANTS
  Slots = {s1, s2}
  Limit = 1
  MaxKeys = 3
  Scopes <- AllScopes
  ScopeSets <- KeyScopes
  Endpoints <- Routes
  Scenes <- KeyScenes
SYMMETRY SameSlots
INVARIANTS
  TypeOK
  KeysBounded
  NoneHidden
  ServedIsGranted
PROPERTIES
  RevokedStays
CHECK_DEADLOCK FALSE
