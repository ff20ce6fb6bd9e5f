SPECIFICATION FairSpec
CONSTANTS
  Users = {u1, u2}
  Subjects = {u1}
  Browsers = {b1, b2}
  Links = {1, 2, 3}
  MaxAttempts = 3
  MaxCodes = 2
  MaxAdmin = 2
  Scenes <- SignInScenes
INVARIANTS
  TypeOK
  ConfirmedStaysConfirmed
  DisabledHasNoSession
PROPERTIES
  LockHolds
  FailuresLock
CHECK_DEADLOCK FALSE
