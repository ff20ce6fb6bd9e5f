SPECIFICATION Spec
CONSTANTS
  Users = {u1, u2}
  Subjects = {u1}
  Browsers = {b1, b2}
  Links = {1, 2, 3}
  MaxAttempts = 3
  MaxCodes = 2
  MaxAdmin = 2
  Scenes <- EnrolScene
INVARIANT ConfirmedEnrolmentHolds
CHECK_DEADLOCK FALSE
