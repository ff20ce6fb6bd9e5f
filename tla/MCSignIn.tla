------------------------------- MODULE MCSignIn -------------------------------
(***************************************************************************)
(* Instances of SignIn: the account at the start of the exploration and    *)
(* the operations explored together.                                       *)
(***************************************************************************)
EXTENDS SignIn

Explore(seed, ops, times) == [seed |-> seed, ops |-> ops, admin |-> times]

\* The account of a user who enrolled in MFA with an earlier release.
WithMfa == Enrolled(Created)

\* The lockout against disabling; registration against administration; the
\* challenge; a session's end and the switch of users.
SignInScenes ==
  {Explore(Created, {"wrong", "right", "toggle"}, 2),
   Explore(NoAccount, {"register", "confirm", "edit"}, 1),
   Explore(NoAccount, {"register", "resend", "confirm"}, 0),
   Explore(NoAccount, {"register", "confirm", "create", "delete"}, 0),
   Explore(WithMfa, {"right", "wrong", "mfa"}, 0),
   Explore(WithMfa, {"right", "mfa", "edit"}, 1),
   Explore(Created, {"right", "switch", "leave", "toggle"}, 1),
   Explore(Created, {"right", "switch", "leave", "delete"}, 0)}

\* A user who signs in and turns MFA on.
EnrolScene == {Explore(Created, {"right", "mfa"}, 0)}
===============================================================================
