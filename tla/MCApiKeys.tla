------------------------------- MODULE MCApiKeys -------------------------------
(***************************************************************************)
(* Instances of ApiKeys: scopes of one to three words with and without a   *)
(* wildcard, and the routes of the API with those of an add-on.            *)
(***************************************************************************)
EXTENDS ApiKeys, TLC

Read  == <<"profile", "read">>
Write == <<"profile", "write">>
Deep  == <<"jobs", "queue", "read">>
AllScopes == {Read, Write, Deep, <<"profile", "*">>, <<"jobs", "*">>,
              <<"jobs", "queue", "*">>, <<"*">>, <<"profile">>,
              <<"session", "browser">>}

KeyScopes == {BrowserScopes, DefaultScopes, {<<"*">>}, {<<"profile", "*">>}, {<<"jobs", "*">>},
              {Read, <<"jobs", "queue", "*">>}, {<<"profile">>}}

Everyone == {"user", "admin"}

Routes ==
  {[scopes |-> {}, addon |-> FALSE, roles |-> Everyone],
   [scopes |-> {Read}, addon |-> FALSE, roles |-> Everyone],
   [scopes |-> {Read, Write}, addon |-> TRUE, roles |-> Everyone],
   [scopes |-> {Read, Deep}, addon |-> TRUE, roles |-> {"admin"}]}

\* The reveal against creations and deletions; the limit with names the
\* application uses itself; calls against revocations and edits.
Explore(ops, count) == [ops |-> ops, keys |-> count]

KeyScenes ==
  {Explore({"create", "json", "show"}, 3),
   Explore({"create", "show", "revoke", "admin"}, 3),
   Explore({"create", "name", "show", "revoke"}, 3),
   Explore({"create", "name", "expire"}, 3),
   Explore({"create", "revoke", "call"}, 3),
   Explore({"create", "scopes", "call"}, 1),
   Explore({"create", "admin", "call"}, 1)}

SameSlots == Permutations(Slots)
===============================================================================
