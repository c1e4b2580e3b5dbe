----------------------------- MODULE MCGuardedExec -----------------------------
(* Every pair of rules and many triples against four calls, and every short *)
(* command and tool name against vaults whose secrets overlap, are empty,   *)
(* or are missing.                                                          *)
EXTENDS GuardedExec

MCLetters == {"a", "b"}
MCNames == {"A", "B"}
MCDangerous == {<<"b">>}

MCRules ==
  [id : 1..3, effect : Effect, tool : {Wildcard, <<"b">>},
   actor : {"any", "claude_process"}, priority : {0, 1}]

SmallRules == {r \in MCRules : r.id \in {1, 2}}

Texts(S, n) == UNION {[1..k -> S] : k \in 0..n}

Vaults == [MCNames -> {Absent, <<>>, <<"a">>, <<"a", "b">>, <<"b", "a">>}]

Scenario(rules, tool, actor, command, vault) ==
  [rules |-> rules, tool |-> tool, actor |-> actor, command |-> command, vault |-> vault]

NoSecrets == [n \in MCNames |-> Absent]

Triples ==
  {[i \in 1..3 |-> [f[i] EXCEPT !.id = i]] :
     f \in [1..3 -> {r \in MCRules : r.id = 1 /\ r.actor = "any"}]}

PolicyScenarios ==
  {Scenario(rs, t, a, <<"a">>, NoSecrets) :
     rs \in Texts(SmallRules, 2) \cup Triples,
     t \in {<<"a">>, <<"b">>}, a \in {"claude_process", "session_owner"}}

Lenient(e) == <<[id |-> 1, effect |-> e, tool |-> Wildcard, actor |-> "any", priority |-> 0]>>

\* Any short tool name; then any short command.
SecretScenarios ==
  {Scenario(Lenient(e), t, "claude_process", <<"A">>, v) :
     e \in {"allow", "require"}, t \in Texts(MCLetters, 3), v \in Vaults}
  \cup {Scenario(Lenient("require"), <<>>, "claude_process", cmd, v) :
     cmd \in Texts(MCLetters \cup MCNames, 3), v \in Vaults}

MCScenarios == PolicyScenarios \cup SecretScenarios
================================================================================
