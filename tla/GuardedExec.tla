------------------------------ MODULE GuardedExec ------------------------------
(****************************************************************************)
(* What decides whether a tool call runs, and what happens to credentials   *)
(* on the way: the policy engine (src/policy/engine.ts, its linter          *)
(* dangerous.ts), the vault, placeholders and redaction                     *)
(* (src/sandbox/credentials.ts), and the part of Daemon.mediate where they  *)
(* meet.  Mediation models the same handler among other calls, with policy  *)
(* and texts abstracted; here one call is followed with both in full.       *)
(*                                                                          *)
(* A text is a sequence of characters; a placeholder is one character of    *)
(* its own, and so is the redaction mark, which no secret contains.         *)
(****************************************************************************)
EXTENDS Integers, Sequences, SequencesExt

CONSTANTS Letters,       \* characters of texts
          Names,         \* secret names; NAME stands for its placeholder
          Mark,          \* ***
          Absent,        \* what the vault answers for a name it does not hold
          Dangerous,     \* tools with a danger category
          Rules,         \* what a policy file may hold
          MaxOutput,     \* bound: characters a tool prints of its own
          Scenarios      \* [rules, tool, actor, command, vault] to follow

ASSUME CharacterAssumption == Letters \cap Names = {} /\ Mark \notin Letters \cup Names

Effect == {"allow", "deny", "require"}

\* The schema; a rule without a priority has 0.
ASSUME RulesAssumption ==
  /\ \A r \in Rules : r.id \in Nat \ {0} /\ r.effect \in Effect /\ r.priority \in Int
  /\ \A s \in Scenarios : s.rules \in Seq(Rules)

\* A command is text with placeholders, a secret is text.
ASSUME TextAssumption ==
  \A s \in Scenarios : /\ s.command \in Seq(Letters \cup Names)
                       /\ s.vault \in [Names -> {Absent} \cup Seq(Letters)]

Wildcard == <<"*">>

VARIABLES call,           \* the scenario
          pc,             \* where mediate is
          policyVerdict,  \* policy.evaluate's
          approved,       \* the answer, where one was asked for
          argv,           \* what was handed to exec
          journal,        \* texts in the journal
          delivered       \* output of the tool_call_result

vars == <<call, pc, policyVerdict, approved, argv, journal, delivered>>

Nothing == <<Mark>>

NoVerdict == [decision |-> "none", ruleId |-> 0]

Init ==
  /\ call \in Scenarios
  /\ pc = "start" /\ policyVerdict = NoVerdict /\ approved = "none"
  /\ argv = Nothing /\ journal = {} /\ delivered = Nothing

------------------------------------------------------------------------------
(* policy/engine.ts and dangerous.ts.                                       *)

RESTRICTIVENESS == [deny |-> 3, require |-> 2, allow |-> 1]

matches(r, tool, actor) == r.tool \in {Wildcard, tool} /\ r.actor \in {"any", actor}

\* Mutant of evaluate: the priority alone decides among the matching rules.
evaluateByPriority(rules, tool, actor) ==
  LET m == {i \in DOMAIN rules : matches(rules[i], tool, actor)}
      top == {i \in m : \A j \in m : rules[j].priority <= rules[i].priority}
  IN IF m = {} THEN [decision |-> "deny", ruleId |-> 0]
     ELSE LET w == CHOOSE i \in top : \A j \in top : i <= j
          IN [decision |-> rules[w].effect, ruleId |-> rules[w].id]

\* evaluate: no matching rule is a deny that names none; otherwise the strictest
\* effect, then the highest priority, then the first declared (a stable sort).
evaluate(rules, tool, actor) ==
  LET m == {i \in DOMAIN rules : matches(rules[i], tool, actor)}
      rank(i) == RESTRICTIVENESS[rules[i].effect]
      strictest == {i \in m : \A j \in m : rank(j) <= rank(i)}
      top == {i \in strictest : \A j \in strictest : rules[j].priority <= rules[i].priority}
  IN IF m = {} THEN [decision |-> "deny", ruleId |-> 0]
     ELSE LET w == CHOOSE i \in top : \A j \in top : i <= j
          IN [decision |-> rules[w].effect, ruleId |-> rules[w].id]

\* Mutant of detectBroadAutoApprove: only the wildcard is looked for.
detectWildcard(rules) == {rules[i].id : i \in {j \in DOMAIN rules :
  rules[j].effect = "allow" /\ rules[j].tool = Wildcard}}

\* The rules the linter warns of.
detectBroadAutoApprove(rules) == {rules[i].id : i \in {j \in DOMAIN rules :
  rules[j].effect = "allow" /\ rules[j].tool \in {Wildcard} \cup Dangerous}}

\* validatePolicy: ids that occur twice are errors.
DuplicateIds(rules) ==
  {rules[i].id : i \in {j \in DOMAIN rules : \E k \in 1..(j - 1) : rules[k].id = rules[j].id}}

------------------------------------------------------------------------------
(* sandbox/credentials.ts.                                                  *)

Includes(t, s) == \E i \in 0..(Len(t) - Len(s)) : SubSeq(t, i + 1, i + Len(s)) = s

\* EnvSecretVault.values: the non-empty ones.
VaultValues(vault) == {vault[n] : n \in Names} \ {Absent, <<>>}

\* findPlaceholders: the names, each once, in order of appearance.
findPlaceholders(t) ==
  FoldLeft(LAMBDA acc, ch : IF ch \in Names /\ ~Contains(acc, ch) THEN Append(acc, ch) ELSE acc,
           <<>>, t)

\* A placeholder whose secret is not held throws.
Unresolved(t, vault) == \E i \in DOMAIN t : t[i] \in Names /\ vault[t[i]] = Absent

\* One pass: a value put in is not searched for placeholders.
resolvePlaceholders(t, vault) ==
  FlattenSeq([i \in DOMAIN t |-> IF t[i] \in Names THEN vault[t[i]] ELSE <<t[i]>>])

\* resolvedSecretValues: the non-empty values of the placeholders in t, each once.
resolvedSecretValues(t, vault) ==
  FoldLeft(LAMBDA vals, n : IF vault[n] \in {Absent, <<>>} \/ Contains(vals, vault[n])
                            THEN vals ELSE Append(vals, vault[n]),
           <<>>, findPlaceholders(t))

\* split(s).join(Mark).
Masked(t, s) ==
  LET at(k) == k + Len(s) - 1 <= Len(t) /\ SubSeq(t, k, k + Len(s) - 1) = s
      from[k \in 1..(Len(t) + Len(s) + 1)] ==
        IF k > Len(t) THEN <<>>
        ELSE IF at(k) THEN <<Mark>> \o from[k + Len(s)] ELSE <<t[k]>> \o from[k + 1]
  IN from[1]

\* Mutant of redactSecrets: the first value only.
redactFirst(t, values) == IF values = <<>> THEN t ELSE Masked(t, values[1])

\* One value after the other, each in what the last one left.
redactSecrets(t, values) == FoldLeft(Masked, t, values)

\* Mutant of assertNoSecretValues: whole texts are compared.
sameAsSecret(t, values) == t \notin values

\* assertNoSecretValues does not throw.
assertNoSecretValues(t, values) == \A s \in values : ~Includes(t, s)

------------------------------------------------------------------------------
(* Daemon.mediate.                                                          *)

\* journal.append with run.ts's screen; then what follows, or the call rejects.
AppendScreened(t, follows) ==
  IF assertNoSecretValues(t, VaultValues(call.vault))
  THEN journal' = journal \cup {t} /\ follows
  ELSE pc' = "threw" /\ UNCHANGED journal

\* The verdict is journaled with the tool's name, as the harness gave it.
Evaluate ==
  /\ pc = "start"
  /\ policyVerdict' = evaluate(call.rules, call.tool, call.actor)
  /\ AppendScreened(call.tool,
       pc' = CASE policyVerdict'.decision = "allow" -> "cleared"
               [] policyVerdict'.decision = "require" -> "asked"
               [] OTHER -> "refused")
  /\ UNCHANGED <<call, approved, argv, delivered>>

\* awaitDecision answers, or fails: no decision is a denial.
Answer ==
  /\ pc = "asked"
  /\ approved' \in {"yes", "no"}
  /\ pc' = IF approved' = "yes" THEN "cleared" ELSE "refused"
  /\ UNCHANGED <<call, policyVerdict, argv, journal, delivered>>

\* The secrets are put into the command here and nowhere else.
Exec ==
  /\ pc = "cleared"
  /\ IF Unresolved(call.command, call.vault)
     THEN pc' = "threw" /\ UNCHANGED argv
     ELSE pc' = "executing" /\ argv' = resolvePlaceholders(call.command, call.vault)
  /\ UNCHANGED <<call, policyVerdict, approved, journal, delivered>>

\* exec returns what the tool printed: its command line, or anything else.  The
\* event names the secrets used; the output goes out redacted.
Result ==
  /\ pc = "executing"
  /\ \E out \in {argv} \cup UNION {[1..k -> Letters] : k \in 0..MaxOutput} :
       LET safe == redactSecrets(out, resolvedSecretValues(call.command, call.vault))
       IN AppendScreened(findPlaceholders(call.command), delivered' = safe /\ pc' = "done")
          /\ (pc' = "threw" => UNCHANGED delivered)
  /\ UNCHANGED <<call, policyVerdict, approved, argv>>

Next == Evaluate \/ Answer \/ Exec \/ Result

Spec == Init /\ [][Next]_vars

------------------------------------------------------------------------------
(* What policy and credentials promise.                                     *)

\* "Rule ordering can never accidentally allow what a deny rule forbids": no
\* matching rule is stricter than the verdict, every order of the rules gives
\* the same decision, and a call nothing matches is denied.
StrictestWins ==
  policyVerdict # NoVerdict =>
    /\ \A i \in DOMAIN call.rules : matches(call.rules[i], call.tool, call.actor) =>
         RESTRICTIVENESS[call.rules[i].effect] <= RESTRICTIVENESS[policyVerdict.decision]
    /\ evaluate(Reverse(call.rules), call.tool, call.actor).decision = policyVerdict.decision
    /\ policyVerdict.ruleId = 0 => policyVerdict.decision = "deny"

\* A dangerous tool that runs without anyone being asked has the rule that let
\* it through in the linter's warnings, unless two rules share an id.
LintSeesDangerousAllow ==
  policyVerdict.decision = "allow" /\ call.tool \in Dangerous /\ DuplicateIds(call.rules) = {} =>
    policyVerdict.ruleId \in detectBroadAutoApprove(call.rules)

\* No value of the vault is in the signed journal, not even one the harness
\* put into a tool's name itself.
JournalHoldsNoSecret == \A t \in journal, s \in VaultValues(call.vault) : ~Includes(t, s)

\* The output handed back holds no secret the command used as a whole, whatever
\* the tool echoed and however the secrets overlap.
DeliveredHoldsNoUsedSecret ==
  delivered # Nothing =>
    \A i \in DOMAIN call.command : call.command[i] \in Names =>
      call.vault[call.command[i]] = <<>> \/ ~Includes(delivered, call.vault[call.command[i]])

================================================================================
