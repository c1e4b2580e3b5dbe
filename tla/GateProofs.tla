------------------------------- MODULE GateProofs -------------------------------
(****************************************************************************)
(* Theorems about the two ends of a hook event's decision: the texts and    *)
(* the policy it is decided by (GuardedExec) and the path it takes to the   *)
(* gate and back (Gateway).                                                 *)
(*                                                                          *)
(* GuardedExec: for policies of any length over any priorities, any calls   *)
(* and any vaults.  What the policy promises rests on the sort of evaluate  *)
(* having a first element: among finitely many matching rules there is one  *)
(* of the highest rank, among those one of the highest priority, and among  *)
(* those a first.                                                           *)
(*                                                                          *)
(* Gateway: for any number of hooks, strangers and ids and chunks of any    *)
(* length.  A chunk is a fold over its frames, so what a frame keeps must   *)
(* be shown to be what a chunk keeps: FoldSteps unfolds the fold into a     *)
(* sequence of states.                                                      *)
(****************************************************************************)
EXTENDS GuardedExec, Gateway, SequenceTheorems, FiniteSetTheorems, WellFoundedInduction, TLAPS

\* A command that runs has every secret it names, put in.
CommandResolved ==
  pc = "executing" => /\ ~Unresolved(call.command, call.vault)
                      /\ argv = resolvePlaceholders(call.command, call.vault)

\* The verdict, once there is one, is evaluate's of the call; the journal was
\* screened, the output redacted.
IInv ==
  /\ call \in Scenarios
  /\ policyVerdict \in {NoVerdict, evaluate(call.rules, call.tool, call.actor)}
  /\ CommandResolved
  /\ JournalHoldsNoSecret
  /\ DeliveredHoldsNoUsedSecret

------------------------------------------------------------------------------
(* Greatest and least elements.                                             *)

\* A nonempty set of naturals has a least element.
LEMMA LeastNatural ==
  ASSUME NEW S \in SUBSET Nat, S # {}
  PROVE  \E n \in S : \A k \in S : n <= k
<1> DEFINE R == {ss \in Nat \X Nat : ss[1] < ss[2]}
<1>1. IsWellFoundedOn(R, Nat)
  BY NatLessThanWellFounded DEF OpToRel
<1>2. \A k, n \in Nat : k < n => <<k, n>> \in R
  OBVIOUS
<1> HIDE DEF R
<1>3. PICK n \in S : \A k \in S : ~(<<k, n>> \in R)
  BY <1>1, WFMin
<1>4. ASSUME NEW k \in S PROVE n <= k
  <2>1. k \in Nat /\ n \in Nat OBVIOUS
  <2>2. ~(k < n) BY <1>2, <1>3, <2>1
  <2> QED BY <2>1, <2>2
<1> QED BY <1>4

\* Finitely many integers, given as the values of f on S, have a greatest.
LEMMA Greatest ==
  ASSUME NEW S, IsFiniteSet(S), S # {}, NEW f \in [S -> Int]
  PROVE  \E x \in S : \A y \in S : f[y] <= f[x]
<1> DEFINE Above(x) == {y \in S : f[y] > f[x]}
           Sizes == {Cardinality(Above(x)) : x \in S}
<1>1. \A x \in S : IsFiniteSet(Above(x)) /\ Cardinality(Above(x)) \in Nat
  <2> TAKE x \in S
  <2>1. Above(x) \in SUBSET S OBVIOUS
  <2>2. IsFiniteSet(Above(x)) BY <2>1, FS_Subset
  <2> QED BY <2>2, FS_CardinalityType
<1>2. Sizes \in SUBSET Nat /\ Sizes # {}
  BY <1>1
<1>3. \E n \in Sizes : \A k \in Sizes : n <= k
  <2> HIDE DEF Sizes
  <2> QED BY <1>2, LeastNatural
<1>4. PICK x \in S : \A y \in S : Cardinality(Above(x)) <= Cardinality(Above(y))
  <2>1. PICK n \in Sizes : \A k \in Sizes : n <= k
    BY <1>3
  <2>2. PICK x \in S : n = Cardinality(Above(x))
    BY <2>1
  <2>3. \A y \in S : Cardinality(Above(y)) \in Sizes
    OBVIOUS
  <2> HIDE DEF Above, Sizes
  <2> QED BY <2>1, <2>2, <2>3
<1>5. ASSUME NEW y \in S, ~(f[y] <= f[x]) PROVE FALSE
  <2>1. y \in Above(x) /\ y \notin Above(y) /\ Above(y) \in SUBSET Above(x)
    BY <1>5
  <2>2. Cardinality(Above(y)) <= Cardinality(Above(x))
        /\ (Cardinality(Above(x)) = Cardinality(Above(y)) => Above(x) = Above(y))
    <3> HIDE DEF Above
    <3> QED BY <1>1, <2>1, FS_Subset
  <2>3. Cardinality(Above(x)) <= Cardinality(Above(y))
    BY <1>4
  <2>4. Cardinality(Above(x)) = Cardinality(Above(y))
    <3> HIDE DEF Above
    <3> QED BY <1>1, <2>2, <2>3
  <2> QED BY <2>1, <2>2, <2>4
<1> QED BY <1>5

\* The maximum of a set that has one.
LEMMA MaxIs ==
  ASSUME NEW s, NEW k \in Int, k \in s, \A y \in s : y \in Int /\ y <= k
  PROVE  Max(s) = k
  <1>1. Max(s) = CHOOSE x \in s : \A y \in s : x >= y
    BY DEF Max
  <1>2. \A x \in s : (\A y \in s : x >= y) <=> x = k
    OBVIOUS
  <1>3. QED
    BY <1>1, <1>2

\* Induction up to a bound, for a set of naturals.
LEMMA UpTo ==
  ASSUME NEW n \in Nat, NEW S, 0 \in S, \A k \in 0..n : k < n /\ k \in S => k + 1 \in S
  PROVE  0..n \subseteq S
<1> DEFINE Bad == {k \in 0..n : k \notin S}
<1>1. SUFFICES ASSUME Bad # {} PROVE FALSE
  OBVIOUS
<1>2. Bad \in SUBSET Nat
  OBVIOUS
<1>3. PICK m \in Bad : \A k \in Bad : m <= k
  <2> HIDE DEF Bad
  <2>1. QED
    BY <1>1, <1>2, LeastNatural
<1>4. m \in 0..n /\ m \notin S /\ m # 0
  OBVIOUS
<1>5. m - 1 \in 0..n /\ m - 1 < n
  BY <1>4
<1>6. m - 1 \in S
  BY <1>3, <1>4, <1>5
<1>7. QED
  BY <1>4, <1>5, <1>6

\* The first k indices, as a fold takes them away.
LEMMA FirstIndices ==
  ASSUME NEW n \in Nat, NEW k \in 1..n
  PROVE  /\ 1..k \in SUBSET (1..n) /\ 1..k # {} /\ Max(1..k) = k
         /\ (1..k) \ {k} = 1..(k - 1)
<1>1. 1..k \in SUBSET (1..n) /\ k \in 1..k /\ (1..k) \ {k} = 1..(k - 1)
  OBVIOUS
<1>2. k \in Int /\ \A y \in 1..k : y \in Int /\ y <= k
  OBVIOUS
<1>3. QED
  BY <1>1, <1>2, MaxIs

LEMMA MaxInside ==
  ASSUME NEW n \in Nat, NEW s \in SUBSET (1..n), s # {}
  PROVE  Max(s) \in 1..n
<1>1. IsFiniteSet(s)
  <2>1. IsFiniteSet(1..n)
    BY FS_Interval
  <2>2. QED
    BY <2>1, FS_Subset
<1> DEFINE f == [x \in s |-> x]
<1>2. f \in [s -> Int]
  OBVIOUS
<1>3. \A x \in s : f[x] = x
  OBVIOUS
<1> HIDE DEF f
<1>4. PICK x \in s : \A y \in s : f[y] <= f[x]
  BY <1>1, <1>2, Greatest
<1>5. x \in Int /\ \A y \in s : y \in Int /\ y <= x
  BY <1>3, <1>4
<1>6. Max(s) = x
  BY <1>5, MaxIs
<1>7. QED
  BY <1>6

------------------------------------------------------------------------------
(* Folds.  FoldLeft is a function over the sets of indices, chosen for an   *)
(* equation; that the equation has a solution is proved for any step that   *)
(* is itself a function, and each fold of the model is then unfolded into   *)
(* the sequence st of its intermediate results.                             *)

\* h folds step over the sets of indices within 1..k.
FoldsBy(h, k, b, step) ==
  \A s \in SUBSET (1..k) : h[s] = IF s = {} THEN b ELSE step[<<h[s \ {Max(s)}], Max(s)>>]

\* The equation has a solution with values in A.
Foldable(A, k, b, step) == \E h \in [SUBSET (1..k) -> A] : FoldsBy(h, k, b, step)

LEMMA FoldsByNext ==
  ASSUME NEW A, NEW b \in A, NEW n \in Nat, NEW step \in [A \X (1..n) -> A],
         NEW k \in 0..n, k < n, NEW h \in [SUBSET (1..k) -> A], FoldsBy(h, k, b, step)
  PROVE  Foldable(A, k + 1, b, step)
<1> DEFINE h2 == [s \in SUBSET (1..(k + 1)) |->
                   IF k + 1 \in s THEN step[<<h[s \ {k + 1}], k + 1>>] ELSE h[s]]
<1>1. ASSUME NEW s \in SUBSET (1..(k + 1)), k + 1 \in s
      PROVE  /\ s \ {k + 1} \in SUBSET (1..k) /\ s # {} /\ Max(s) = k + 1
             /\ h2[s \ {k + 1}] = h[s \ {k + 1}]
  <2>1. k + 1 \in Int /\ \A y \in s : y \in Int /\ y <= k + 1
    OBVIOUS
  <2>2. Max(s) = k + 1
    BY <1>1, <2>1, MaxIs
  <2>3. \A y \in s \ {k + 1} : y \in 1..k
    OBVIOUS
  <2>4. s \ {k + 1} \in SUBSET (1..k) /\ s \ {k + 1} \in SUBSET (1..(k + 1)) /\ k + 1 \notin s \ {k + 1}
    BY <2>3
  <2>5. h2[s \ {k + 1}] = h[s \ {k + 1}]
    BY <2>4
  <2>6. QED
    BY <1>1, <2>2, <2>4, <2>5
<1>2. ASSUME NEW s \in SUBSET (1..(k + 1)), k + 1 \notin s
      PROVE  s \in SUBSET (1..k) /\ h2[s] = h[s] /\ \A m : h2[s \ {m}] = h[s \ {m}]
  <2>1. \A y \in s : y \in 1..k
    BY <1>2
  <2>2. s \in SUBSET (1..k) /\ \A m : s \ {m} \in SUBSET (1..(k + 1)) /\ k + 1 \notin s \ {m}
    BY <1>2, <2>1
  <2>3. QED
    BY <1>2, <2>2
<1>3. \A s \in SUBSET (1..(k + 1)) : k + 1 \in s => h2[s] = step[<<h[s \ {k + 1}], k + 1>>]
  OBVIOUS
<1>4. \A s \in SUBSET (1..k) : h[s] \in A
  OBVIOUS
<1>5. k + 1 \in 1..n
  OBVIOUS
<1>6. h2 \in [SUBSET (1..(k + 1)) -> A]
  <2>1. ASSUME NEW s \in SUBSET (1..(k + 1)) PROVE h2[s] \in A
    <3> HIDE DEF h2
    <3>1. CASE k + 1 \in s
      <4>1. h[s \ {k + 1}] \in A
        BY <1>1, <1>4, <3>1
      <4>2. <<h[s \ {k + 1}], k + 1>> \in A \X (1..n)
        BY <1>5, <4>1
      <4>3. step[<<h[s \ {k + 1}], k + 1>>] \in A
        BY <4>2
      <4>4. QED
        BY <1>3, <3>1, <4>3
    <3>2. CASE k + 1 \notin s
      BY <1>2, <1>4, <3>2
    <3>3. QED
      BY <3>1, <3>2
  <2>2. h2 = [s \in SUBSET (1..(k + 1)) |-> h2[s]]
    OBVIOUS
  <2> HIDE DEF h2
  <2>3. QED
    BY <2>1, <2>2
<1> HIDE DEF h2
<1>7. FoldsBy(h2, k + 1, b, step)
  <2>1. ASSUME NEW s \in SUBSET (1..(k + 1))
        PROVE  h2[s] = IF s = {} THEN b ELSE step[<<h2[s \ {Max(s)}], Max(s)>>]
    <3>1. CASE k + 1 \in s
      BY <1>1, <1>3, <3>1
    <3>2. CASE k + 1 \notin s
      <4>1. s \in SUBSET (1..k) /\ h2[s] = h[s] /\ h2[s \ {Max(s)}] = h[s \ {Max(s)}]
        BY <1>2, <3>2
      <4>2. h[s] = IF s = {} THEN b ELSE step[<<h[s \ {Max(s)}], Max(s)>>]
        BY <4>1 DEF FoldsBy
      <4>3. QED
        BY <4>1, <4>2
    <3>3. QED
      BY <3>1, <3>2
  <2>2. QED
    BY <2>1 DEF FoldsBy
<1>8. QED
  BY <1>6, <1>7 DEF Foldable

\* The equation of a fold has a solution, with values in A if the step has.
LEMMA FoldsByExists ==
  ASSUME NEW A, NEW b \in A, NEW n \in Nat, NEW step \in [A \X (1..n) -> A]
  PROVE  Foldable(A, n, b, step)
<1> DEFINE S == {k \in 0..n : Foldable(A, k, b, step)}
<1>1. 0 \in S
  <2> DEFINE h == [s \in SUBSET (1..0) |-> b]
  <2>1. 1..0 = {}
    OBVIOUS
  <2>2. h \in [SUBSET (1..0) -> A]
    OBVIOUS
  <2>3. FoldsBy(h, 0, b, step)
    BY <2>1 DEF FoldsBy
  <2> HIDE DEF h
  <2>4. Foldable(A, 0, b, step)
    BY <2>2, <2>3 DEF Foldable
  <2>5. QED
    BY <2>4
<1>2. ASSUME NEW k \in 0..n, k < n, k \in S PROVE k + 1 \in S
  <2>1. PICK h \in [SUBSET (1..k) -> A] : FoldsBy(h, k, b, step)
    BY <1>2 DEF Foldable
  <2>2. Foldable(A, k + 1, b, step)
    BY <1>2, <2>1, FoldsByNext
  <2>3. QED
    BY <1>2, <2>2
<1> HIDE DEF S
<1>3. 0..n \subseteq S
  BY <1>1, <1>2, UpTo
<1>4. n \in S
  BY <1>3
<1>5. QED
  BY <1>4 DEF S

------------------------------------------------------------------------------
(* evaluate.                                                                *)

\* The fields of the rules of a policy.
LEMMA RuleFields ==
  ASSUME NEW rules \in Seq(Rules), NEW i \in DOMAIN rules
  PROVE  /\ rules[i].id \in Nat \ {0} /\ rules[i].effect \in Effect
         /\ rules[i].priority \in Int
         /\ RESTRICTIVENESS[rules[i].effect] \in 1..3
BY RulesAssumption DEF Effect, RESTRICTIVENESS

\* Effects of the same rank are the same effect.
LEMMA RankDecides ==
  ASSUME NEW e \in Effect, NEW d \in Effect, RESTRICTIVENESS[e] = RESTRICTIVENESS[d]
  PROVE  e = d
BY DEF Effect, RESTRICTIVENESS

\* evaluate follows a matching rule that no matching rule is stricter than, or
\* denies when there is none.
LEMMA EvaluateStrictest ==
  ASSUME NEW rules \in Seq(Rules), NEW tool, NEW actor
  PROVE
    \/ /\ \A i \in DOMAIN rules : ~matches(rules[i], tool, actor)
       /\ evaluate(rules, tool, actor) = [decision |-> "deny", ruleId |-> 0]
    \/ \E w \in DOMAIN rules :
         /\ matches(rules[w], tool, actor)
         /\ \A i \in DOMAIN rules : matches(rules[i], tool, actor) =>
              RESTRICTIVENESS[rules[i].effect] <= RESTRICTIVENESS[rules[w].effect]
         /\ evaluate(rules, tool, actor) =
              [decision |-> rules[w].effect, ruleId |-> rules[w].id]
<1> DEFINE m == {i \in DOMAIN rules : matches(rules[i], tool, actor)}
           rank(i) == RESTRICTIVENESS[rules[i].effect]
           strictest == {i \in m : \A j \in m : rank(j) <= rank(i)}
           top == {i \in strictest :
                     \A j \in strictest : rules[j].priority <= rules[i].priority}
           w == CHOOSE i \in top : \A j \in top : i <= j
<1>1. CASE m = {}
  BY <1>1 DEF evaluate
<1>2. CASE m # {}
  <2>1. m \subseteq Nat /\ IsFiniteSet(m)
    <3>1. DOMAIN rules = 1..Len(rules) /\ Len(rules) \in Nat OBVIOUS
    <3>2. IsFiniteSet(1..Len(rules)) BY <3>1, FS_Interval
    <3>3. m \in SUBSET (1..Len(rules)) BY <3>1
    <3> QED BY <3>1, <3>2, <3>3, FS_Subset
  <2>2. strictest # {}
    <3> DEFINE f == [i \in m |-> rank(i)]
    <3>1. f \in [m -> Int] BY RuleFields
    <3>2. \E i \in m : \A j \in m : f[j] <= f[i]
      <4> HIDE DEF f, m
      <4> QED BY <1>2, <2>1, <3>1, Greatest
    <3> QED BY <3>2
  <2>3. top # {}
    <3> DEFINE f == [i \in strictest |-> rules[i].priority]
    <3>1. f \in [strictest -> Int] BY RuleFields
    <3>2. IsFiniteSet(strictest)
      <4>1. strictest \in SUBSET m OBVIOUS
      <4> HIDE DEF strictest, m
      <4> QED BY <2>1, <4>1, FS_Subset
    <3>3. \E i \in strictest : \A j \in strictest : f[j] <= f[i]
      <4> HIDE DEF f, strictest
      <4> QED BY <2>2, <3>1, <3>2, Greatest
    <3> QED BY <3>3
  <2>4. w \in top
    <3>1. top \in SUBSET Nat BY <2>1
    <3>2. \E i \in top : \A j \in top : i <= j
      <4> HIDE DEF top
      <4> QED BY <2>3, <3>1, LeastNatural
    <3> HIDE DEF top
    <3> QED BY <3>2
  <2>5. evaluate(rules, tool, actor) =
          [decision |-> rules[w].effect, ruleId |-> rules[w].id]
    BY <1>2, Zenon DEF evaluate
  <2>6. w \in DOMAIN rules /\ matches(rules[w], tool, actor)
        /\ \A i \in m : rank(i) <= rank(w)
    <3> HIDE DEF w
    <3> QED BY <2>4
  <2> HIDE DEF w
  <2> QED BY <2>5, <2>6
<1> QED BY <1>1, <1>2

\* A rule that lets a dangerous tool through is one the linter warns of.
LEMMA AllowIsLinted ==
  ASSUME NEW rules \in Seq(Rules), NEW tool \in Dangerous, NEW actor,
         evaluate(rules, tool, actor).decision = "allow"
  PROVE  evaluate(rules, tool, actor).ruleId \in detectBroadAutoApprove(rules)
<1>1. PICK w \in DOMAIN rules :
        /\ matches(rules[w], tool, actor)
        /\ evaluate(rules, tool, actor) =
             [decision |-> rules[w].effect, ruleId |-> rules[w].id]
  <2>1. evaluate(rules, tool, actor) # [decision |-> "deny", ruleId |-> 0]
    OBVIOUS
  <2> QED BY <2>1, EvaluateStrictest, Zenon
<1>2. rules[w].effect = "allow" /\ rules[w].tool \in {Wildcard} \cup Dangerous
  BY <1>1 DEF matches
<1> QED BY <1>1, <1>2 DEF detectBroadAutoApprove

\* A policy read backwards holds the same rules.
LEMMA ReversedRules ==
  ASSUME NEW rules \in Seq(Rules)
  PROVE  /\ Reverse(rules) \in Seq(Rules)
         /\ \A i \in DOMAIN rules : \E j \in DOMAIN Reverse(rules) : Reverse(rules)[j] = rules[i]
         /\ \A j \in DOMAIN Reverse(rules) : \E i \in DOMAIN rules : Reverse(rules)[j] = rules[i]
<1> DEFINE n == Len(rules)
<1>1. n \in Nat /\ DOMAIN rules = 1..n /\ \A i \in 1..n : rules[i] \in Rules
  OBVIOUS
<1>2. Reverse(rules) = [i \in 1..n |-> rules[(n - i) + 1]]
  BY DEF Reverse
<1>3. \A i \in 1..n : (n - i) + 1 \in 1..n /\ (n - ((n - i) + 1)) + 1 = i
  BY <1>1
<1>4. Reverse(rules) \in [1..n -> Rules]
  BY <1>1, <1>2, <1>3
<1>5. Reverse(rules) \in Seq(Rules)
  BY <1>1, <1>4, SMT
<1>6. DOMAIN Reverse(rules) = 1..n
  BY <1>2
<1>7. \A i \in 1..n : Reverse(rules)[(n - i) + 1] = rules[i]
  BY <1>1, <1>2, <1>3
<1> QED BY <1>1, <1>2, <1>3, <1>5, <1>6, <1>7

\* The order of the rules does not change the decision.
LEMMA OrderIsIrrelevant ==
  ASSUME NEW rules \in Seq(Rules), NEW tool, NEW actor
  PROVE  evaluate(Reverse(rules), tool, actor).decision = evaluate(rules, tool, actor).decision
<1> DEFINE back == Reverse(rules)
<1>1. /\ back \in Seq(Rules)
      /\ \A i \in DOMAIN rules : \E j \in DOMAIN back : back[j] = rules[i]
      /\ \A j \in DOMAIN back : \E i \in DOMAIN rules : back[j] = rules[i]
  BY ReversedRules
<1> HIDE DEF back
<1>2. CASE \A i \in DOMAIN rules : ~matches(rules[i], tool, actor)
  <2>1. \A j \in DOMAIN back : ~matches(back[j], tool, actor)
    BY <1>1, <1>2
  <2>2. evaluate(rules, tool, actor) = [decision |-> "deny", ruleId |-> 0]
    BY <1>2, EvaluateStrictest
  <2>3. evaluate(back, tool, actor) = [decision |-> "deny", ruleId |-> 0]
    BY <1>1, <2>1, EvaluateStrictest
  <2> QED BY <2>2, <2>3 DEF back
<1>3. CASE \E i \in DOMAIN rules : matches(rules[i], tool, actor)
  <2>1. PICK w \in DOMAIN rules :
          /\ matches(rules[w], tool, actor)
          /\ \A i \in DOMAIN rules : matches(rules[i], tool, actor) =>
               RESTRICTIVENESS[rules[i].effect] <= RESTRICTIVENESS[rules[w].effect]
          /\ evaluate(rules, tool, actor) =
               [decision |-> rules[w].effect, ruleId |-> rules[w].id]
    BY <1>3, EvaluateStrictest
  <2>2. PICK v \in DOMAIN back :
          /\ matches(back[v], tool, actor)
          /\ \A i \in DOMAIN back : matches(back[i], tool, actor) =>
               RESTRICTIVENESS[back[i].effect] <= RESTRICTIVENESS[back[v].effect]
          /\ evaluate(back, tool, actor) =
               [decision |-> back[v].effect, ruleId |-> back[v].id]
    <3>1. \E j \in DOMAIN back : matches(back[j], tool, actor)
      BY <1>1, <1>3
    <3>2. back \in Seq(Rules)
      BY <1>1
    <3> QED BY <3>1, <3>2, EvaluateStrictest, Zenon
  <2>3. RESTRICTIVENESS[back[v].effect] = RESTRICTIVENESS[rules[w].effect]
    <3>1. RESTRICTIVENESS[back[v].effect] <= RESTRICTIVENESS[rules[w].effect]
      BY <1>1, <2>1, <2>2
    <3>2. RESTRICTIVENESS[rules[w].effect] <= RESTRICTIVENESS[back[v].effect]
      BY <1>1, <2>1, <2>2
    <3>3. RESTRICTIVENESS[rules[w].effect] \in 1..3
      BY RuleFields
    <3>4. RESTRICTIVENESS[back[v].effect] \in 1..3
      BY <1>1, RuleFields
    <3> QED BY <3>1, <3>2, <3>3, <3>4
  <2>4. back[v].effect = rules[w].effect
    BY <1>1, <2>3, RuleFields, RankDecides
  <2> QED BY <2>1, <2>2, <2>4 DEF back
<1> QED BY <1>2, <1>3

------------------------------------------------------------------------------
(* The secrets of a command.                                                *)

\* st[k] is acc with the members of B among e[1..k] collected, each once.
Collects(st, e, n, B) ==
  /\ st[0] = <<>>
  /\ \A k \in 1..n :
       st[k] = IF e[k] \in B /\ ~Contains(st[k - 1], e[k]) THEN Append(st[k - 1], e[k]) ELSE st[k - 1]

\* seq holds every member of B among e[1..n], and nothing outside B.
HasAll(seq, e, n, B) == seq \in Seq(B) /\ \A i \in 1..n : e[i] \in B => Contains(seq, e[i])

LEMMA CollectsAll ==
  ASSUME NEW n \in Nat, NEW st, NEW e, NEW B, Collects(st, e, n, B)
  PROVE  HasAll(st[n], e, n, B)
<1> DEFINE S == {k \in 0..n : HasAll(st[k], e, k, B)}
<1>1. 0 \in S
  <2>1. st[0] = <<>> /\ <<>> \in Seq(B) /\ 1..0 = {}
    BY DEF Collects
  <2>2. HasAll(st[0], e, 0, B)
    BY <2>1 DEF HasAll
  <2>3. QED
    BY <2>2
<1>2. ASSUME NEW k \in 0..n, k < n, k \in S PROVE k + 1 \in S
  <2>1. k + 1 \in 1..n /\ (k + 1) - 1 = k
    BY <1>2
  <2>2. st[k + 1] = IF e[k + 1] \in B /\ ~Contains(st[k], e[k + 1])
                    THEN Append(st[k], e[k + 1]) ELSE st[k]
    BY <2>1 DEF Collects
  <2>3. st[k] \in Seq(B) /\ \A i \in 1..k : e[i] \in B => Contains(st[k], e[i])
    BY <1>2 DEF HasAll
  <2>4. HasAll(st[k + 1], e, k + 1, B)
    <3>1. CASE e[k + 1] \in B /\ ~Contains(st[k], e[k + 1])
      <4>1. st[k + 1] = Append(st[k], e[k + 1])
        BY <2>2, <3>1
      <4>2. /\ st[k + 1] \in Seq(B) /\ Len(st[k + 1]) = Len(st[k]) + 1
            /\ \A i \in 1..Len(st[k]) : st[k + 1][i] = st[k][i]
            /\ st[k + 1][Len(st[k]) + 1] = e[k + 1] /\ Len(st[k]) \in Nat
        BY <2>3, <3>1, <4>1, AppendProperties
      <4>3. ASSUME NEW x, Contains(st[k], x) PROVE Contains(st[k + 1], x)
        <5>1. PICK i \in 1..Len(st[k]) : st[k][i] = x
          BY <4>3 DEF Contains
        <5>2. i \in 1..Len(st[k + 1]) /\ st[k + 1][i] = x
          BY <4>2, <5>1
        <5>3. QED
          BY <5>2 DEF Contains
      <4>4. Contains(st[k + 1], e[k + 1])
        <5>1. Len(st[k]) + 1 \in 1..Len(st[k + 1])
          BY <4>2
        <5>2. QED
          BY <4>2, <5>1 DEF Contains
      <4>5. QED
        BY <2>3, <4>2, <4>3, <4>4 DEF HasAll
    <3>2. CASE ~(e[k + 1] \in B /\ ~Contains(st[k], e[k + 1]))
      <4>1. st[k + 1] = st[k] /\ (e[k + 1] \in B => Contains(st[k + 1], e[k + 1]))
        BY <2>2, <3>2
      <4>2. QED
        BY <2>3, <4>1 DEF HasAll
    <3>3. QED
      BY <3>1, <3>2
  <2>5. QED
    BY <2>1, <2>4
<1> HIDE DEF S
<1>3. 0..n \subseteq S
  BY <1>1, <1>2, UpTo
<1>4. n \in S
  BY <1>3
<1>5. QED
  BY <1>4 DEF S

\* The recursion of findPlaceholders.
FindIter(t) ==
  CHOOSE g : g = [s \in SUBSET DOMAIN t |->
                    IF s = {} THEN <<>>
                    ELSE IF t[Max(s)] \in Names /\ ~Contains(g[s \ {Max(s)}], t[Max(s)])
                         THEN Append(g[s \ {Max(s)}], t[Max(s)])
                         ELSE g[s \ {Max(s)}]]

LEMMA FindIsIter ==
  ASSUME NEW t
  PROVE  findPlaceholders(t) = FindIter(t)[DOMAIN t]
BY DEF findPlaceholders, FoldLeft, MapThenFoldSet, FindIter

\* findPlaceholders finds every name of a text, and only names.
LEMMA FindsAll ==
  ASSUME NEW C, NEW t \in Seq(C)
  PROVE  HasAll(findPlaceholders(t), t, Len(t), Names)
<1> DEFINE n == Len(t)
           Add(acc, k) == IF t[k] \in Names /\ ~Contains(acc, t[k]) THEN Append(acc, t[k]) ELSE acc
           step == [p \in Seq(Names) \X (1..n) |-> Add(p[1], p[2])]
           G == FindIter(t)
           st == [k \in 0..n |-> G[1..k]]
<1>1. n \in Nat /\ DOMAIN t = 1..n
  BY LenProperties
<1> HIDE DEF n
<1>2. step \in [Seq(Names) \X (1..n) -> Seq(Names)]
  OBVIOUS
<1>3. \A acc \in Seq(Names), k \in 1..n : step[<<acc, k>>] = Add(acc, k)
  OBVIOUS
<1>4. <<>> \in Seq(Names)
  OBVIOUS
<1> HIDE DEF step
<1>5. PICK h \in [SUBSET (1..n) -> Seq(Names)] : FoldsBy(h, n, <<>>, step)
  BY <1>1, <1>2, <1>4, FoldsByExists DEF Foldable
<1>6. \A s \in SUBSET (1..n) : s # {} => Max(s) \in 1..n
  BY <1>1, MaxInside
<1>7. \A s \in SUBSET (1..n) : h[s] = IF s = {} THEN <<>> ELSE Add(h[s \ {Max(s)}], Max(s))
  BY <1>3, <1>5, <1>6 DEF FoldsBy
<1>8. G = [s \in SUBSET (1..n) |-> IF s = {} THEN <<>> ELSE Add(G[s \ {Max(s)}], Max(s))]
  <2>1. h = [s \in SUBSET (1..n) |-> h[s]]
    OBVIOUS
  <2>2. h = [s \in SUBSET (1..n) |-> IF s = {} THEN <<>> ELSE Add(h[s \ {Max(s)}], Max(s))]
    <3> HIDE DEF Add
    <3>1. QED
      BY <1>7, <2>1
  <2>3. QED
    BY <1>1, <2>2 DEF FindIter
<1> HIDE DEF G
<1>9. \A k \in 0..n : st[k] = G[1..k]
  OBVIOUS
<1>10. st[0] = <<>>
  <2>1. 1..0 = {} /\ 1..0 \in SUBSET (1..n) /\ 0 \in 0..n
    BY <1>1
  <2>2. QED
    BY <1>8, <1>9, <2>1
<1>11. ASSUME NEW k \in 1..n PROVE st[k] = Add(st[k - 1], k)
  <2>1. G[1..k] = Add(G[1..(k - 1)], k)
    <3> HIDE DEF Add
    <3>1. G[1..k] = IF 1..k = {} THEN <<>> ELSE Add(G[(1..k) \ {Max(1..k)}], Max(1..k))
      <4>1. 1..k \in SUBSET (1..n)
        BY <1>1
      <4>2. QED
        BY <1>8, <4>1
    <3>2. 1..k # {} /\ Max(1..k) = k /\ (1..k) \ {k} = 1..(k - 1)
      BY <1>1, FirstIndices
    <3>3. QED
      BY <3>1, <3>2
  <2>2. k \in 0..n /\ k - 1 \in 0..n
    BY <1>1
  <2>3. QED
    BY <1>9, <2>1, <2>2
<1>12. findPlaceholders(t) = st[n]
  BY <1>1, <1>9, FindIsIter DEF G
<1> HIDE DEF st
<1>13. Collects(st, t, n, Names)
  BY <1>10, <1>11 DEF Collects
<1>14. QED
  BY <1>1, <1>12, <1>13, CollectsAll DEF n

\* The recursion of resolvedSecretValues over the names ns.
ValueIter(ns, vault) ==
  CHOOSE g : g = [s \in SUBSET DOMAIN ns |->
                    IF s = {} THEN <<>>
                    ELSE IF \/ vault[ns[Max(s)]] \in {Absent, <<>>}
                            \/ Contains(g[s \ {Max(s)}], vault[ns[Max(s)]])
                         THEN g[s \ {Max(s)}]
                         ELSE Append(g[s \ {Max(s)}], vault[ns[Max(s)]])]

LEMMA ValuesAreIter ==
  ASSUME NEW t, NEW vault
  PROVE  resolvedSecretValues(t, vault) =
           ValueIter(findPlaceholders(t), vault)[DOMAIN findPlaceholders(t)]
<1> DEFINE ns == findPlaceholders(t)
<1>1. resolvedSecretValues(t, vault) =
        FoldLeft(LAMBDA vals, n : IF vault[n] \in {Absent, <<>>} \/ Contains(vals, vault[n])
                                  THEN vals ELSE Append(vals, vault[n]), <<>>, ns)
  BY DEF resolvedSecretValues
<1> HIDE DEF ns
<1>2. resolvedSecretValues(t, vault) = ValueIter(ns, vault)[DOMAIN ns]
  BY <1>1 DEF FoldLeft, MapThenFoldSet, ValueIter
<1>3. QED
  BY <1>2 DEF ns

\* The texts redaction looks for.
Secrets == Seq(Letters) \ {Absent, <<>>}

\* What the vault holds for each of the names ns.
ValuesOf(ns, vault) == [i \in DOMAIN ns |-> vault[ns[i]]]

\* resolvedSecretValues has every secret of the placeholders of a text.
LEMMA ValuesAll ==
  ASSUME NEW ns \in Seq(Names), NEW vault \in [Names -> {Absent} \cup Seq(Letters)]
  PROVE  HasAll(ValueIter(ns, vault)[DOMAIN ns], ValuesOf(ns, vault), Len(ns), Secrets)
<1> DEFINE n == Len(ns)
           e == ValuesOf(ns, vault)
           Add(acc, k) == IF vault[ns[k]] \in {Absent, <<>>} \/ Contains(acc, vault[ns[k]])
                          THEN acc ELSE Append(acc, vault[ns[k]])
           step == [p \in Seq(Secrets) \X (1..n) |-> Add(p[1], p[2])]
           G == ValueIter(ns, vault)
           st == [k \in 0..n |-> G[1..k]]
<1>1. n \in Nat /\ DOMAIN ns = 1..n
  BY LenProperties
<1>2. \A k \in 1..n : e[k] = vault[ns[k]] /\ (e[k] \in {Absent, <<>>} \/ e[k] \in Secrets)
  BY <1>1 DEF ValuesOf, Secrets
<1> HIDE DEF n, e
<1>3. step \in [Seq(Secrets) \X (1..n) -> Seq(Secrets)]
  BY <1>2
<1>4. \A acc \in Seq(Secrets), k \in 1..n : step[<<acc, k>>] = Add(acc, k)
  OBVIOUS
<1>5. <<>> \in Seq(Secrets)
  OBVIOUS
<1> HIDE DEF step
<1>6. PICK h \in [SUBSET (1..n) -> Seq(Secrets)] : FoldsBy(h, n, <<>>, step)
  BY <1>1, <1>3, <1>5, FoldsByExists DEF Foldable
<1>7. \A s \in SUBSET (1..n) : s # {} => Max(s) \in 1..n
  BY <1>1, MaxInside
<1>8. \A s \in SUBSET (1..n) : h[s] = IF s = {} THEN <<>> ELSE Add(h[s \ {Max(s)}], Max(s))
  BY <1>4, <1>6, <1>7 DEF FoldsBy
<1>9. G = [s \in SUBSET (1..n) |-> IF s = {} THEN <<>> ELSE Add(G[s \ {Max(s)}], Max(s))]
  <2>1. h = [s \in SUBSET (1..n) |-> h[s]]
    OBVIOUS
  <2>2. h = [s \in SUBSET (1..n) |-> IF s = {} THEN <<>> ELSE Add(h[s \ {Max(s)}], Max(s))]
    <3> HIDE DEF Add
    <3>1. QED
      BY <1>8, <2>1
  <2> DEFINE Solves(g) ==
        g = [s \in SUBSET (1..n) |-> IF s = {} THEN <<>> ELSE Add(g[s \ {Max(s)}], Max(s))]
  <2>3. G = CHOOSE g : Solves(g)
    BY <1>1 DEF ValueIter
  <2>4. Solves(h)
    BY <2>2
  <2>5. Solves(G)
    <3> HIDE DEF Solves, G
    <3>1. QED
      BY <2>3, <2>4
  <2>6. QED
    BY <2>5
<1> HIDE DEF G
<1>10. \A k \in 0..n : st[k] = G[1..k]
  OBVIOUS
<1>11. st[0] = <<>>
  <2>1. 1..0 = {} /\ 1..0 \in SUBSET (1..n) /\ 0 \in 0..n
    BY <1>1
  <2>2. QED
    BY <1>9, <1>10, <2>1
<1>12. ASSUME NEW k \in 1..n PROVE st[k] = Add(st[k - 1], k)
  <2>1. G[1..k] = Add(G[1..(k - 1)], k)
    <3> HIDE DEF Add
    <3>1. G[1..k] = IF 1..k = {} THEN <<>> ELSE Add(G[(1..k) \ {Max(1..k)}], Max(1..k))
      <4>1. 1..k \in SUBSET (1..n)
        BY <1>1
      <4>2. QED
        BY <1>9, <4>1
    <3>2. 1..k # {} /\ Max(1..k) = k /\ (1..k) \ {k} = 1..(k - 1)
      BY <1>1, FirstIndices
    <3>3. QED
      BY <3>1, <3>2
  <2>2. k \in 0..n /\ k - 1 \in 0..n
    BY <1>1
  <2>3. QED
    BY <1>10, <2>1, <2>2
<1>13. G[DOMAIN ns] = st[n]
  BY <1>1, <1>10
<1> HIDE DEF st
<1>14. Collects(st, e, n, Secrets)
  <2>1. \A k \in 1..n : e[k] \in Secrets <=> e[k] \notin {Absent, <<>>}
    BY <1>2 DEF Secrets
  <2>2. QED
    BY <1>2, <1>11, <1>12, <2>1 DEF Collects
<1>15. QED
  BY <1>1, <1>13, <1>14, CollectsAll DEF n, e, G

\* Redaction is given every secret a text uses.
LEMMA UsedSecretsFound ==
  ASSUME NEW C, NEW t \in Seq(C), NEW vault \in [Names -> {Absent} \cup Seq(Letters)]
  PROVE  /\ resolvedSecretValues(t, vault) \in Seq(Secrets)
         /\ \A i \in DOMAIN t : t[i] \in Names /\ vault[t[i]] \notin {Absent, <<>>} =>
              Contains(resolvedSecretValues(t, vault), vault[t[i]])
<1> DEFINE ns == findPlaceholders(t)
           values == resolvedSecretValues(t, vault)
<1>1. ns \in Seq(Names) /\ \A i \in 1..Len(t) : t[i] \in Names => Contains(ns, t[i])
  BY FindsAll DEF HasAll
<1>2. values = ValueIter(ns, vault)[DOMAIN ns]
  BY ValuesAreIter
<1> HIDE DEF ns, values
<1>3. /\ values \in Seq(Secrets)
      /\ \A j \in 1..Len(ns) : ValuesOf(ns, vault)[j] \in Secrets => Contains(values, ValuesOf(ns, vault)[j])
  BY <1>1, <1>2, ValuesAll DEF HasAll
<1>4. ASSUME NEW i \in DOMAIN t, t[i] \in Names, vault[t[i]] \notin {Absent, <<>>}
      PROVE  Contains(values, vault[t[i]])
  <2>1. PICK j \in 1..Len(ns) : ns[j] = t[i]
    BY <1>1, <1>4, LenProperties DEF Contains
  <2>2. j \in DOMAIN ns
    BY <1>1, LenProperties
  <2>3. ValuesOf(ns, vault)[j] = vault[t[i]]
    BY <2>1, <2>2 DEF ValuesOf
  <2>4. vault[t[i]] \in Secrets
    BY <1>4 DEF Secrets
  <2>5. QED
    BY <1>3, <2>1, <2>3, <2>4
<1>5. QED
  BY <1>3, <1>4 DEF values

------------------------------------------------------------------------------
(* Redaction.                                                               *)

\* Characters of an output, before and after redaction.
Chars == Letters \cup {Mark}

\* u stands in t from position k on.
Occurs(t, k, u) == k + Len(u) - 1 <= Len(t) /\ \A i \in 1..Len(u) : t[k + i - 1] = u[i]

LEMMA WindowIs ==
  ASSUME NEW t \in Seq(Chars), NEW u \in Seq(Chars), NEW k \in Nat \ {0}
  PROVE  (k + Len(u) - 1 <= Len(t) /\ SubSeq(t, k, k + Len(u) - 1) = u) <=> Occurs(t, k, u)
<1>1. Len(t) \in Nat /\ Len(u) \in Nat
  OBVIOUS
<1>2. CASE k + Len(u) - 1 <= Len(t)
  <2> DEFINE w == SubSeq(t, k, k + Len(u) - 1)
  <2>1. w \in Seq(Chars) /\ Len(w) = Len(u) /\ \A i \in 1..Len(u) : w[i] = t[k + i - 1]
    <3>1. \A j \in k..(k + Len(u) - 1) : j \in 1..Len(t)
      BY <1>1, <1>2
    <3>2. \A j \in k..(k + Len(u) - 1) : t[j] \in Chars
      BY <3>1, ElementOfSeq
    <3>3. /\ w \in Seq(Chars)
          /\ Len(w) = IF k <= k + Len(u) - 1 THEN (k + Len(u) - 1) - k + 1 ELSE 0
          /\ \A i \in 1..((k + Len(u) - 1) - k + 1) : w[i] = t[k + i - 1]
      BY <1>1, <3>1, <3>2, SubSeqProperties
    <3> HIDE DEF w
    <3>4. QED
      BY <1>1, <3>3
  <2> HIDE DEF w
  <2>2. w = u <=> \A i \in 1..Len(u) : w[i] = u[i]
    BY <2>1, SeqEqual
  <2>3. QED
    BY <1>2, <2>1, <2>2 DEF Occurs, w
<1>3. CASE ~(k + Len(u) - 1 <= Len(t))
  BY <1>3 DEF Occurs
<1>4. QED
  BY <1>2, <1>3

LEMMA IncludesIs ==
  ASSUME NEW t \in Seq(Chars), NEW u \in Seq(Chars), u # <<>>
  PROVE  Includes(t, u) <=> \E k \in 1..Len(t) : Occurs(t, k, u)
<1>1. Len(t) \in Nat /\ Len(u) \in Nat /\ Len(u) # 0
  BY EmptySeq
<1>2. ASSUME NEW i \in 0..(Len(t) - Len(u)), SubSeq(t, i + 1, i + Len(u)) = u
      PROVE  \E k \in 1..Len(t) : Occurs(t, k, u)
  <2>1. /\ i + 1 \in Nat \ {0} /\ i + 1 \in 1..Len(t) /\ (i + 1) + Len(u) - 1 = i + Len(u)
        /\ i + Len(u) <= Len(t)
    BY <1>1
  <2>2. Occurs(t, i + 1, u)
    BY <1>2, <2>1, WindowIs
  <2>3. QED
    BY <2>1, <2>2
<1>3. ASSUME NEW k \in 1..Len(t), Occurs(t, k, u)
      PROVE  Includes(t, u)
  <2>1. k \in Nat \ {0} /\ k + Len(u) - 1 <= Len(t) /\ SubSeq(t, k, k + Len(u) - 1) = u
    BY <1>1, <1>3, WindowIs
  <2>2. k - 1 \in 0..(Len(t) - Len(u)) /\ (k - 1) + 1 = k /\ (k - 1) + Len(u) = k + Len(u) - 1
    BY <1>1, <2>1
  <2>3. QED
    BY <2>1, <2>2 DEF Includes
<1>4. QED
  BY <1>2, <1>3 DEF Includes

\* What Masked makes of t from k on, given what it makes of later positions.
Rest(g, k, t, s) ==
  IF k > Len(t) THEN <<>>
  ELSE IF k + Len(s) - 1 <= Len(t) /\ SubSeq(t, k, k + Len(s) - 1) = s
       THEN <<Mark>> \o g[k + Len(s)]
       ELSE <<t[k]>> \o g[k + 1]

\* g solves the recursion of Masked for the positions from m on.
Masks(g, m, t, s) == g = [k \in m..(Len(t) + Len(s) + 1) |-> Rest(g, k, t, s)]

Maskable(m, t, s) == \E g : Masks(g, m, t, s)

LEMMA MaskedIs ==
  ASSUME NEW t, NEW s
  PROVE  Masked(t, s) = (CHOOSE g : Masks(g, 1, t, s))[1]
BY DEF Masked, Masks, Rest

LEMMA MasksEarlier ==
  ASSUME NEW t \in Seq(Chars), NEW s \in Seq(Chars), s # <<>>,
         NEW m \in 2..(Len(t) + Len(s) + 1), Maskable(m, t, s)
  PROVE  Maskable(m - 1, t, s)
<1> DEFINE N == Len(t) + Len(s) + 1
<1>1. Len(t) \in Nat /\ Len(s) \in Nat \ {0}
  BY EmptySeq
<1>2. PICK g : Masks(g, m, t, s)
  BY DEF Maskable
<1> DEFINE g2 == [k \in (m - 1)..N |-> IF k = m - 1 THEN Rest(g, k, t, s) ELSE g[k]]
<1>3. \A k \in m..N : g2[k] = g[k]
  BY <1>1
<1>4. ASSUME NEW k \in (m - 1)..N PROVE Rest(g2, k, t, s) = Rest(g, k, t, s)
  <2>1. k <= Len(t) => k + Len(s) \in m..N /\ k + 1 \in m..N
    BY <1>1
  <2>2. k <= Len(t) => g2[k + Len(s)] = g[k + Len(s)] /\ g2[k + 1] = g[k + 1]
    BY <1>3, <2>1
  <2>3. k > Len(t) \/ k <= Len(t)
    BY <1>1
  <2> HIDE DEF g2
  <2>4. QED
    BY <2>2, <2>3 DEF Rest
<1>5. ASSUME NEW k \in (m - 1)..N PROVE g2[k] = Rest(g2, k, t, s)
  <2>1. CASE k = m - 1
    <3>1. g2[k] = Rest(g, k, t, s)
      BY <2>1
    <3>2. QED
      BY <1>4, <3>1
  <2>2. CASE k # m - 1
    <3>1. k \in m..N
      BY <1>1, <2>2
    <3>2. g[k] = Rest(g, k, t, s)
      BY <1>2, <3>1 DEF Masks
    <3>3. g2[k] = g[k]
      BY <1>3, <3>1
    <3> HIDE DEF g2
    <3>4. QED
      BY <1>4, <3>2, <3>3
  <2>3. QED
    BY <2>1, <2>2
<1>6. g2 = [k \in (m - 1)..N |-> g2[k]]
  OBVIOUS
<1> HIDE DEF g2
<1>7. Masks(g2, m - 1, t, s)
  BY <1>5, <1>6 DEF Masks
<1>8. QED
  BY <1>7 DEF Maskable

\* Induction downwards: what holds at n and passes to each position before
\* holds at 1.
LEMMA DownFrom ==
  ASSUME NEW n \in Nat \ {0}, NEW S, n \in S, \A k \in 2..n : k \in S => k - 1 \in S
  PROVE  1..n \subseteq S
<1> DEFINE D == {d \in 0..(n - 1) : n - d \in S}
<1>1. 0 \in D
  OBVIOUS
<1>2. ASSUME NEW d \in 0..(n - 1), d < n - 1, d \in D PROVE d + 1 \in D
  <2>1. n - d \in 2..n /\ n - d \in S /\ (n - d) - 1 = n - (d + 1)
    BY <1>2
  <2>2. n - (d + 1) \in S /\ d + 1 \in 0..(n - 1)
    BY <1>2, <2>1
  <2>3. QED
    BY <2>2
<1> HIDE DEF D
<1>3. 0..(n - 1) \subseteq D
  BY <1>1, <1>2, UpTo
<1>4. ASSUME NEW k \in 1..n PROVE k \in S
  <2>1. n - k \in 0..(n - 1) /\ n - (n - k) = k
    OBVIOUS
  <2>2. n - k \in D
    BY <1>3, <2>1
  <2>3. n - (n - k) \in S
    BY <2>2 DEF D
  <2>4. QED
    BY <2>1, <2>3
<1>5. QED
  BY <1>4

\* The recursion of Masked has a solution.
LEMMA MaskedExists ==
  ASSUME NEW t \in Seq(Chars), NEW s \in Seq(Chars), s # <<>>
  PROVE  Maskable(1, t, s)
<1> DEFINE N == Len(t) + Len(s) + 1
           S == {m \in 1..N : Maskable(m, t, s)}
<1>1. Len(t) \in Nat /\ Len(s) \in Nat /\ N \in Nat \ {0}
  BY LenProperties
<1>2. N \in S
  <2> DEFINE g == [k \in N..N |-> <<>>]
  <2>1. \A k \in N..N : k > Len(t)
    BY <1>1
  <2>2. \A k \in N..N : Rest(g, k, t, s) = <<>>
    BY <2>1 DEF Rest
  <2>3. Masks(g, N, t, s)
    BY <2>2 DEF Masks
  <2> HIDE DEF g
  <2>4. Maskable(N, t, s)
    BY <2>3 DEF Maskable
  <2>5. QED
    BY <1>1, <2>4
<1>3. ASSUME NEW k \in 2..N, k \in S PROVE k - 1 \in S
  <2>1. Maskable(k, t, s)
    BY <1>3
  <2>2. Maskable(k - 1, t, s)
    BY <2>1, MasksEarlier
  <2>3. QED
    BY <1>1, <2>2
<1> HIDE DEF N, S
<1>4. 1..N \subseteq S
  BY <1>1, <1>2, <1>3, DownFrom
<1>5. 1 \in S
  BY <1>1, <1>4
<1>6. QED
  BY <1>5 DEF S

\* A stretch of p without a mark, from its start, is copied from t at k, and
\* s begins at none of its places.
Copied(p, k, t, s) ==
  \A j \in 1..Len(p) : (\A i \in 1..j : p[i] # Mark) =>
    k + j - 1 <= Len(t) /\ \A i \in 1..j : p[i] = t[k + i - 1] /\ ~Occurs(t, k + i - 1, s)

\* q is p without its first o characters.
Drops(q, p, o) == Len(q) = Len(p) - o /\ \A i \in 1..Len(q) : q[i] = p[o + i]

\* Cutting what g gives at k anywhere gives what g gives at some position.
Cuts(g, k, t, s) ==
  \A o \in 0..Len(g[k]) : \E k2 \in 1..(Len(t) + Len(s) + 1) : Drops(g[k2], g[k], o)

\* p is c and then q.
Prefixed(p, c, q) ==
  /\ p \in Seq(Chars) /\ Len(p) = Len(q) + 1
  /\ p[1] = c /\ \A i \in 1..Len(q) : p[i + 1] = q[i]

\* What g gives at k is a text, copied up to the first mark.
Part(g, k, t, s) ==
  /\ g[k] \in Seq(Chars)
  /\ Copied(g[k], k, t, s)
  /\ Cuts(g, k, t, s)

\* Putting c before what g gives at k2.
LEMMA DropsBefore ==
  ASSUME NEW t \in Seq(Chars), NEW s \in Seq(Chars), NEW g,
         NEW k \in 1..(Len(t) + Len(s) + 1), NEW k2 \in 1..(Len(t) + Len(s) + 1),
         Part(g, k2, t, s), NEW c \in Chars, g[k] = <<c>> \o g[k2]
  PROVE  Prefixed(g[k], c, g[k2]) /\ Cuts(g, k, t, s)
<1> DEFINE p == g[k]
           q == g[k2]
<1>1. q \in Seq(Chars)
  BY DEF Part
<1>2. <<c>> \in Seq(Chars) /\ Len(<<c>>) = 1 /\ <<c>>[1] = c
  OBVIOUS
<1>3. p = <<c>> \o q
  OBVIOUS
<1> HIDE DEF p, q
<1>4. /\ p \in Seq(Chars) /\ Len(p) = 1 + Len(q)
      /\ \A i \in 1..(1 + Len(q)) : p[i] = IF i <= 1 THEN <<c>>[i] ELSE q[i - 1]
  BY <1>1, <1>2, <1>3, ConcatProperties
<1>5. Len(q) \in Nat
  BY <1>1
<1>6. p[1] = c /\ \A i \in 1..Len(q) : p[i + 1] = q[i]
  <2>1. p[1] = c
    BY <1>2, <1>4, <1>5
  <2>2. ASSUME NEW i \in 1..Len(q) PROVE p[i + 1] = q[i]
    <3>1. i + 1 \in 1..(1 + Len(q)) /\ ~(i + 1 <= 1) /\ (i + 1) - 1 = i
      BY <1>5
    <3>2. QED
      BY <1>4, <3>1
  <2>3. QED
    BY <2>1, <2>2
<1>7. ASSUME NEW o \in 0..Len(p)
      PROVE  \E k3 \in 1..(Len(t) + Len(s) + 1) : Drops(g[k3], p, o)
  <2>1. CASE o = 0
    <3>1. Drops(p, p, 0)
      BY <1>4, <1>5 DEF Drops
    <3>2. QED
      BY <2>1, <3>1 DEF p
  <2>2. CASE o # 0
    <3>1. o - 1 \in 0..Len(q)
      BY <1>4, <1>5, <2>2
    <3>2. PICK k3 \in 1..(Len(t) + Len(s) + 1) : Drops(g[k3], q, o - 1)
      BY <3>1 DEF Part, Cuts, q
    <3>3. Len(g[k3]) = Len(p) - o
      BY <1>4, <1>5, <3>2 DEF Drops
    <3>4. ASSUME NEW i \in 1..Len(g[k3]) PROVE g[k3][i] = p[o + i]
      <4>1. g[k3][i] = q[(o - 1) + i]
        BY <3>2 DEF Drops
      <4>2. (o - 1) + i \in 1..Len(q) /\ ((o - 1) + i) + 1 = o + i
        <5>1. Len(g[k3]) = 1 + Len(q) - o /\ o \in Int /\ o >= 1
          BY <1>4, <1>5, <2>2, <3>3
        <5>2. i \in Int /\ 1 <= i /\ i <= 1 + Len(q) - o
          BY <1>5, <5>1
        <5>3. QED
          BY <1>5, <5>1, <5>2
      <4>3. QED
        BY <1>6, <4>1, <4>2
    <3>5. Drops(g[k3], p, o)
      BY <3>3, <3>4 DEF Drops
    <3>6. QED
      BY <3>5
  <2>3. QED
    BY <2>1, <2>2
<1>8. QED
  <2>1. Prefixed(p, c, q)
    BY <1>4, <1>5, <1>6 DEF Prefixed
  <2>2. Cuts(g, k, t, s)
    BY <1>7 DEF Cuts, p
  <2>3. QED
    BY <2>1, <2>2 DEF p, q

LEMMA MaskedParts ==
  ASSUME NEW t \in Seq(Chars), NEW s \in Seq(Chars), s # <<>>, NEW g, Masks(g, 1, t, s)
  PROVE  \A k \in 1..(Len(t) + Len(s) + 1) : Part(g, k, t, s)
<1> DEFINE N == Len(t) + Len(s) + 1
           S == {m \in 1..N : \A k \in m..N : Part(g, k, t, s)}
<1>1. Len(t) \in Nat /\ Len(s) \in Nat \ {0} /\ N \in Nat \ {0}
  BY EmptySeq
<1>2. \A k \in 1..N : g[k] = Rest(g, k, t, s)
  BY DEF Masks
<1>3. ASSUME NEW k \in 1..N, k > Len(t) PROVE Part(g, k, t, s)
  <2>1. g[k] = <<>>
    BY <1>2, <1>3 DEF Rest
  <2>2. <<>> \in Seq(Chars) /\ Len(<<>>) = 0
    BY EmptySeq
  <2>3. Copied(g[k], k, t, s)
    BY <2>1, <2>2 DEF Copied
  <2>4. \A o \in 0..0 : o = 0
    OBVIOUS
  <2>5. Drops(g[k], g[k], 0)
    BY <2>1, <2>2 DEF Drops
  <2>6. Cuts(g, k, t, s)
    BY <2>1, <2>2, <2>4, <2>5 DEF Cuts
  <2>7. QED
    BY <2>1, <2>2, <2>3, <2>6 DEF Part
<1>4. N \in S
  <2>1. \A k \in N..N : k \in 1..N /\ k > Len(t)
    BY <1>1
  <2>2. QED
    BY <1>1, <1>3, <2>1
<1>5. ASSUME NEW m \in 2..N, m \in S PROVE m - 1 \in S
  <2> DEFINE k == m - 1
  <2>1. k \in 1..N /\ k + 1 \in m..N
    BY <1>1
  <2>2. \A j \in m..N : Part(g, j, t, s)
    BY <1>5
  <2>3. \A j \in k..N : j = k \/ j \in m..N
    BY <1>1
  <2>4. g[k] = Rest(g, k, t, s)
    BY <1>2, <2>1
  <2> HIDE DEF k
  <2>5. Part(g, k, t, s)
    <3>1. CASE k > Len(t)
      BY <1>3, <2>1, <3>1
    <3>2. CASE k <= Len(t) /\ Occurs(t, k, s)
      <4>1. k + Len(s) \in m..N /\ k + Len(s) \in 1..N
        BY <1>1, <2>1, <3>2 DEF k
      <4>2. Part(g, k + Len(s), t, s) /\ Mark \in Chars
        BY <2>2, <4>1 DEF Chars
      <4>3. g[k] = <<Mark>> \o g[k + Len(s)]
        <5>1. k \in Nat \ {0} /\ ~(k > Len(t))
          BY <1>1, <2>1, <3>2
        <5>2. k + Len(s) - 1 <= Len(t) /\ SubSeq(t, k, k + Len(s) - 1) = s
          BY <3>2, <5>1, WindowIs
        <5>3. QED
          BY <2>4, <5>1, <5>2 DEF Rest
      <4>4. Prefixed(g[k], Mark, g[k + Len(s)]) /\ Cuts(g, k, t, s)
        BY <2>1, <4>1, <4>2, <4>3, DropsBefore
      <4>5. Copied(g[k], k, t, s)
        <5>1. \A j \in 1..Len(g[k]) : 1 \in 1..j
          OBVIOUS
        <5>2. QED
          BY <4>4, <5>1 DEF Copied, Prefixed
      <4>6. QED
        BY <4>4, <4>5 DEF Part, Prefixed
    <3>3. CASE k <= Len(t) /\ ~Occurs(t, k, s)
      <4>1. Part(g, k + 1, t, s) /\ k + 1 \in 1..N
        BY <1>1, <2>1, <2>2
      <4>2. k \in 1..Len(t) /\ t[k] \in Chars
        BY <1>1, <2>1, <3>3, ElementOfSeq
      <4>3. g[k] = <<t[k]>> \o g[k + 1]
        <5>1. k \in Nat \ {0} /\ ~(k > Len(t))
          BY <1>1, <2>1, <3>3
        <5>2. ~(k + Len(s) - 1 <= Len(t) /\ SubSeq(t, k, k + Len(s) - 1) = s)
          BY <3>3, <5>1, WindowIs
        <5>3. QED
          BY <2>4, <5>1, <5>2 DEF Rest
      <4>4. Prefixed(g[k], t[k], g[k + 1]) /\ Cuts(g, k, t, s)
        BY <2>1, <4>1, <4>2, <4>3, DropsBefore
      <4>5. Copied(g[k], k, t, s)
        <5>1. SUFFICES ASSUME NEW j \in 1..Len(g[k]), \A i \in 1..j : g[k][i] # Mark
                       PROVE  /\ k + j - 1 <= Len(t)
                              /\ \A i \in 1..j : g[k][i] = t[k + i - 1] /\ ~Occurs(t, k + i - 1, s)
          BY DEF Copied
        <5>2. Len(g[k + 1]) \in Nat
          BY <4>1 DEF Part
        <5>3. g[k][1] = t[k + 1 - 1] /\ ~Occurs(t, k + 1 - 1, s)
          <6>1. k + 1 - 1 = k
            BY <2>1
          <6>2. QED
            BY <3>3, <4>4, <6>1 DEF Prefixed
        <5>4. CASE j = 1
          <6>1. \A i \in 1..j : i = 1
            BY <5>4
          <6>2. k + j - 1 <= Len(t)
            BY <4>2, <5>4
          <6>3. QED
            BY <5>3, <6>1, <6>2
        <5>5. CASE j # 1
          <6>1. j - 1 \in 1..Len(g[k + 1])
            BY <4>4, <5>2, <5>5 DEF Prefixed
          <6>2. ASSUME NEW i \in 1..(j - 1) PROVE g[k + 1][i] # Mark /\ g[k][i + 1] = g[k + 1][i]
            <7>1. i \in 1..Len(g[k + 1]) /\ i + 1 \in 1..j
              BY <5>2, <6>1
            <7>2. QED
              BY <4>4, <5>1, <7>1 DEF Prefixed
          <6>3. /\ (k + 1) + (j - 1) - 1 <= Len(t)
                /\ \A i \in 1..(j - 1) : g[k + 1][i] = t[(k + 1) + i - 1] /\ ~Occurs(t, (k + 1) + i - 1, s)
            BY <4>1, <6>1, <6>2 DEF Part, Copied
          <6>4. k + j - 1 <= Len(t)
            BY <2>1, <6>3
          <6>5. ASSUME NEW i \in 1..j PROVE g[k][i] = t[k + i - 1] /\ ~Occurs(t, k + i - 1, s)
            <7>1. CASE i = 1
              BY <5>3, <7>1
            <7>2. CASE i # 1
              <8>1. i - 1 \in 1..(j - 1) /\ (i - 1) + 1 = i /\ (k + 1) + (i - 1) - 1 = k + i - 1
                BY <2>1, <7>2
              <8>2. g[k][i] = g[k + 1][i - 1]
                BY <6>2, <8>1
              <8>3. g[k + 1][i - 1] = t[k + i - 1] /\ ~Occurs(t, k + i - 1, s)
                BY <6>3, <8>1
              <8>4. QED
                BY <8>2, <8>3
            <7>3. QED
              BY <7>1, <7>2
          <6>6. QED
            BY <6>4, <6>5
        <5>6. QED
          BY <5>4, <5>5
      <4>6. QED
        BY <4>4, <4>5 DEF Part, Prefixed
    <3>4. QED
      BY <1>1, <2>1, <3>1, <3>2, <3>3
  <2>6. \A j \in k..N : Part(g, j, t, s)
    BY <2>2, <2>3, <2>5
  <2>7. QED
    BY <2>1, <2>6 DEF k
<1> HIDE DEF N, S
<1>6. 1..N \subseteq S
  BY <1>1, <1>4, <1>5, DownFrom
<1>7. 1 \in S
  BY <1>1, <1>6
<1>8. QED
  BY <1>7 DEF S, N

\* Redacting s from a text leaves a text without s, and puts in nothing: what
\* stands in it now, marks aside, stood in it before.
LEMMA MaskedHides ==
  ASSUME NEW t \in Seq(Chars), NEW s \in Seq(Letters), s # <<>>
  PROVE  /\ Masked(t, s) \in Seq(Chars)
         /\ ~Includes(Masked(t, s), s)
         /\ \A u \in Seq(Letters) : u # <<>> /\ Includes(Masked(t, s), u) => Includes(t, u)
<1> DEFINE N == Len(t) + Len(s) + 1
           g == CHOOSE g : Masks(g, 1, t, s)
           p == Masked(t, s)
<1>1. s \in Seq(Chars) /\ \A u \in Seq(Letters) : u \in Seq(Chars)
  BY SeqMonotonic DEF Chars
<1>2. Masks(g, 1, t, s)
  BY <1>1, MaskedExists DEF Maskable
<1> HIDE DEF g
<1>3. \A k \in 1..N : Part(g, k, t, s)
  BY <1>1, <1>2, MaskedParts
<1>4. N \in Nat /\ 1 \in 1..N /\ Len(t) \in Nat
  BY <1>1, LenProperties
<1>5. p = g[1]
  BY MaskedIs DEF g
<1>6. p \in Seq(Chars) /\ Cuts(g, 1, t, s)
  BY <1>3, <1>4, <1>5 DEF Part
<1> HIDE DEF p
<1>7. ASSUME NEW u \in Seq(Letters), u # <<>>, Includes(p, u)
      PROVE  \E k \in 1..Len(t) : Occurs(t, k, u) /\ ~Occurs(t, k, s)
  <2>1. u \in Seq(Chars) /\ Len(u) \in Nat \ {0} /\ Len(p) \in Nat
    BY <1>1, <1>6, <1>7, EmptySeq
  <2>2. PICK i \in 1..Len(p) : Occurs(p, i, u)
    BY <1>6, <1>7, <2>1, IncludesIs
  <2>3. i - 1 \in 0..Len(p)
    BY <2>1
  <2>4. PICK k \in 1..N : Drops(g[k], p, i - 1)
    BY <1>5, <1>6, <2>3 DEF Cuts
  <2>5. /\ Len(g[k]) = Len(p) - (i - 1)
        /\ \A j \in 1..Len(g[k]) : g[k][j] = p[(i - 1) + j]
    BY <2>4 DEF Drops
  <2>6. i + Len(u) - 1 <= Len(p) /\ \A j \in 1..Len(u) : p[i + j - 1] = u[j]
    BY <2>2 DEF Occurs
  <2>7. Len(u) \in 1..Len(g[k])
    BY <2>1, <2>5, <2>6
  <2>8. ASSUME NEW j \in 1..Len(u) PROVE g[k][j] = u[j]
    <3>1. j \in 1..Len(g[k]) /\ (i - 1) + j = i + j - 1
      BY <2>1, <2>7
    <3>2. QED
      BY <2>5, <2>6, <3>1
  <2>9. \A j \in 1..Len(u) : u[j] # Mark
    BY CharacterAssumption, ElementOfSeq
  <2>10. /\ k + Len(u) - 1 <= Len(t)
         /\ \A j \in 1..Len(u) : g[k][j] = t[k + j - 1] /\ ~Occurs(t, k + j - 1, s)
    BY <1>3, <2>7, <2>8, <2>9 DEF Part, Copied
  <2>11. Occurs(t, k, u)
    BY <2>8, <2>10 DEF Occurs
  <2>12. 1 \in 1..Len(u) /\ k + 1 - 1 = k /\ k \in 1..Len(t)
    BY <1>4, <2>1, <2>10
  <2>13. ~Occurs(t, k, s)
    BY <2>10, <2>12
  <2>14. QED
    BY <2>11, <2>12, <2>13
<1>8. ~Includes(p, s)
  BY <1>7
<1>9. ASSUME NEW u \in Seq(Letters), u # <<>>, Includes(p, u) PROVE Includes(t, u)
  <2>1. PICK k \in 1..Len(t) : Occurs(t, k, u)
    BY <1>7, <1>9
  <2>2. u \in Seq(Chars)
    BY <1>1
  <2>3. QED
    BY <1>9, <2>1, <2>2, IncludesIs
<1>10. QED
  BY <1>6, <1>8, <1>9 DEF p

\* The recursion of redactSecrets.
RedactIter(t, values) ==
  CHOOSE g : g = [s \in SUBSET DOMAIN values |->
                    IF s = {} THEN t ELSE Masked(g[s \ {Max(s)}], values[Max(s)])]

LEMMA RedactIsIter ==
  ASSUME NEW t, NEW values
  PROVE  redactSecrets(t, values) = RedactIter(t, values)[DOMAIN values]
BY DEF redactSecrets, FoldLeft, MapThenFoldSet, RedactIter

\* st[k] is t after the first k redactions.
Redacts(st, t, values) ==
  /\ st[0] = t
  /\ \A k \in 1..Len(values) : st[k] = Masked(st[k - 1], values[k])
  /\ redactSecrets(t, values) = st[Len(values)]

LEMMA RedactsExists ==
  ASSUME NEW t \in Seq(Chars), NEW values \in Seq(Seq(Letters) \ {<<>>})
  PROVE  \E st : Redacts(st, t, values)
<1> DEFINE n == Len(values)
           step == [p \in Seq(Chars) \X (1..n) |-> Masked(p[1], values[p[2]])]
           G == RedactIter(t, values)
           st == [k \in 0..n |-> G[1..k]]
<1>1. n \in Nat /\ DOMAIN values = 1..n
  BY LenProperties
<1>2. \A k \in 1..n : values[k] \in Seq(Letters) \ {<<>>}
  BY ElementOfSeq
<1> HIDE DEF n
<1>3. \A acc \in Seq(Chars), k \in 1..n : Masked(acc, values[k]) \in Seq(Chars)
  BY <1>2, MaskedHides
<1>4. step \in [Seq(Chars) \X (1..n) -> Seq(Chars)]
  BY <1>3
<1>5. \A acc \in Seq(Chars), k \in 1..n : step[<<acc, k>>] = Masked(acc, values[k])
  OBVIOUS
<1> HIDE DEF step
<1>6. PICK h \in [SUBSET (1..n) -> Seq(Chars)] : FoldsBy(h, n, t, step)
  BY <1>1, <1>4, FoldsByExists DEF Foldable
<1>7. \A s \in SUBSET (1..n) : s # {} => Max(s) \in 1..n
  BY <1>1, MaxInside
<1>8. \A s \in SUBSET (1..n) : h[s] = IF s = {} THEN t ELSE Masked(h[s \ {Max(s)}], values[Max(s)])
  BY <1>5, <1>6, <1>7 DEF FoldsBy
<1>9. G = [s \in SUBSET (1..n) |-> IF s = {} THEN t ELSE Masked(G[s \ {Max(s)}], values[Max(s)])]
  <2>1. h = [s \in SUBSET (1..n) |-> h[s]]
    OBVIOUS
  <2>2. h = [s \in SUBSET (1..n) |-> IF s = {} THEN t ELSE Masked(h[s \ {Max(s)}], values[Max(s)])]
    BY <1>8, <2>1
  <2>3. QED
    BY <1>1, <2>2 DEF RedactIter
<1> HIDE DEF G
<1>10. \A k \in 0..n : st[k] = G[1..k]
  OBVIOUS
<1>11. st[0] = t
  <2>1. 1..0 = {} /\ 1..0 \in SUBSET (1..n) /\ 0 \in 0..n
    BY <1>1
  <2>2. QED
    BY <1>9, <1>10, <2>1
<1>12. ASSUME NEW k \in 1..n PROVE st[k] = Masked(st[k - 1], values[k])
  <2>1. 1..k \in SUBSET (1..n) /\ 1..k # {} /\ Max(1..k) = k /\ (1..k) \ {k} = 1..(k - 1)
    BY <1>1, FirstIndices
  <2>2. G[1..k] = Masked(G[1..(k - 1)], values[k])
    BY <1>9, <2>1
  <2>3. k \in 0..n /\ k - 1 \in 0..n
    BY <1>1
  <2>4. QED
    BY <1>10, <2>2, <2>3
<1>13. redactSecrets(t, values) = st[n]
  BY <1>1, <1>10, RedactIsIter DEF G
<1> HIDE DEF st
<1>14. Redacts(st, t, values)
  BY <1>11, <1>12, <1>13 DEF Redacts, n
<1>15. QED
  BY <1>14

\* p is a text without the first k of the values.
Without(p, values, k) == p \in Seq(Chars) /\ \A i \in 1..k : ~Includes(p, values[i])

\* What redactSecrets returns holds none of the values, in whatever order they
\* were replaced: a later replacement brings no earlier secret back.
LEMMA RedactHides ==
  ASSUME NEW t \in Seq(Chars), NEW values \in Seq(Seq(Letters) \ {<<>>})
  PROVE  Without(redactSecrets(t, values), values, Len(values))
<1> DEFINE n == Len(values)
<1>1. n \in Nat /\ \A k \in 1..n : values[k] \in Seq(Letters) /\ values[k] # <<>>
  BY LenProperties, ElementOfSeq
<1>2. PICK st : Redacts(st, t, values)
  BY RedactsExists
<1> HIDE DEF n
<1>3. st[0] = t /\ \A k \in 1..n : st[k] = Masked(st[k - 1], values[k])
  BY <1>2 DEF Redacts, n
<1> DEFINE S == {k \in 0..n : Without(st[k], values, k)}
<1>4. 0 \in S
  <2>1. Without(st[0], values, 0)
    BY <1>3 DEF Without
  <2>2. QED
    BY <1>1, <2>1
<1>5. ASSUME NEW k \in 0..n, k < n, k \in S PROVE k + 1 \in S
  <2>1. k + 1 \in 1..n /\ (k + 1) - 1 = k /\ \A i \in 1..(k + 1) : i = k + 1 \/ i \in 1..k
    BY <1>1, <1>5
  <2>2. st[k] \in Seq(Chars) /\ \A i \in 1..k : ~Includes(st[k], values[i])
    BY <1>5 DEF Without
  <2>3. st[k + 1] = Masked(st[k], values[k + 1])
    BY <1>3, <2>1
  <2>4. /\ st[k + 1] \in Seq(Chars) /\ ~Includes(st[k + 1], values[k + 1])
        /\ \A u \in Seq(Letters) : u # <<>> /\ Includes(st[k + 1], u) => Includes(st[k], u)
    BY <1>1, <2>1, <2>2, <2>3, MaskedHides
  <2>5. ASSUME NEW i \in 1..k PROVE ~Includes(st[k + 1], values[i])
    <3>1. i \in 1..n
      BY <1>1, <1>5
    <3>2. QED
      BY <1>1, <2>2, <2>4, <3>1
  <2>6. Without(st[k + 1], values, k + 1)
    BY <2>1, <2>4, <2>5 DEF Without
  <2>7. QED
    BY <2>1, <2>6
<1> HIDE DEF S
<1>6. 0..n \subseteq S
  BY <1>1, <1>4, <1>5, UpTo
<1>7. n \in S
  BY <1>1, <1>6
<1>8. Without(st[n], values, n)
  BY <1>7 DEF S
<1>9. QED
  BY <1>2, <1>8 DEF Redacts, n

------------------------------------------------------------------------------
(* The command that is run.                                                 *)

\* f concatenates the first k of seqs.
Flattens(f, k, seqs) == f = [i \in 1..k |-> IF i = 1 THEN seqs[i] ELSE f[i - 1] \o seqs[i]]

Flattenable(k, seqs) == \E f : Flattens(f, k, seqs)

LEMMA FlattenIs ==
  ASSUME NEW seqs, Len(seqs) # 0
  PROVE  FlattenSeq(seqs) = (CHOOSE f : Flattens(f, Len(seqs), seqs))[Len(seqs)]
BY DEF FlattenSeq, Flattens

LEMMA FlattensNext ==
  ASSUME NEW seqs, NEW k \in Nat, NEW f, Flattens(f, k, seqs)
  PROVE  Flattenable(k + 1, seqs)
<1> DEFINE g == [i \in 1..(k + 1) |-> IF i \in 1..k THEN f[i]
                                      ELSE IF i = 1 THEN seqs[i] ELSE f[i - 1] \o seqs[i]]
<1>1. \A i \in 1..k : g[i] = f[i]
  OBVIOUS
<1>2. ASSUME NEW i \in 1..(k + 1) PROVE g[i] = IF i = 1 THEN seqs[i] ELSE g[i - 1] \o seqs[i]
  <2>1. i # 1 => i - 1 \in 1..k
    OBVIOUS
  <2>2. i # 1 => g[i - 1] = f[i - 1]
    BY <1>1, <2>1
  <2>3. g[i] = IF i \in 1..k THEN f[i] ELSE IF i = 1 THEN seqs[i] ELSE f[i - 1] \o seqs[i]
    OBVIOUS
  <2>4. i \in 1..k => f[i] = IF i = 1 THEN seqs[i] ELSE f[i - 1] \o seqs[i]
    BY DEF Flattens
  <2> HIDE DEF g
  <2>5. QED
    BY <2>2, <2>3, <2>4
<1>3. g = [i \in 1..(k + 1) |-> g[i]]
  OBVIOUS
<1> HIDE DEF g
<1>4. Flattens(g, k + 1, seqs)
  BY <1>2, <1>3 DEF Flattens
<1>5. QED
  BY <1>4 DEF Flattenable

LEMMA FlattenExists ==
  ASSUME NEW seqs, NEW n \in Nat
  PROVE  Flattenable(n, seqs)
<1> DEFINE S == {k \in 0..n : Flattenable(k, seqs)}
<1>1. 0 \in S
  <2> DEFINE f == [i \in 1..0 |-> <<>>]
  <2>1. \A i \in 1..0 : FALSE
    OBVIOUS
  <2>2. Flattens(f, 0, seqs)
    BY <2>1 DEF Flattens
  <2> HIDE DEF f
  <2>3. Flattenable(0, seqs)
    BY <2>2 DEF Flattenable
  <2>4. QED
    BY <2>3
<1>2. ASSUME NEW k \in 0..n, k < n, k \in S PROVE k + 1 \in S
  <2>1. PICK f : Flattens(f, k, seqs)
    BY <1>2 DEF Flattenable
  <2>2. Flattenable(k + 1, seqs)
    BY <2>1, FlattensNext
  <2>3. QED
    BY <1>2, <2>2
<1> HIDE DEF S
<1>3. 0..n \subseteq S
  BY <1>1, <1>2, UpTo
<1>4. n \in S
  BY <1>3
<1>5. QED
  BY <1>4 DEF S

\* Texts put together are a text.
LEMMA FlattenType ==
  ASSUME NEW C, NEW seqs \in Seq(Seq(C))
  PROVE  FlattenSeq(seqs) \in Seq(C)
<1> DEFINE n == Len(seqs)
           f == CHOOSE f : Flattens(f, n, seqs)
<1>1. n \in Nat /\ \A i \in 1..n : seqs[i] \in Seq(C)
  BY LenProperties, ElementOfSeq
<1>2. CASE n = 0
  <2>1. seqs = <<>>
    BY <1>2, EmptySeq
  <2>2. FlattenSeq(seqs) = <<>>
    BY <1>2, <2>1 DEF FlattenSeq
  <2>3. QED
    BY <2>2, EmptySeq
<1>3. CASE n # 0
  <2>1. FlattenSeq(seqs) = f[n]
    BY <1>3, FlattenIs
  <2>2. Flattens(f, n, seqs)
    BY <1>1, FlattenExists DEF Flattenable
  <2> HIDE DEF f, n
  <2> DEFINE S == {k \in 0..n : k = 0 \/ f[k] \in Seq(C)}
  <2>3. 0 \in S
    BY <1>1
  <2>4. ASSUME NEW k \in 0..n, k < n, k \in S PROVE k + 1 \in S
    <3>1. k + 1 \in 1..n /\ (k + 1) - 1 = k /\ (k + 1 = 1 <=> k = 0)
      BY <1>1, <2>4
    <3>2. f[k + 1] = IF k = 0 THEN seqs[k + 1] ELSE f[k] \o seqs[k + 1]
      BY <2>2, <3>1 DEF Flattens
    <3>3. seqs[k + 1] \in Seq(C) /\ (k = 0 \/ f[k] \in Seq(C))
      BY <1>1, <2>4, <3>1
    <3>4. f[k + 1] \in Seq(C)
      BY <3>2, <3>3, ConcatProperties
    <3>5. QED
      BY <3>1, <3>4
  <2> HIDE DEF S
  <2>5. 0..n \subseteq S
    BY <1>1, <2>3, <2>4, UpTo
  <2>6. n \in S
    BY <1>1, <2>5
  <2>7. QED
    BY <1>3, <2>1, <2>6 DEF S, n
<1>4. QED
  BY <1>2, <1>3

\* A command whose placeholders are all held becomes text.
LEMMA ResolvedType ==
  ASSUME NEW t \in Seq(Letters \cup Names), NEW vault \in [Names -> {Absent} \cup Seq(Letters)],
         ~Unresolved(t, vault)
  PROVE  resolvePlaceholders(t, vault) \in Seq(Letters)
<1> DEFINE seqs == [i \in DOMAIN t |-> IF t[i] \in Names THEN vault[t[i]] ELSE <<t[i]>>]
<1>1. Len(t) \in Nat /\ DOMAIN t = 1..Len(t)
  BY LenProperties
<1>2. ASSUME NEW i \in DOMAIN t PROVE seqs[i] \in Seq(Letters)
  <2>1. t[i] \in Letters \cup Names
    BY <1>1, ElementOfSeq
  <2>2. CASE t[i] \in Names
    <3>1. vault[t[i]] # Absent
      BY <2>2 DEF Unresolved
    <3>2. vault[t[i]] \in Seq(Letters)
      BY <2>2, <3>1
    <3>3. QED
      BY <2>2, <3>2
  <2>3. CASE t[i] \notin Names
    BY <2>1, <2>3
  <2>4. QED
    BY <2>2, <2>3
<1>3. seqs \in [1..Len(t) -> Seq(Letters)]
  BY <1>1, <1>2
<1> HIDE DEF seqs
<1>4. seqs \in Seq(Seq(Letters))
  BY <1>1, <1>3, IsASeq
<1>5. FlattenSeq(seqs) \in Seq(Letters)
  BY <1>4, FlattenType
<1>6. QED
  BY <1>5 DEF resolvePlaceholders, seqs

------------------------------------------------------------------------------
(* The invariant.                                                           *)

LEMMA InitIInv == Init => IInv
<1> SUFFICES ASSUME Init PROVE IInv
  OBVIOUS
<1>1. CommandResolved
  BY DEF Init, CommandResolved
<1>2. JournalHoldsNoSecret /\ DeliveredHoldsNoUsedSecret
  BY DEF Init, JournalHoldsNoSecret, DeliveredHoldsNoUsedSecret
<1>3. QED
  BY <1>1, <1>2 DEF Init, IInv

\* What the screen lets through holds no secret.
LEMMA ScreenKeeps ==
  ASSUME NEW t, NEW follows, AppendScreened(t, follows), call' = call, JournalHoldsNoSecret
  PROVE  JournalHoldsNoSecret'
<1>1. CASE assertNoSecretValues(t, VaultValues(call.vault))
  <2>1. journal' = journal \cup {t}
    BY <1>1 DEF AppendScreened
  <2> QED BY <1>1, <2>1 DEF assertNoSecretValues, JournalHoldsNoSecret
<1>2. CASE ~assertNoSecretValues(t, VaultValues(call.vault))
  <2>1. UNCHANGED journal
    BY <1>2 DEF AppendScreened
  <2> QED BY <2>1 DEF JournalHoldsNoSecret
<1> QED BY <1>1, <1>2

\* What redaction leaves of a text holds no secret the command uses.
LEMMA RedactedHoldsNoUsedSecret ==
  ASSUME NEW c \in Scenarios, ~Unresolved(c.command, c.vault), NEW out \in Seq(Letters),
         NEW i \in DOMAIN c.command, c.command[i] \in Names, c.vault[c.command[i]] # <<>>
  PROVE  ~Includes(redactSecrets(out, resolvedSecretValues(c.command, c.vault)),
                   c.vault[c.command[i]])
<1> DEFINE values == resolvedSecretValues(c.command, c.vault)
           v == c.vault[c.command[i]]
<1>1. c.command \in Seq(Letters \cup Names) /\ c.vault \in [Names -> {Absent} \cup Seq(Letters)]
  BY TextAssumption
<1>2. v \notin {Absent, <<>>}
  BY DEF Unresolved
<1>3. values \in Seq(Secrets) /\ Contains(values, v)
  BY <1>1, <1>2, UsedSecretsFound
<1> HIDE DEF values, v
<1>4. out \in Seq(Chars) /\ values \in Seq(Seq(Letters) \ {<<>>})
  <2>1. Letters \subseteq Chars /\ Secrets \subseteq Seq(Letters) \ {<<>>}
    BY DEF Chars, Secrets
  <2>2. QED
    BY <1>3, <2>1, SeqMonotonic
<1>5. \A j \in 1..Len(values) : ~Includes(redactSecrets(out, values), values[j])
  BY <1>4, RedactHides DEF Without
<1>6. PICK j \in 1..Len(values) : values[j] = v
  BY <1>3 DEF Contains
<1>7. ~Includes(redactSecrets(out, values), v)
  BY <1>5, <1>6
<1>8. QED
  BY <1>7 DEF values, v

\* A result that is delivered was redacted; one that is not leaves it alone.
LEMMA ResultKeeps ==
  ASSUME IInv, Result
  PROVE  DeliveredHoldsNoUsedSecret'
<1>1. call' = call /\ pc = "executing"
  BY DEF Result
<1>2. PICK out \in {argv} \cup UNION {[1..k -> Letters] : k \in 0..MaxOutput} :
        LET safe == redactSecrets(out, resolvedSecretValues(call.command, call.vault))
        IN AppendScreened(findPlaceholders(call.command), delivered' = safe /\ pc' = "done")
           /\ (pc' = "threw" => UNCHANGED delivered)
  BY DEF Result
<1>3. \/ delivered' = redactSecrets(out, resolvedSecretValues(call.command, call.vault))
      \/ delivered' = delivered
  BY <1>2 DEF AppendScreened
<1>4. CASE delivered' = delivered
  BY <1>1, <1>4 DEF IInv, DeliveredHoldsNoUsedSecret
<1>5. CASE delivered' = redactSecrets(out, resolvedSecretValues(call.command, call.vault))
  <2>1. ~Unresolved(call.command, call.vault) /\ call \in Scenarios
    BY <1>1 DEF IInv, CommandResolved
  <2>2. call.command \in Seq(Letters \cup Names) /\ call.vault \in [Names -> {Absent} \cup Seq(Letters)]
    BY <2>1, TextAssumption
  <2>3. argv \in Seq(Letters)
    BY <1>1, <2>1, <2>2, ResolvedType DEF IInv, CommandResolved
  <2>4. \A k \in 0..MaxOutput : [1..k -> Letters] \subseteq Seq(Letters)
    <3> TAKE k \in 0..MaxOutput
    <3>1. k \in Nat
      OBVIOUS
    <3>2. \A f \in [1..k -> Letters] : f \in Seq(Letters)
      BY <3>1, IsASeq
    <3>3. QED
      BY <3>2
  <2>5. out \in Seq(Letters)
    BY <1>2, <2>3, <2>4
  <2>6. \A i \in DOMAIN call.command : call.command[i] \in Names =>
          call.vault[call.command[i]] = <<>> \/ ~Includes(delivered', call.vault[call.command[i]])
    BY <1>5, <2>1, <2>5, RedactedHoldsNoUsedSecret
  <2>7. QED
    BY <1>1, <2>6 DEF DeliveredHoldsNoUsedSecret
<1>6. QED
  BY <1>3, <1>4, <1>5

LEMMA NextIInv == IInv /\ [Next]_vars => IInv'
<1> SUFFICES ASSUME IInv, [Next]_vars PROVE IInv'
  OBVIOUS
<1> USE DEF IInv
<1>1. CASE Evaluate
  <2>1. /\ call' = call /\ policyVerdict' = evaluate(call.rules, call.tool, call.actor)
        /\ delivered' = delivered /\ pc' # "executing"
    BY <1>1 DEF Evaluate, AppendScreened
  <2>2. JournalHoldsNoSecret'
    BY <1>1, <2>1, ScreenKeeps DEF Evaluate
  <2>3. CommandResolved' /\ DeliveredHoldsNoUsedSecret'
    BY <2>1 DEF CommandResolved, DeliveredHoldsNoUsedSecret
  <2> QED BY <2>1, <2>2, <2>3
<1>2. CASE Answer
  <2>1. /\ UNCHANGED <<call, policyVerdict, journal, delivered>> /\ pc' # "executing"
    BY <1>2 DEF Answer
  <2> QED BY <2>1 DEF JournalHoldsNoSecret, CommandResolved, DeliveredHoldsNoUsedSecret
<1>3. CASE Exec
  <2>1. /\ UNCHANGED <<call, policyVerdict, journal, delivered>>
        /\ pc' = "executing" => /\ ~Unresolved(call.command, call.vault)
                                /\ argv' = resolvePlaceholders(call.command, call.vault)
    BY <1>3 DEF Exec
  <2>2. CommandResolved'
    BY <2>1 DEF CommandResolved
  <2> QED BY <2>1, <2>2 DEF JournalHoldsNoSecret, DeliveredHoldsNoUsedSecret
<1>4. CASE Result
  <2>1. call' = call /\ policyVerdict' = policyVerdict /\ pc' # "executing"
    BY <1>4 DEF Result, AppendScreened
  <2>2. JournalHoldsNoSecret'
    BY <1>4, <2>1, ScreenKeeps DEF Result
  <2>3. DeliveredHoldsNoUsedSecret'
    BY <1>4, ResultKeeps
  <2>4. CommandResolved'
    BY <2>1 DEF CommandResolved
  <2> QED BY <2>1, <2>2, <2>3, <2>4
<1>5. CASE UNCHANGED vars
  BY <1>5 DEF vars, JournalHoldsNoSecret, CommandResolved, DeliveredHoldsNoUsedSecret
<1> QED BY <1>1, <1>2, <1>3, <1>4, <1>5 DEF Next

\* Every verdict the state holds is evaluate's of the call.
LEMMA SpecIInv == Spec => []IInv
BY InitIInv, NextIInv, PTL DEF Spec

------------------------------------------------------------------------------
(* The theorems.                                                            *)

LEMMA IInvStrictestWins == IInv => StrictestWins
<1> SUFFICES ASSUME IInv, policyVerdict # NoVerdict
             PROVE  StrictestWins
  BY DEF StrictestWins
<1>1. call.rules \in Seq(Rules)
  BY RulesAssumption DEF IInv
<1>2. policyVerdict = evaluate(call.rules, call.tool, call.actor)
  BY DEF IInv
<1>3. \A i \in DOMAIN call.rules : matches(call.rules[i], call.tool, call.actor) =>
        RESTRICTIVENESS[call.rules[i].effect] <= RESTRICTIVENESS[policyVerdict.decision]
  BY <1>1, <1>2, EvaluateStrictest
<1>4. evaluate(Reverse(call.rules), call.tool, call.actor).decision = policyVerdict.decision
  BY <1>1, <1>2, OrderIsIrrelevant
<1>5. policyVerdict.ruleId = 0 => policyVerdict.decision = "deny"
  BY <1>1, <1>2, EvaluateStrictest, RuleFields
<1> QED BY <1>3, <1>4, <1>5 DEF StrictestWins

\* For every policy and every call, the verdict of the daemon is as strict as
\* the strictest matching rule, whatever the order of the rules, and a call no
\* rule matches is denied (engine.ts, evaluate).
THEOREM SpecStrictestWins == Spec => []StrictestWins
BY SpecIInv, IInvStrictestWins, PTL

LEMMA IInvLint == IInv => LintSeesDangerousAllow
<1> SUFFICES ASSUME IInv, policyVerdict.decision = "allow", call.tool \in Dangerous
             PROVE  policyVerdict.ruleId \in detectBroadAutoApprove(call.rules)
  BY DEF LintSeesDangerousAllow
<1>1. call.rules \in Seq(Rules)
  BY RulesAssumption DEF IInv
<1>2. policyVerdict = evaluate(call.rules, call.tool, call.actor)
  BY DEF IInv, NoVerdict
<1> QED BY <1>1, <1>2, AllowIsLinted

\* A rule that lets a dangerous tool run with nobody asked is one the linter
\* warns of, in every policy (dangerous.ts, detectBroadAutoApprove).
THEOREM SpecLintSeesDangerousAllow == Spec => []LintSeesDangerousAllow
BY SpecIInv, IInvLint, PTL

\* Whatever vault, command and tool name, the journal holds no secret of the
\* vault (run.ts hands the journal the screen of credentials.ts).
THEOREM SpecJournalHoldsNoSecret == Spec => []JournalHoldsNoSecret
<1>1. IInv => JournalHoldsNoSecret
  BY DEF IInv
<1> QED BY <1>1, SpecIInv, PTL

\* Whatever the tool prints and however the secrets of the vault overlap, the
\* output that leaves Daemon.mediate holds none that the command used
\* (credentials.ts, redactSecrets).
THEOREM SpecDeliveredHoldsNoUsedSecret == Spec => []DeliveredHoldsNoUsedSecret
<1>1. IInv => DeliveredHoldsNoUsedSecret
  BY DEF IInv
<1> QED BY <1>1, SpecIInv, PTL

------------------------------------------------------------------------------
(* Gateway.  The dispatch of a chunk, unfolded.                             *)

\* A fold's recursion over the index sets of a sequence.
Iter(x, s0, fs) ==
  CHOOSE g : g = [s \in SUBSET DOMAIN fs |->
                    IF s = {} THEN s0
                    ELSE Dispatch(g[s \ {Max(s)}], x, fs[Max(s)])]

LEMMA FoldIsIter ==
  ASSUME NEW x, NEW s0, NEW fs
  PROVE  DispatchAll(s0, x, fs) = Iter(x, s0, fs)[DOMAIN fs]
  BY DEF DispatchAll, FoldLeft, MapThenFoldSet, Iter

\* g computes the fold on the index sets within 1..k.
Computes(g, k, x, s0, fs) ==
  g = [s \in SUBSET (1..k) |->
         IF s = {} THEN s0 ELSE Dispatch(g[s \ {Max(s)}], x, fs[Max(s)])]

LEMMA ComputesNext ==
  ASSUME NEW x, NEW s0, NEW fs, NEW k \in Nat, NEW g, Computes(g, k, x, s0, fs)
  PROVE  \E g2 : Computes(g2, k + 1, x, s0, fs)
<1> DEFINE g2 == [s \in SUBSET (1..(k + 1)) |->
                   IF k + 1 \in s THEN Dispatch(g[s \ {k + 1}], x, fs[k + 1]) ELSE g[s]]
           Value(s) == IF s = {} THEN s0 ELSE Dispatch(g2[s \ {Max(s)}], x, fs[Max(s)])
<1>1. ASSUME NEW s \in SUBSET (1..(k + 1))
      PROVE  g2[s] = Value(s)
  <2>1. CASE k + 1 \in s
    <3>1. Max(s) = k + 1
      <4>1. k + 1 \in Int /\ \A y \in s : y \in Int /\ y <= k + 1
        OBVIOUS
      <4>2. QED
        BY <2>1, <4>1, MaxIs
    <3>2. s \ {k + 1} \in SUBSET (1..(k + 1)) /\ k + 1 \notin s \ {k + 1}
      OBVIOUS
    <3>3. g2[s \ {k + 1}] = g[s \ {k + 1}]
      BY <3>2
    <3>4. g2[s] = Dispatch(g[s \ {k + 1}], x, fs[k + 1])
      BY <2>1
    <3>5. s # {}
      BY <2>1
    <3> HIDE DEF g2
    <3>6. QED
      BY <3>1, <3>3, <3>4, <3>5
  <2>2. CASE k + 1 \notin s
    <3>1. s \in SUBSET (1..k) /\ s \ {Max(s)} \in SUBSET (1..(k + 1)) /\ k + 1 \notin s \ {Max(s)}
      <4>1. \A y \in s : y \in 1..k
        BY <2>2
      <4>2. s \in SUBSET (1..k) /\ \A m : s \ {m} \in SUBSET (1..(k + 1))
        BY <4>1
      <4>3. QED
        BY <2>2, <4>2
    <3>2. g2[s] = g[s] /\ g2[s \ {Max(s)}] = g[s \ {Max(s)}]
      BY <2>2, <3>1
    <3>3. g[s] = IF s = {} THEN s0 ELSE Dispatch(g[s \ {Max(s)}], x, fs[Max(s)])
      BY <3>1 DEF Computes
    <3> HIDE DEF g2
    <3>4. QED
      BY <3>2, <3>3
  <2>3. QED
    BY <2>1, <2>2
<1>2. g2 = [s \in SUBSET (1..(k + 1)) |-> g2[s]]
  OBVIOUS
<1> HIDE DEF g2
<1>3. g2 = [s \in SUBSET (1..(k + 1)) |-> Value(s)]
  <2> HIDE DEF Value
  <2>1. QED
    BY <1>1, <1>2
<1>4. Computes(g2, k + 1, x, s0, fs)
  BY <1>3 DEF Computes
<1>5. QED
  BY <1>4

LEMMA FoldExists ==
  ASSUME NEW x, NEW s0, NEW fs, NEW n \in Nat
  PROVE  \E g : Computes(g, n, x, s0, fs)
<1> DEFINE S == {k \in Nat : \E g : Computes(g, k, x, s0, fs)}
<1>1. 0 \in S
  <2> DEFINE g == [s \in SUBSET (1..0) |-> s0]
  <2>1. 1..0 = {}
    OBVIOUS
  <2>2. Computes(g, 0, x, s0, fs)
    BY <2>1 DEF Computes
  <2>3. QED
    BY <2>2
<1>2. \A k \in 0..n : k < n /\ k \in S => k + 1 \in S
  BY ComputesNext
<1> HIDE DEF S
<1>3. 0..n \subseteq S
  BY <1>1, <1>2, UpTo
<1>4. n \in S
  BY <1>3
<1>5. QED
  BY <1>4 DEF S

\* st[k] is the server after k frames.
Unfolds(st, s0, x, fs) ==
  /\ st[0] = s0
  /\ \A k \in 1..Len(fs) : st[k] = Dispatch(st[k - 1], x, fs[k])
  /\ DispatchAll(s0, x, fs) = st[Len(fs)]

\* A chunk is dispatched frame by frame.
LEMMA FoldSteps ==
  ASSUME NEW fs \in Seq(Frame), NEW x, NEW s0
  PROVE  \E st : Unfolds(st, s0, x, fs)
<1> DEFINE n == Len(fs)
           G == Iter(x, s0, fs)
           st == [k \in 0..n |-> G[1..k]]
<1>1. n \in Nat /\ DOMAIN fs = 1..n
  BY LenProperties
<1> HIDE DEF n
<1>2. Computes(G, n, x, s0, fs)
  <2>1. \E g : Computes(g, n, x, s0, fs)
    BY <1>1, FoldExists
  <2>2. QED
    BY <1>1, <2>1 DEF Iter, Computes
<1> HIDE DEF G
<1>3. \A s \in SUBSET (1..n) : G[s] = IF s = {} THEN s0 ELSE Dispatch(G[s \ {Max(s)}], x, fs[Max(s)])
  BY <1>2 DEF Computes
<1>4. st[0] = s0
  <2>1. 1..0 = {} /\ 1..0 \in SUBSET (1..n) /\ 0 \in 0..n
    BY <1>1
  <2>2. QED
    BY <1>3, <2>1
<1>5. ASSUME NEW k \in 1..n
      PROVE  st[k] = Dispatch(st[k - 1], x, fs[k])
  <2>1. /\ 1..k \in SUBSET (1..n) /\ k \in 1..k /\ k \in 0..n /\ k - 1 \in 0..n
        /\ (1..k) \ {k} = 1..(k - 1)
    BY <1>1
  <2>2. Max(1..k) = k
    <3>1. k \in Int /\ \A y \in 1..k : y \in Int /\ y <= k
      BY <1>1
    <3>2. QED
      BY <2>1, <3>1, MaxIs
  <2>3. G[1..k] = Dispatch(G[1..(k - 1)], x, fs[k])
    BY <1>3, <2>1, <2>2
  <2>4. QED
    BY <2>1, <2>3
<1>6. DispatchAll(s0, x, fs) = st[n]
  BY <1>1, FoldIsIter DEF G
<1> HIDE DEF st
<1>7. Unfolds(st, s0, x, fs)
  BY <1>4, <1>5, <1>6 DEF n, Unfolds
<1>8. QED
  BY <1>7

------------------------------------------------------------------------------
(* The server.                                                              *)

Servers ==
  [processed : SUBSET Calls, pending : SUBSET Calls, asker : [Calls -> Conns \cup {NoCall}],
   gate : [Calls -> {"none", "asked", "allow", "deny", "threw"}],
   down : [Conns -> Seq(Reply)]]

\* A verdict that allows is the gate's, and on its way to the one who asked.
Honest(s, x, m) ==
  m.kind = "verdict" /\ m.allow =>
    m.id \in Calls /\ s.gate[m.id] = "allow" /\ s.asker[m.id] = x

ServerOK(s) ==
  /\ s \in Servers
  /\ \A c \in Calls : s.gate[c] # "none" => c \in s.processed
  /\ \A c \in s.pending : c \in s.processed /\ s.asker[c] \in Conns
  /\ \A x \in Conns : \A i \in 1..Len(s.down[x]) : Honest(s, x, s.down[x][i])

\* What was put to the gate is not put to it again.
Follows(s, t) ==
  \A c \in Calls : s.gate[c] # "none" => t.gate[c] = s.gate[c] /\ t.asker[c] = s.asker[c]

Server ==
  [processed |-> processed, pending |-> pending, asker |-> asker, gate |-> gate, down |-> down]

LEMMA Replies ==
  /\ \A c \in Calls \cup {NoCall} : errorMessage(c) \in Reply /\ errorMessage(c).kind # "verdict"
  /\ \A c \in Calls, b \in BOOLEAN : /\ VerdictMessage(c, b) \in Reply
                                     /\ VerdictMessage(c, b).id = c
                                     /\ VerdictMessage(c, b).allow = b
  BY DEF errorMessage, VerdictMessage, Reply

LEMMA FrameFields ==
  ASSUME NEW f \in Frame
  PROVE  /\ f.id \in Calls \cup {NoCall}
         /\ f.kind = "request" => f.id \in Calls
  BY DEF Frame

\* b holds what a held, and perhaps m on connection x.
AddsTo(a, b, x, m) ==
  \A y \in Conns : \A i \in 1..Len(b[y]) :
    \/ i \in 1..Len(a[y]) /\ b[y][i] = a[y][i]
    \/ y = x /\ b[y][i] = m

\* One more message on a connection.
LEMMA WrittenIs ==
  ASSUME NEW d \in [Conns -> Seq(Reply)], NEW x \in Conns, NEW m \in Reply
  PROVE  Written(d, x, m) \in [Conns -> Seq(Reply)] /\ AddsTo(d, Written(d, x, m), x, m)
<1> DEFINE t == Append(d[x], m)
<1>1. /\ t \in Seq(Reply) /\ Len(t) = Len(d[x]) + 1
      /\ \A i \in 1..Len(d[x]) : t[i] = d[x][i]
      /\ t[Len(d[x]) + 1] = m
  BY AppendProperties
<1>2. Len(d[x]) \in Nat
  BY LenProperties
<1>3. Written(d, x, m) = d \/ Written(d, x, m) = [d EXCEPT ![x] = t]
  BY DEF Written
<1> HIDE DEF t
<1>4. CASE Written(d, x, m) = d
  BY <1>4 DEF AddsTo
<1>5. CASE Written(d, x, m) = [d EXCEPT ![x] = t]
  <2> DEFINE w == Written(d, x, m)
  <2>1. w[x] = t /\ \A y \in Conns \ {x} : w[y] = d[y]
    BY <1>5
  <2>2. w \in [Conns -> Seq(Reply)]
    BY <1>1, <1>5
  <2> HIDE DEF w
  <2>3. \A i \in 1..Len(t) : i \in 1..Len(d[x]) \/ i = Len(d[x]) + 1
    BY <1>1, <1>2
  <2>4. \A y \in Conns : \A i \in 1..Len(w[y]) :
          \/ i \in 1..Len(d[y]) /\ w[y][i] = d[y][i]
          \/ y = x /\ w[y][i] = m
    BY <1>1, <2>1, <2>3
  <2>5. AddsTo(d, w, x, m)
    BY <2>4 DEF AddsTo
  <2>6. QED
    BY <2>2, <2>5 DEF w
<1>6. QED
  BY <1>3, <1>4, <1>5

\* What t has written and not yet been read is honest, or s had written it.
Speaks(s, t) ==
  \A y \in Conns : \A i \in 1..Len(t.down[y]) :
    \/ Honest(t, y, t.down[y][i])
    \/ \E j \in 1..Len(s.down[y]) : t.down[y][i] = s.down[y][j]

\* A server whose messages are another's or honest themselves.
LEMMA KeptOK ==
  ASSUME NEW s, ServerOK(s), NEW t \in Servers,
         \A c \in Calls : s.gate[c] = "allow" => t.gate[c] = "allow" /\ t.asker[c] = s.asker[c],
         \A c \in Calls : t.gate[c] # "none" => c \in t.processed,
         \A c \in t.pending : c \in t.processed /\ t.asker[c] \in Conns,
         Speaks(s, t)
  PROVE  ServerOK(t)
<1>1. ASSUME NEW x \in Conns, NEW j \in 1..Len(s.down[x])
      PROVE  Honest(t, x, s.down[x][j])
  <2>1. Honest(s, x, s.down[x][j])
    BY DEF ServerOK
  <2>2. QED
    BY <2>1 DEF Honest
<1>2. \A x \in Conns : \A i \in 1..Len(t.down[x]) : Honest(t, x, t.down[x][i])
  BY <1>1 DEF Speaks
<1>3. QED
  BY <1>2 DEF ServerOK

\* A server that wrote one more message, an honest one or an error.
LEMMA WritesOK ==
  ASSUME NEW s, ServerOK(s), NEW t \in Servers, NEW x \in Conns, NEW m \in Reply,
         NEW d \in [Conns -> Seq(Reply)],
         s.down = d, t.down = d \/ t.down = Written(d, x, m),
         Honest(t, x, m),
         \A c \in Calls : s.gate[c] = "allow" => t.gate[c] = "allow" /\ t.asker[c] = s.asker[c],
         \A c \in Calls : t.gate[c] # "none" => c \in t.processed,
         \A c \in t.pending : c \in t.processed /\ t.asker[c] \in Conns
  PROVE  ServerOK(t)
<1>1. ASSUME NEW y \in Conns, NEW i \in 1..Len(t.down[y])
      PROVE  \/ Honest(t, y, t.down[y][i])
             \/ \E j \in 1..Len(s.down[y]) : t.down[y][i] = s.down[y][j]
  <2>1. CASE t.down = d
    BY <2>1
  <2>2. CASE t.down = Written(d, x, m)
    <3>1. AddsTo(d, t.down, x, m)
      BY <2>2, WrittenIs
    <3>2. \/ i \in 1..Len(s.down[y]) /\ t.down[y][i] = s.down[y][i]
          \/ y = x /\ t.down[y][i] = m
      BY <3>1 DEF AddsTo
    <3>3. QED
      BY <3>2
  <2>3. QED
    BY <2>1, <2>2
<1>2. Speaks(s, t)
  BY <1>1 DEF Speaks
<1>3. QED
  BY <1>2, KeptOK

\* What t has processed it has from s, or as one of the ids, for x.
Takes(s, t, x, ids) ==
  \A c \in t.processed : \/ c \in s.processed /\ t.asker[c] = s.asker[c]
                         \/ t.asker[c] = x /\ c \in ids

LEMMA DispatchOK ==
  ASSUME NEW s, ServerOK(s), NEW x \in Conns, NEW f \in Frame
  PROVE  /\ ServerOK(Dispatch(s, x, f)) /\ Follows(s, Dispatch(s, x, f))
         /\ Takes(s, Dispatch(s, x, f), x, {f.id})
<1> DEFINE t == Dispatch(s, x, f)
           m == errorMessage(f.id)
           d == s.down
<1>1. /\ s \in Servers /\ d \in [Conns -> Seq(Reply)]
      /\ m \in Reply /\ m.kind # "verdict"
      /\ Written(d, x, m) \in [Conns -> Seq(Reply)]
  <2>1. s \in Servers /\ d \in [Conns -> Seq(Reply)]
    BY DEF ServerOK, Servers
  <2>2. m \in Reply /\ m.kind # "verdict"
    BY FrameFields, Replies
  <2> HIDE DEF m, d
  <2>3. QED
    BY <2>1, <2>2, WrittenIs
<1>2. \A u : Honest(u, x, m)
  BY <1>1 DEF Honest
<1> HIDE DEF m
<1>3. CASE f.kind # "request" \/ f.id \in s.processed
  <2>1. t = [s EXCEPT !.down = Written(d, x, m)]
    BY <1>3 DEF Dispatch, m
  <2> HIDE DEF t
  <2>2. /\ t \in Servers /\ t.down = Written(d, x, m)
        /\ t.gate = s.gate /\ t.asker = s.asker
        /\ t.processed = s.processed /\ t.pending = s.pending
    BY <1>1, <2>1 DEF Servers
  <2>3. ServerOK(t)
    BY <1>1, <1>2, <2>2, WritesOK DEF ServerOK
  <2>4. Follows(s, t) /\ Takes(s, t, x, {f.id})
    BY <2>2 DEF Follows, Takes
  <2>5. QED
    BY <2>3, <2>4 DEF t
<1>4. CASE f.kind = "request" /\ f.id \notin s.processed
  <2> DEFINE c == f.id
  <2>1. c \in Calls
    BY <1>4, FrameFields
  <2>2. s.gate[c] = "none"
    BY <1>4, <2>1 DEF ServerOK
  <2>3. t = Handle(s, x, c)
    BY <1>4 DEF Dispatch
  <2> HIDE DEF t
  <2>4. /\ t \in Servers
        /\ t.processed = s.processed \cup {c} /\ t.pending = s.pending \cup {c}
        /\ t.asker = [s.asker EXCEPT ![c] = x]
        /\ t.gate = s.gate \/ t.gate = [s.gate EXCEPT ![c] = "asked"]
        /\ t.down = d \/ t.down = Written(d, x, m)
    <3> DEFINE done == s.processed \cup {c}
               open == s.pending \cup {c}
               asks == [s.asker EXCEPT ![c] = x]
               asked == [s.gate EXCEPT ![c] = "asked"]
               wrote == Written(d, x, m)
    <3>1. /\ done \in SUBSET Calls /\ open \in SUBSET Calls
          /\ asks \in [Calls -> Conns \cup {NoCall}]
          /\ s.gate \in [Calls -> {"none", "asked", "allow", "deny", "threw"}]
          /\ asked \in [Calls -> {"none", "asked", "allow", "deny", "threw"}]
          /\ d \in [Conns -> Seq(Reply)] /\ wrote \in [Conns -> Seq(Reply)]
      BY <1>1, <2>1 DEF Servers
    <3>2. \/ t = [s EXCEPT !.processed = done, !.pending = open, !.asker = asks, !.gate = asked]
          \/ t = [s EXCEPT !.processed = done, !.pending = open, !.asker = asks, !.down = wrote]
      BY <1>1, <2>3 DEF Handle, m, Servers
    <3> HIDE DEF done, open, asks, asked, wrote
    <3>3. \/ t = [processed |-> done, pending |-> open, asker |-> asks, gate |-> asked, down |-> d]
          \/ t = [processed |-> done, pending |-> open, asker |-> asks, gate |-> s.gate,
                  down |-> wrote]
      BY <1>1, <3>2 DEF Servers
    <3>4. t \in Servers
      BY <3>1, <3>3 DEF Servers
    <3>5. QED
      BY <3>3, <3>4 DEF done, open, asks, asked, wrote
  <2> HIDE DEF c
  <2>5. /\ \A e \in Calls \ {c} : t.gate[e] = s.gate[e] /\ t.asker[e] = s.asker[e]
        /\ t.asker[c] = x
    BY <1>1, <2>1, <2>4 DEF Servers
  <2>6. Follows(s, t)
    BY <2>2, <2>5 DEF Follows
  <2>6a. Takes(s, t, x, {c})
    <3>1. s.processed \in SUBSET Calls
      BY <1>1 DEF Servers
    <3>2. QED
      BY <2>4, <2>5, <3>1 DEF Takes
  <2>7. \A e \in Calls : t.gate[e] # "none" => e \in t.processed
    BY <2>4, <2>5 DEF ServerOK
  <2>8. \A e \in t.pending : e \in t.processed /\ t.asker[e] \in Conns
    BY <1>1, <2>4, <2>5 DEF ServerOK, Servers
  <2>9. \A e \in Calls : s.gate[e] = "allow" => t.gate[e] = "allow" /\ t.asker[e] = s.asker[e]
    BY <2>2, <2>5
  <2>10. s.down = d
    BY DEF d
  <2> HIDE DEF d
  <2>11. ServerOK(t)
    BY <1>1, <1>2, <2>4, <2>7, <2>8, <2>9, <2>10, WritesOK
  <2>12. QED
    BY <2>6, <2>6a, <2>11 DEF t, c
<1>5. QED
  BY <1>3, <1>4

\* A chunk keeps what each of its frames keeps.
LEMMA DispatchAllOK ==
  ASSUME NEW s, ServerOK(s), NEW x \in Conns, NEW fs \in Seq(Frame)
  PROVE  /\ ServerOK(DispatchAll(s, x, fs)) /\ Follows(s, DispatchAll(s, x, fs))
         /\ Takes(s, DispatchAll(s, x, fs), x, {fs[i].id : i \in 1..Len(fs)})
<1>0. PICK st : Unfolds(st, s, x, fs)
  BY FoldSteps
<1>1. /\ st[0] = s
      /\ \A k \in 1..Len(fs) : st[k] = Dispatch(st[k - 1], x, fs[k])
      /\ DispatchAll(s, x, fs) = st[Len(fs)]
  BY <1>0 DEF Unfolds
<1> DEFINE n == Len(fs)
           ids == {fs[i].id : i \in 1..Len(fs)}
           S == {k \in Nat : ServerOK(st[k]) /\ Follows(s, st[k]) /\ Takes(s, st[k], x, ids)}
<1>2. n \in Nat
  BY LenProperties
<1>3. 0 \in S
  BY <1>1 DEF Follows, Takes
<1>4. ASSUME NEW k \in 0..n, k < n, k \in S
      PROVE  k + 1 \in S
  <2>1. k + 1 \in 1..n /\ k + 1 \in Nat /\ (k + 1) - 1 = k
    BY <1>2, <1>4
  <2>2. fs[k + 1] \in Frame
    BY <2>1, ElementOfSeq
  <2>3. st[k + 1] = Dispatch(st[k], x, fs[k + 1])
    BY <1>1, <2>1
  <2>4. ServerOK(st[k]) /\ Follows(s, st[k]) /\ Takes(s, st[k], x, ids)
    BY <1>4
  <2>5. /\ ServerOK(st[k + 1]) /\ Follows(st[k], st[k + 1])
        /\ Takes(st[k], st[k + 1], x, {fs[k + 1].id})
    BY <2>2, <2>3, <2>4, DispatchOK
  <2>6. Follows(s, st[k + 1])
    BY <2>4, <2>5 DEF Follows
  <2>7. fs[k + 1].id \in ids
    BY <2>1
  <2> HIDE DEF ids
  <2>8. Takes(s, st[k + 1], x, ids)
    BY <2>4, <2>5, <2>7 DEF Takes
  <2>9. QED
    BY <2>1, <2>5, <2>6, <2>8
<1> HIDE DEF S, n
<1>5. n \in S
  <2>1. 0..n \subseteq S
    BY <1>2, <1>3, <1>4, UpTo
  <2>2. QED
    BY <1>2, <2>1
<1>6. QED
  BY <1>1, <1>5 DEF S, n, ids

\* What stays in the decoder are frames.
LEMMA LeftoverIs ==
  ASSUME NEW fs \in Seq(Frame)
  PROVE  Leftover(fs) \in Seq(Frame) /\ (~Malformed(fs) => Leftover(fs) = <<>>)
<1> DEFINE I == {i \in 1..Len(fs) : fs[i].kind = "bad"}
           k == SelectInSeq(fs, LAMBDA f : f.kind = "bad")
<1>1. CASE ~Malformed(fs)
  BY <1>1, EmptySeq DEF Leftover
<1>2. CASE Malformed(fs)
  <2>1. I # {} /\ I \in SUBSET Nat
    BY <1>2 DEF Malformed
  <2>2. k = Min(I)
    BY <2>1 DEF SelectInSeq
  <2> HIDE DEF I
  <2>3. \E n \in I : \A m \in I : n <= m
    BY <2>1, LeastNatural
  <2>4. Min(I) \in I
    BY <2>3 DEF Min
  <2>5. k \in Nat
    BY <2>1, <2>2, <2>4
  <2>6. Leftover(fs) = SubSeq(fs, k + 1, Len(fs))
    BY <1>2 DEF Leftover
  <2> HIDE DEF k
  <2>7. Len(fs) \in Int /\ \A i \in (k + 1)..Len(fs) : fs[i] \in Frame
    BY <2>5, LenProperties, ElementOfSeq
  <2>8. SubSeq(fs, k + 1, Len(fs)) \in Seq(Frame)
    BY <2>5, <2>7, SubSeqProperties
  <2>9. QED
    BY <1>2, <2>6, <2>8
<1>3. QED
  BY <1>1, <1>2

------------------------------------------------------------------------------
(* The inductive invariant.                                                 *)

Types ==
  /\ phase \in {"idle", "listening", "wired", "stopped", "dead"}
  /\ conn \in [Conns -> {"none", "open", "ended", "left", "destroyed"}]
  /\ up \in [Conns -> Seq(Frame)] /\ buffer \in [Conns -> Seq(Frame)]
  /\ hook \in [Hooks -> {"idle", "waiting", "allowed", "denied"}]
  /\ toolUseId \in [Hooks -> Calls \cup {NoCall}]

\* A hook that waits has asked, and its connection is gone once the server is.
WaitingHeld(h) ==
  hook[h] = "waiting" =>
    /\ toolUseId[h] \in Calls
    /\ conn[h] \in {"open", "ended", "destroyed"}
    /\ phase \in {"stopped", "dead"} => conn[h] = "destroyed"

AllowedHeld(h) ==
  hook[h] = "allowed" =>
    /\ toolUseId[h] \in Calls
    /\ gate[toolUseId[h]] = "allow" /\ asker[toolUseId[h]] = h

\* A hook's link carries its one request and nothing else.
LinkHeld(h) ==
  /\ conn[h] # "ended" /\ buffer[h] = <<>>
  /\ \A i \in 1..Len(up[h]) : up[h][i] = Request(toolUseId[h])
  /\ hook[h] = "idle" => toolUseId[h] = NoCall
  /\ \A c \in processed : asker[c] = h => toolUseId[h] = c

GatewayInv ==
  /\ Types /\ ServerOK(Server)
  /\ \A h \in Hooks : WaitingHeld(h) /\ AllowedHeld(h) /\ LinkHeld(h)

\* What a data event gives the decoder.
Got(x, n) == buffer[x] \o SubSeq(up[x], 1, n)

\* Its frames are those of the decoder's buffer and of the stream.
LEMMA GotIs ==
  ASSUME Types, NEW x \in Conns, NEW n \in 0..Len(up[x])
  PROVE  /\ Got(x, n) \in Seq(Frame)
         /\ \A i \in 1..Len(Got(x, n)) :
              \/ \E j \in 1..Len(buffer[x]) : Got(x, n)[i] = buffer[x][j]
              \/ \E j \in 1..Len(up[x]) : Got(x, n)[i] = up[x][j]
<1> DEFINE b == buffer[x]
           u == up[x]
           t == SubSeq(u, 1, n)
<1>1. b \in Seq(Frame) /\ u \in Seq(Frame) /\ Len(b) \in Nat /\ Len(u) \in Nat
  BY LenProperties DEF Types
<1>2. n \in Nat /\ n <= Len(u)
  BY <1>1
<1> HIDE DEF b, u
<1>3. \A i \in 1..n : u[i] \in Frame
  BY <1>1, <1>2, ElementOfSeq
<1>4. t \in Seq(Frame) /\ Len(t) = n /\ \A i \in 1..n : t[i] = u[i]
  BY <1>1, <1>2, <1>3, SubSeqProperties
<1> HIDE DEF t
<1>5. /\ b \o t \in Seq(Frame) /\ Len(b \o t) = Len(b) + n
      /\ \A i \in 1..(Len(b) + n) : (b \o t)[i] = IF i <= Len(b) THEN b[i] ELSE t[i - Len(b)]
  BY <1>1, <1>4, ConcatProperties
<1>6. ASSUME NEW i \in 1..(Len(b) + n)
      PROVE  \/ \E j \in 1..Len(b) : (b \o t)[i] = b[j]
             \/ \E j \in 1..Len(u) : (b \o t)[i] = u[j]
  <2>1. CASE i <= Len(b)
    BY <1>1, <1>5, <2>1
  <2>2. CASE ~(i <= Len(b))
    <3>1. i - Len(b) \in 1..n /\ i - Len(b) \in 1..Len(u)
      BY <1>1, <1>2, <2>2
    <3>2. QED
      BY <1>4, <1>5, <2>2, <3>1
  <2>3. QED
    BY <2>1, <2>2
<1>7. QED
  BY <1>5, <1>6 DEF Got, b, u, t

\* What a data event does.
LEMMA OnDataIs ==
  ASSUME Types, NEW x \in Conns, NEW n \in 0..Len(up[x]), OnData(x, n)
  PROVE  \E s1 :
           /\ s1 = DispatchAll(Server, x, Accepted(Got(x, n)))
           /\ Serving /\ conn[x] \in {"open", "ended", "left"}
           /\ up' = [up EXCEPT ![x] = SubSeq(up[x], n + 1, Len(up[x]))]
           /\ buffer' = [buffer EXCEPT ![x] = Leftover(Got(x, n))]
           /\ processed' = s1.processed /\ pending' = s1.pending
           /\ asker' = s1.asker /\ gate' = s1.gate
           /\ \/ /\ Malformed(Got(x, n))
                 /\ down' = Written(s1.down, x, errorMessage(NoCall))
                 /\ conn' = [conn EXCEPT ![x] = IF @ = "open" THEN "ended" ELSE @]
              \/ ~Malformed(Got(x, n)) /\ down' = s1.down /\ conn' = conn
           /\ UNCHANGED <<phase, hook, toolUseId>>
  BY DEF OnData, Buffer, Got, Server, hookVars

\* The rest of a stream is made of its frames.
LEMMA RestIs ==
  ASSUME Types, NEW x \in Conns, NEW n \in 0..Len(up[x])
  PROVE  LET rest == SubSeq(up[x], n + 1, Len(up[x]))
         IN /\ rest \in Seq(Frame)
            /\ \A i \in 1..Len(rest) : \E j \in 1..Len(up[x]) : rest[i] = up[x][j]
<1> DEFINE u == up[x]
           m == n + 1
           rest == SubSeq(u, m, Len(u))
<1>1. u \in Seq(Frame) /\ Len(u) \in Nat
  BY LenProperties DEF Types
<1>2. m \in Nat /\ 1 <= m
  BY <1>1
<1> HIDE DEF u, m
<1>3. \A i \in m..Len(u) : u[i] \in Frame
  BY <1>1, <1>2, ElementOfSeq
<1>4. /\ rest \in Seq(Frame)
      /\ Len(rest) = IF m <= Len(u) THEN Len(u) - m + 1 ELSE 0
      /\ \A i \in 1..(Len(u) - m + 1) : rest[i] = u[m + i - 1]
  BY <1>1, <1>2, <1>3, SubSeqProperties
<1> HIDE DEF rest
<1>5. ASSUME NEW i \in 1..Len(rest) PROVE \E j \in 1..Len(u) : rest[i] = u[j]
  <2>1. i \in 1..(Len(u) - m + 1) /\ m + i - 1 \in 1..Len(u)
    BY <1>1, <1>2, <1>4
  <2>2. QED
    BY <1>4, <2>1
<1>6. QED
  BY <1>4, <1>5 DEF rest, u, m

\* What a chunk keeps of the server, and what it does to its connection.
LEMMA OnDataKeeps ==
  ASSUME GatewayInv, NEW x \in Conns, NEW n \in 0..Len(up[x]), OnData(x, n)
  PROVE  /\ ServerOK(Server') /\ Follows(Server, Server')
         /\ Takes(Server, Server', x, {Got(x, n)[i].id : i \in 1..Len(Got(x, n))})
         /\ up' \in [Conns -> Seq(Frame)] /\ buffer' \in [Conns -> Seq(Frame)]
         /\ up' = [up EXCEPT ![x] = SubSeq(up[x], n + 1, Len(up[x]))]
         /\ buffer' = [buffer EXCEPT ![x] = Leftover(Got(x, n))]
         /\ conn[x] \in {"open", "ended", "left"}
         /\ \/ conn' = conn
            \/ /\ Malformed(Got(x, n))
               /\ conn' = [conn EXCEPT ![x] = IF @ = "open" THEN "ended" ELSE @]
         /\ Serving /\ UNCHANGED <<phase, hook, toolUseId>>
<1> DEFINE m == errorMessage(NoCall)
           fs == Got(x, n)
           ids == {fs[i].id : i \in 1..Len(fs)}
<1>1. \E s1 :
           /\ s1 = DispatchAll(Server, x, Accepted(fs))
           /\ Serving /\ conn[x] \in {"open", "ended", "left"}
           /\ up' = [up EXCEPT ![x] = SubSeq(up[x], n + 1, Len(up[x]))]
           /\ buffer' = [buffer EXCEPT ![x] = Leftover(fs)]
           /\ processed' = s1.processed /\ pending' = s1.pending
           /\ asker' = s1.asker /\ gate' = s1.gate
           /\ \/ /\ Malformed(fs)
                 /\ down' = Written(s1.down, x, m)
                 /\ conn' = [conn EXCEPT ![x] = IF @ = "open" THEN "ended" ELSE @]
              \/ ~Malformed(fs) /\ down' = s1.down /\ conn' = conn
           /\ UNCHANGED <<phase, hook, toolUseId>>
  BY OnDataIs DEF GatewayInv
<1> DEFINE s1 == DispatchAll(Server, x, Accepted(fs))
<1>2. fs \in Seq(Frame) /\ Accepted(fs) \in Seq(Frame) /\ Accepted(fs) \in {<<>>, fs}
  BY EmptySeq, GotIs DEF Accepted, GatewayInv
<1>2a. up' \in [Conns -> Seq(Frame)] /\ buffer' \in [Conns -> Seq(Frame)]
  <2>1. Leftover(fs) \in Seq(Frame)
    BY <1>2, LeftoverIs
  <2>2. SubSeq(up[x], n + 1, Len(up[x])) \in Seq(Frame)
    BY RestIs DEF GatewayInv
  <2> HIDE DEF fs
  <2>3. QED
    BY <1>1, <2>1, <2>2 DEF GatewayInv, Types
<1> HIDE DEF fs
<1>3. ServerOK(s1) /\ Follows(Server, s1) /\ Takes(Server, s1, x, ids)
  <2> DEFINE got == Accepted(fs)
             taken == {got[i].id : i \in 1..Len(got)}
  <2>1. ServerOK(s1) /\ Follows(Server, s1) /\ Takes(Server, s1, x, taken)
    BY <1>2, DispatchAllOK DEF GatewayInv
  <2>2. taken \subseteq ids
    BY <1>2, EmptySeq
  <2> HIDE DEF taken, ids
  <2>3. QED
    BY <2>1, <2>2 DEF Takes
<1>4. /\ Server'.processed = s1.processed /\ Server'.pending = s1.pending
      /\ Server'.asker = s1.asker /\ Server'.gate = s1.gate
      /\ Server'.down = down'
  BY <1>1 DEF Server
<1>5. m \in Reply /\ \A u : Honest(u, x, m)
  BY Replies DEF Honest
<1> HIDE DEF m
<1>6. s1.down \in [Conns -> Seq(Reply)] /\ s1 \in Servers
  BY <1>3 DEF ServerOK, Servers
<1>7. Server'.down = s1.down \/ Server'.down = Written(s1.down, x, m)
  BY <1>1, <1>4
<1>8. Server' \in Servers
  <2>1. Written(s1.down, x, m) \in [Conns -> Seq(Reply)]
    BY <1>5, <1>6, WrittenIs
  <2>2. Server'.down \in [Conns -> Seq(Reply)]
    BY <1>6, <1>7, <2>1
  <2>3. QED
    BY <1>4, <1>6, <2>2 DEF Server, Servers
<1>9. ServerOK(Server')
  <2>1. \A c \in Calls : s1.gate[c] = "allow" =>
           Server'.gate[c] = "allow" /\ Server'.asker[c] = s1.asker[c]
    BY <1>4
  <2>2. \A c \in Calls : Server'.gate[c] # "none" => c \in Server'.processed
    BY <1>3, <1>4 DEF ServerOK
  <2>3. \A c \in Server'.pending : c \in Server'.processed /\ Server'.asker[c] \in Conns
    BY <1>3, <1>4 DEF ServerOK
  <2>4. QED
    BY <1>3, <1>5, <1>6, <1>7, <1>8, <2>1, <2>2, <2>3, WritesOK
<1>10. Follows(Server, Server') /\ Takes(Server, Server', x, ids)
  BY <1>3, <1>4 DEF Follows, Takes
<1>11. QED
  BY <1>1, <1>2a, <1>9, <1>10 DEF fs, ids

\* What the hooks allowed stays allowed.
Settled ==
  \A c \in Calls : gate[c] = "allow" => gate'[c] = "allow" /\ asker'[c] = asker[c]

\* The server's variables in one place, and their types.
LEMMA ServerTypes ==
  ASSUME ServerOK(Server)
  PROVE  /\ processed \in SUBSET Calls /\ pending \in SUBSET Calls
         /\ asker \in [Calls -> Conns \cup {NoCall}]
         /\ gate \in [Calls -> {"none", "asked", "allow", "deny", "threw"}]
         /\ down \in [Conns -> Seq(Reply)]
         /\ \A c \in Calls : gate[c] # "none" => c \in processed
         /\ \A c \in pending : c \in processed /\ asker[c] \in Conns
         /\ \A x \in Conns : \A i \in 1..Len(down[x]) : Honest(Server, x, down[x][i])
  BY DEF ServerOK, Server, Servers

\* The gate's decision, delivered.
LEMMA GateDecidesKeeps ==
  ASSUME ServerOK(Server), NEW c \in Calls, NEW d \in {"allow", "deny"}, GateDecides(c, d)
  PROVE  ServerOK(Server') /\ Settled
<1>1. /\ gate[c] = "asked" /\ gate' = [gate EXCEPT ![c] = d]
      /\ pending' = pending \ {c}
      /\ processed' = processed /\ asker' = asker
      /\ down' = IF c \in pending /\ Serving
                 THEN Written(down, asker[c], VerdictMessage(c, d # "deny")) ELSE down
  BY DEF GateDecides, Deliver, Respond
<1>2. gate'[c] = d /\ \A e \in Calls \ {c} : gate'[e] = gate[e]
  BY <1>1, ServerTypes
<1>3. Settled
  BY <1>1, <1>2 DEF Settled
<1>4. /\ Server.down = down /\ Server'.down = down' /\ down \in [Conns -> Seq(Reply)]
      /\ Server'.gate = gate' /\ Server'.asker = asker /\ Server'.pending = pending \ {c}
      /\ Server'.processed = processed
      /\ Server.gate = gate /\ Server.asker = asker
  BY <1>1, ServerTypes DEF Server
<1>5. \A e \in Calls : Server.gate[e] = "allow" =>
        Server'.gate[e] = "allow" /\ Server'.asker[e] = Server.asker[e]
  BY <1>3, <1>4 DEF Settled
<1>6. \A e \in Calls : Server'.gate[e] # "none" => e \in Server'.processed
  BY <1>1, <1>2, <1>4, ServerTypes
<1>7. \A e \in Server'.pending : e \in Server'.processed /\ Server'.asker[e] \in Conns
  BY <1>4, ServerTypes
<1>8. gate' \in [Calls -> {"none", "asked", "allow", "deny", "threw"}] /\ pending' \in SUBSET Calls
  BY <1>1, ServerTypes
<1>9. Server' \in Servers
  <2>1. down' \in [Conns -> Seq(Reply)]
    <3>1. c \in pending => asker[c] \in Conns
      BY ServerTypes
    <3>2. VerdictMessage(c, d # "deny") \in Reply
      BY Replies
    <3>3. QED
      BY <1>1, <1>4, <3>1, <3>2, WrittenIs
  <2>2. QED
    BY <1>1, <1>8, <2>1, ServerTypes DEF Server, Servers
<1>10. CASE c \in pending
  <2> DEFINE m == VerdictMessage(c, d # "deny")
  <2>1. asker[c] \in Conns
    BY <1>10, ServerTypes
  <2>2. m \in Reply /\ m.id = c /\ m.allow = (d # "deny")
    BY Replies
  <2>3. Honest(Server', asker[c], m)
    BY <1>2, <1>4, <2>2 DEF Honest
  <2>4. Server'.down = down \/ Server'.down = Written(down, asker[c], m)
    BY <1>1, <1>4
  <2> HIDE DEF m
  <2>5. ServerOK(Server')
    BY <1>4, <1>5, <1>6, <1>7, <1>9, <2>1, <2>2, <2>3, <2>4, WritesOK
  <2>6. QED
    BY <1>3, <2>5
<1>11. CASE c \notin pending
  <2>1. Server'.down = Server.down
    BY <1>1, <1>4, <1>11
  <2>2. Speaks(Server, Server')
    BY <2>1 DEF Speaks
  <2>3. ServerOK(Server')
    BY <1>5, <1>6, <1>7, <1>9, <2>2, KeptOK
  <2>4. QED
    BY <1>3, <2>3
<1>12. QED
  BY <1>10, <1>11

\* A hook takes the next message off its connection.
LEMMA HookReadsKeeps ==
  ASSUME ServerOK(Server), NEW h \in Hooks, HookReads(h)
  PROVE  ServerOK(Server') /\ UNCHANGED <<gate, asker>>
<1>1. h \in Conns
  BY DEF Conns
<1>2. /\ down[h] # <<>> /\ down' = [down EXCEPT ![h] = Tail(down[h])]
      /\ UNCHANGED <<processed, pending, asker, gate>>
  BY DEF HookReads, serverVars
<1>3. down[h] \in Seq(Reply)
  BY <1>1, ServerTypes
<1> DEFINE t == Tail(down[h])
<1>4. /\ t \in Seq(Reply) /\ Len(t) = Len(down[h]) - 1
      /\ \A i \in 1..Len(t) : t[i] = down[h][i + 1]
  BY <1>2, <1>3, HeadTailProperties
<1>5. \A i \in 1..Len(t) : i + 1 \in 1..Len(down[h])
  BY <1>3, <1>4, LenProperties
<1> HIDE DEF t
<1>6. down' = [down EXCEPT ![h] = t]
  BY <1>2 DEF t
<1>7. down' \in [Conns -> Seq(Reply)]
  BY <1>4, <1>6, ServerTypes
<1>8. \A x \in Conns : \A i \in 1..Len(down'[x]) :
        \E j \in 1..Len(down[x]) : down'[x][i] = down[x][j]
  <2> TAKE x \in Conns
  <2>1. CASE x = h
    <3>1. down'[x] = t
      BY <1>1, <1>6, <2>1, ServerTypes
    <3>2. QED
      BY <1>4, <1>5, <2>1, <3>1
  <2>2. CASE x # h
    <3>1. down'[x] = down[x]
      BY <1>6, <2>2, ServerTypes
    <3>2. QED
      BY <3>1
  <2>3. QED
    BY <2>1, <2>2
<1>9. /\ Server' \in Servers
      /\ Server'.down = down' /\ Server.down = down
      /\ Server'.gate = Server.gate /\ Server'.asker = Server.asker
      /\ Server'.processed = Server.processed /\ Server'.pending = Server.pending
  BY <1>2, <1>7, ServerTypes DEF Server, Servers
<1>10. /\ \A c \in Calls : Server'.gate[c] # "none" => c \in Server'.processed
       /\ \A c \in Server'.pending : c \in Server'.processed /\ Server'.asker[c] \in Conns
  BY <1>9 DEF ServerOK
<1>11. Speaks(Server, Server')
  BY <1>8, <1>9 DEF Speaks
<1>12. \A c \in Calls : Server.gate[c] = "allow" =>
         Server'.gate[c] = "allow" /\ Server'.asker[c] = Server.asker[c]
  BY <1>9
<1>13. ServerOK(Server')
  BY <1>9, <1>10, <1>11, <1>12, KeptOK
<1>14. QED
  BY <1>2, <1>13

\* Steps that leave the server's word alone, or only withdraw from it.
LEMMA ServerSame ==
  ASSUME ServerOK(Server), UNCHANGED <<down, serverVars>>
  PROVE  ServerOK(Server') /\ Settled
<1>1. Server' = Server
  BY DEF Server, serverVars
<1>2. Settled
  BY DEF Settled, serverVars
<1>3. QED
  BY <1>1, <1>2

LEMMA ServerWithdraws ==
  ASSUME ServerOK(Server), pending' \in SUBSET pending, UNCHANGED <<down, processed, asker>>,
         \/ gate' = gate
         \/ \E c \in Calls : gate[c] = "asked" /\ gate' = [gate EXCEPT ![c] = "threw"]
  PROVE  ServerOK(Server') /\ Settled
<1>1. /\ gate' \in [Calls -> {"none", "asked", "allow", "deny", "threw"}]
      /\ \A c \in Calls : \/ gate'[c] = gate[c]
                          \/ gate[c] = "asked" /\ gate'[c] = "threw"
  BY ServerTypes
<1>2. /\ Server' \in Servers
      /\ Server'.down = down /\ Server.down = down
      /\ Server'.gate = gate' /\ Server'.asker = asker /\ Server.gate = gate /\ Server.asker = asker
      /\ Server'.processed = processed /\ Server'.pending = pending'
  <2>1. pending' \in SUBSET Calls
    BY ServerTypes
  <2>2. QED
    BY <1>1, <2>1, ServerTypes DEF Server, Servers
<1>3. /\ \A c \in Calls : Server'.gate[c] # "none" => c \in Server'.processed
      /\ \A c \in Server'.pending : c \in Server'.processed /\ Server'.asker[c] \in Conns
  BY <1>1, <1>2, ServerTypes
<1>4. /\ Settled
      /\ \A c \in Calls : Server.gate[c] = "allow" =>
           Server'.gate[c] = "allow" /\ Server'.asker[c] = Server.asker[c]
  BY <1>1, <1>2 DEF Settled
<1>5. Speaks(Server, Server')
  BY <1>2 DEF Speaks
<1>6. ServerOK(Server')
  BY <1>2, <1>3, <1>4, <1>5, KeptOK
<1>7. QED
  BY <1>4, <1>6

LEMMA ServerStep ==
  ASSUME GatewayInv, [GatewayNext]_gatewayVars
  PROVE  ServerOK(Server') /\ Settled
<1>1. ServerOK(Server)
  BY DEF GatewayInv
<1>2. CASE Listen \/ Wire \/ Crash \/ UNCHANGED gatewayVars
  BY <1>1, <1>2, ServerSame DEF Listen, Wire, Crash, gatewayVars, serverVars
<1>3. CASE Stop
  BY <1>1, <1>3, ServerWithdraws DEF Stop
<1>4. ASSUME NEW x \in Conns, NEW n \in 0..Len(up[x]), OnData(x, n)
      PROVE  ServerOK(Server') /\ Settled
  <2>1. ServerOK(Server') /\ Follows(Server, Server')
    BY <1>4, OnDataKeeps
  <2>2. Settled
    BY <2>1 DEF Follows, Settled, Server
  <2>3. QED
    BY <2>1, <2>2
<1>5. ASSUME NEW c \in Calls, GateThrows(c)
      PROVE  ServerOK(Server') /\ Settled
  BY <1>1, <1>5, ServerWithdraws DEF GateThrows
<1>6. ASSUME NEW c \in Calls, NEW d \in {"allow", "deny"}, GateDecides(c, d)
      PROVE  ServerOK(Server') /\ Settled
  BY <1>1, <1>6, GateDecidesKeeps
<1>7. ASSUME NEW h \in Hooks, HookReads(h)
      PROVE  ServerOK(Server') /\ Settled
  BY <1>1, <1>7, HookReadsKeeps DEF Settled
<1>8. ASSUME NEW h \in Hooks,
             HookLosesLink(h) \/ HookTimesOut(h) \/ HookRefuses(h) \/ \E c \in Calls : HookAsks(h, c)
      PROVE  ServerOK(Server') /\ Settled
  BY <1>1, <1>8, ServerSame DEF HookLosesLink, HookTimesOut, HookRefuses, HookAsks
<1>9. ASSUME NEW p \in Peers, NEW fs, PeerWrites(p, fs)
      PROVE  ServerOK(Server') /\ Settled
  BY <1>1, <1>9, ServerSame DEF PeerWrites
<1>10. QED
  BY <1>2, <1>3, <1>4, <1>5, <1>6, <1>7, <1>8, <1>9 DEF GatewayNext, HookSteps

\* A hook's exit.
LEMMA Exits ==
  ASSUME Types, NEW h \in Hooks, NEW outcome \in {"allowed", "denied"}, Exit(h, outcome)
  PROVE  /\ hook' \in [Hooks -> {"idle", "waiting", "allowed", "denied"}]
         /\ conn' \in [Conns -> {"none", "open", "ended", "left", "destroyed"}]
         /\ hook'[h] = outcome
         /\ \A g \in Hooks \ {h} : hook'[g] = hook[g] /\ conn'[g] = conn[g]
  BY DEF Exit, Types, Conns

LEMMA VerdictIs ==
  ASSUME NEW m
  PROVE  /\ Verdict(m) \in {"allowed", "denied"}
         /\ Verdict(m) = "allowed" => m.kind = "verdict" /\ m.allow
  BY DEF Verdict

\* What a hook holds, when neither it nor its connection is touched.
LEMMA HeldStill ==
  ASSUME NEW h \in Hooks, WaitingHeld(h), AllowedHeld(h), Settled,
         hook'[h] = hook[h], toolUseId'[h] = toolUseId[h], conn'[h] = conn[h],
         phase' = phase \/ phase' \notin {"stopped", "dead"}
  PROVE  WaitingHeld(h)' /\ AllowedHeld(h)'
  BY DEF WaitingHeld, AllowedHeld, Settled

\* A hook that exits on a denial, or never began.
LEMMA HeldDenied ==
  ASSUME NEW h \in Hooks, hook'[h] = "denied"
  PROVE  WaitingHeld(h)' /\ AllowedHeld(h)'
  BY DEF WaitingHeld, AllowedHeld

LEMMA TypesStep ==
  ASSUME GatewayInv, [GatewayNext]_gatewayVars
  PROVE  Types'
<1> USE DEF GatewayInv, Types
<1>1. CASE Listen \/ Wire \/ UNCHANGED gatewayVars
  BY <1>1 DEF Listen, Wire, gatewayVars, hookVars
<1>2. CASE Stop \/ Crash
  BY <1>2 DEF Stop, Crash, Destroyed, hookVars
<1>3. ASSUME NEW x \in Conns, NEW n \in 0..Len(up[x]), OnData(x, n)
      PROVE  Types'
  <2>1. /\ up' \in [Conns -> Seq(Frame)] /\ buffer' \in [Conns -> Seq(Frame)]
        /\ (conn' = conn \/ conn' = [conn EXCEPT ![x] = IF @ = "open" THEN "ended" ELSE @])
        /\ UNCHANGED <<phase, hook, toolUseId>>
    BY <1>3, OnDataKeeps
  <2>2. conn' \in [Conns -> {"none", "open", "ended", "left", "destroyed"}]
    BY <2>1
  <2>3. QED
    BY <2>1, <2>2
<1>4. ASSUME NEW c \in Calls, GateThrows(c) \/ \E d \in {"allow", "deny"} : GateDecides(c, d)
      PROVE  Types'
  BY <1>4 DEF GateThrows, GateDecides, hookVars
<1>5. ASSUME NEW h \in Hooks, HookSteps(h)
      PROVE  Types'
  <2>1. UNCHANGED <<phase, up, buffer, toolUseId>>
    BY <1>5 DEF HookSteps, HookReads, HookLosesLink, HookTimesOut
  <2>2. (\E o \in {"allowed", "denied"} : Exit(h, o)) \/ UNCHANGED <<hook, conn>>
    BY <1>5, VerdictIs DEF HookSteps, HookReads, HookLosesLink, HookTimesOut
  <2>3. /\ hook' \in [Hooks -> {"idle", "waiting", "allowed", "denied"}]
        /\ conn' \in [Conns -> {"none", "open", "ended", "left", "destroyed"}]
    BY <2>2, Exits
  <2>4. QED
    BY <2>1, <2>3
<1>6. ASSUME NEW h \in Hooks, HookRefuses(h)
      PROVE  Types'
  BY <1>6 DEF HookRefuses
<1>7. ASSUME NEW h \in Hooks, NEW c \in Calls, HookAsks(h, c)
      PROVE  Types'
  <2>1. <<Request(c)>> \in Seq(Frame)
    BY DEF Request, Frame
  <2>2. QED
    BY <1>7, <2>1 DEF HookAsks, Conns
<1>8. ASSUME NEW p \in Peers, NEW n \in 1..MaxStream, NEW fs \in [1..n -> Frame], PeerWrites(p, fs)
      PROVE  Types'
  <2>1. fs \in Seq(Frame)
    <3>1. n \in Nat
      OBVIOUS
    <3>2. QED
      BY <3>1, SeqDef
  <2>2. QED
    BY <1>8, <2>1 DEF PeerWrites, Conns, hookVars
<1>9. QED
  BY <1>1, <1>2, <1>3, <1>4, <1>5, <1>6, <1>7, <1>8 DEF GatewayNext

Held(h) == WaitingHeld(h) /\ AllowedHeld(h)

\* The message a hook exits on was written to it by the gate's decision.
LEMMA HookReadsHeld ==
  ASSUME GatewayInv, NEW h \in Hooks, HookReads(h), Settled, NEW g \in Hooks
  PROVE  Held(g)'
<1> DEFINE m == Head(down[h])
<1>1. h \in Conns
  BY DEF Conns
<1>2. /\ hook[h] = "waiting" /\ down[h] # <<>>
      /\ (m.id = toolUseId[h] /\ Exit(h, Verdict(m))) \/ UNCHANGED <<hook, conn>>
      /\ UNCHANGED <<phase, toolUseId, gate, asker>>
  BY DEF HookReads, serverVars
<1>3. Honest(Server, h, m)
  <2>1. down[h] \in Seq(Reply)
    BY <1>1, ServerTypes DEF GatewayInv
  <2>2. 1 \in 1..Len(down[h]) /\ m = down[h][1]
    BY <1>2, <2>1, HeadTailProperties, EmptySeq, LenProperties
  <2>3. QED
    BY <1>1, <2>2, ServerTypes DEF GatewayInv
<1> HIDE DEF m
<1>4. Held(g)
  BY DEF GatewayInv, Held
<1>5. CASE UNCHANGED <<hook, conn>>
  BY <1>2, <1>4, <1>5, HeldStill DEF Held
<1>6. CASE m.id = toolUseId[h] /\ Exit(h, Verdict(m))
  <2>1. /\ hook'[h] = Verdict(m)
        /\ \A e \in Hooks \ {h} : hook'[e] = hook[e] /\ conn'[e] = conn[e]
    BY <1>6, VerdictIs, Exits DEF GatewayInv
  <2>2. CASE g # h
    BY <1>2, <1>4, <2>1, <2>2, HeldStill DEF Held
  <2>3. CASE g = h
    <3>1. CASE Verdict(m) = "denied"
      BY <2>1, <2>3, <3>1, HeldDenied DEF Held
    <3>2. CASE Verdict(m) = "allowed"
      <4>1. m.id \in Calls /\ gate[m.id] = "allow" /\ asker[m.id] = h
        BY <1>3, <3>2, VerdictIs DEF Honest, Server
      <4>2. hook'[g] = "allowed" /\ toolUseId'[g] = m.id
        BY <1>2, <1>6, <2>1, <2>3, <3>2
      <4>3. QED
        BY <1>2, <2>3, <4>1, <4>2 DEF Held, WaitingHeld, AllowedHeld
    <3>3. QED
      BY <3>1, <3>2, VerdictIs
  <2>4. QED
    BY <2>2, <2>3
<1>7. QED
  BY <1>2, <1>5, <1>6

LEMMA HeldStep ==
  ASSUME GatewayInv, [GatewayNext]_gatewayVars, ConnsAssumption, NEW g \in Hooks
  PROVE  Held(g)'
<1>1. Held(g) /\ Settled /\ Types /\ g \in Conns
  BY ServerStep DEF GatewayInv, Held, Conns
<1>2. CASE Listen \/ Wire \/ UNCHANGED gatewayVars
  BY <1>1, <1>2, HeldStill DEF Held, Listen, Wire, gatewayVars, hookVars
<1>3. CASE Stop \/ Crash
  <2>1. conn'[g] = IF conn[g] \in {"open", "ended"} THEN "destroyed" ELSE conn[g]
    BY <1>1, <1>3 DEF Stop, Crash, Destroyed
  <2>2. UNCHANGED <<hook, toolUseId>>
    BY <1>3 DEF Stop, Crash, hookVars
  <2>3. QED
    BY <1>1, <2>1, <2>2 DEF Held, WaitingHeld, AllowedHeld, Settled
<1>4. ASSUME NEW x \in Conns, NEW n \in 0..Len(up[x]), OnData(x, n)
      PROVE  Held(g)'
  <2>1. /\ (conn' = conn \/ conn' = [conn EXCEPT ![x] = IF @ = "open" THEN "ended" ELSE @])
        /\ Serving /\ UNCHANGED <<phase, hook, toolUseId>>
    BY <1>4, OnDataKeeps
  <2>2. conn'[g] = conn[g] \/ (conn[g] = "open" /\ conn'[g] = "ended")
    BY <1>1, <2>1 DEF Types
  <2>3. QED
    BY <1>1, <2>1, <2>2 DEF Held, WaitingHeld, AllowedHeld, Settled, Serving
<1>5. ASSUME NEW c \in Calls, GateThrows(c) \/ \E d \in {"allow", "deny"} : GateDecides(c, d)
      PROVE  Held(g)'
  BY <1>1, <1>5, HeldStill DEF Held, GateThrows, GateDecides, hookVars
<1>6. ASSUME NEW h \in Hooks, HookReads(h)
      PROVE  Held(g)'
  BY <1>1, <1>6, HookReadsHeld
<1>7. ASSUME NEW h \in Hooks, HookLosesLink(h) \/ HookTimesOut(h)
      PROVE  Held(g)'
  <2>1. Exit(h, "denied") /\ UNCHANGED <<phase, toolUseId>>
    BY <1>7 DEF HookLosesLink, HookTimesOut
  <2>2. /\ hook'[h] = "denied"
        /\ \A e \in Hooks \ {h} : hook'[e] = hook[e] /\ conn'[e] = conn[e]
    BY <1>1, <2>1, Exits
  <2>3. QED
    BY <1>1, <2>1, <2>2, HeldStill, HeldDenied DEF Held
<1>8. ASSUME NEW h \in Hooks, HookRefuses(h)
      PROVE  Held(g)'
  <2>1. hook' = [hook EXCEPT ![h] = "denied"] /\ UNCHANGED <<phase, conn, toolUseId>>
    BY <1>8 DEF HookRefuses
  <2>2. hook'[g] = "denied" \/ hook'[g] = hook[g]
    BY <1>1, <2>1 DEF Types
  <2>3. QED
    BY <1>1, <2>1, <2>2, HeldStill, HeldDenied DEF Held
<1>9. ASSUME NEW h \in Hooks, NEW c \in Calls, HookAsks(h, c)
      PROVE  Held(g)'
  <2>1. /\ phase = "wired" /\ phase' = phase
        /\ hook' = [hook EXCEPT ![h] = "waiting"]
        /\ toolUseId' = [toolUseId EXCEPT ![h] = c]
        /\ conn' = [conn EXCEPT ![h] = "open"]
    BY <1>9 DEF HookAsks
  <2>2. CASE g = h
    <3>1. hook'[g] = "waiting" /\ toolUseId'[g] = c /\ conn'[g] = "open"
      BY <1>1, <2>1, <2>2 DEF Types
    <3>2. QED
      BY <2>1, <3>1 DEF Held, WaitingHeld, AllowedHeld
  <2>3. CASE g # h
    <3>1. hook'[g] = hook[g] /\ toolUseId'[g] = toolUseId[g] /\ conn'[g] = conn[g]
      BY <1>1, <2>1, <2>3 DEF Types
    <3>2. QED
      BY <1>1, <2>1, <3>1, HeldStill DEF Held
  <2>4. QED
    BY <2>2, <2>3
<1>10. ASSUME NEW p \in Peers, NEW fs, PeerWrites(p, fs)
       PROVE  Held(g)'
  <2>1. conn'[g] = conn[g] /\ UNCHANGED <<phase, hook, toolUseId>>
    BY <1>1, <1>10 DEF PeerWrites, hookVars, ConnsAssumption, Types
  <2>2. QED
    BY <1>1, <2>1, HeldStill DEF Held
<1>11. QED
  BY <1>2, <1>3, <1>4, <1>5, <1>6, <1>7, <1>8, <1>9, <1>10 DEF GatewayNext, HookSteps

\* A link no frame, id or end came to.
LEMMA LinkStill ==
  ASSUME NEW h \in Hooks, LinkHeld(h), conn'[h] # "ended",
         buffer'[h] = buffer[h], up'[h] = up[h], toolUseId'[h] = toolUseId[h],
         hook'[h] = hook[h] \/ hook'[h] # "idle",
         UNCHANGED <<processed, asker>>
  PROVE  LinkHeld(h)'
  BY DEF LinkHeld

\* A data event on some connection: what a hook's brings is its request, so that
\* it is well-formed, and the id it uses up is the hook's; what another brings
\* stays in that one's decoder and uses up ids for that one.
LEMMA OnDataLink ==
  ASSUME GatewayInv, NEW g \in Hooks, NEW x \in Conns, NEW n \in 0..Len(up[x]), OnData(x, n)
  PROVE  LinkHeld(g)'
<1> DEFINE fs == Got(x, n)
           rest == SubSeq(up[x], n + 1, Len(up[x]))
           ids == {fs[i].id : i \in 1..Len(fs)}
<1>1. /\ Takes(Server, Server', x, ids)
      /\ up' = [up EXCEPT ![x] = rest]
      /\ buffer' = [buffer EXCEPT ![x] = Leftover(fs)]
      /\ conn' = conn \/ (Malformed(fs) /\ conn' = [conn EXCEPT ![x] = IF @ = "open" THEN "ended" ELSE @])
      /\ UNCHANGED <<hook, toolUseId>>
  BY OnDataKeeps
<1>2. Types /\ g \in Conns /\ LinkHeld(g)
  BY DEF GatewayInv, Conns
<1>3. fs \in Seq(Frame)
  BY <1>2, GotIs
<1>4. /\ x # g => up'[g] = up[g] /\ buffer'[g] = buffer[g] /\ conn'[g] = conn[g]
      /\ x = g => up'[g] = rest /\ buffer'[g] = Leftover(fs)
  <2> HIDE DEF fs, rest
  <2>1. QED
    BY <1>1, <1>2 DEF Types
<1>5. \A c \in processed' : asker'[c] = g =>
        \/ c \in processed /\ asker[c] = g
        \/ x = g /\ c \in ids
  <2> HIDE DEF ids
  <2>1. QED
    BY <1>1 DEF Takes, Server
<1>6. CASE x # g
  <2>1. \A c \in processed' : asker'[c] = g => c \in processed /\ asker[c] = g
    BY <1>5, <1>6
  <2>2. QED
    BY <1>1, <1>2, <1>4, <1>6, <2>1 DEF LinkHeld
<1>7. CASE x = g
  <2> DEFINE r == Request(toolUseId[g])
  <2>1. \A i \in 1..Len(fs) : fs[i] = r
    <3>1. Len(buffer[x]) = 0
      BY <1>2, <1>7, EmptySeq DEF LinkHeld
    <3>2. \A j \in 1..Len(up[x]) : up[x][j] = r
      BY <1>2, <1>7 DEF LinkHeld
    <3> HIDE DEF r
    <3>3. QED
      BY <1>2, <3>1, <3>2, GotIs
  <2>2. r.kind = "request" /\ r.id = toolUseId[g]
    BY DEF Request
  <2> HIDE DEF fs
  <2>3. ~Malformed(fs)
    BY <2>1, <2>2 DEF Malformed
  <2>4. Leftover(fs) = <<>>
    BY <1>3, <2>3, LeftoverIs
  <2>5. \A c \in ids : c = toolUseId[g]
    BY <2>1, <2>2
  <2>6. \A i \in 1..Len(rest) : rest[i] = r
    <3>1. \A i \in 1..Len(rest) : \E j \in 1..Len(up[x]) : rest[i] = up[x][j]
      BY <1>2, RestIs
    <3> HIDE DEF rest
    <3>2. QED
      BY <1>2, <1>7, <3>1 DEF LinkHeld
  <2> HIDE DEF rest, ids
  <2>7. /\ conn'[g] # "ended" /\ buffer'[g] = <<>>
        /\ \A i \in 1..Len(up'[g]) : up'[g][i] = Request(toolUseId'[g])
        /\ hook'[g] = "idle" => toolUseId'[g] = NoCall
    BY <1>1, <1>2, <1>4, <1>7, <2>3, <2>4, <2>6 DEF LinkHeld
  <2>8. \A c \in processed' : asker'[c] = g => toolUseId'[g] = c
    BY <1>1, <1>2, <1>5, <2>5 DEF LinkHeld
  <2>9. QED
    BY <2>7, <2>8 DEF LinkHeld
<1>8. QED
  BY <1>6, <1>7

LEMMA LinkStep ==
  ASSUME GatewayInv, [GatewayNext]_gatewayVars, ConnsAssumption, NEW g \in Hooks
  PROVE  LinkHeld(g)'
<1>1. LinkHeld(g) /\ Types /\ g \in Conns
  BY DEF GatewayInv, Conns
<1>2. CASE Listen \/ Wire \/ UNCHANGED gatewayVars
  BY <1>1, <1>2, LinkStill DEF Listen, Wire, gatewayVars, hookVars, serverVars, LinkHeld
<1>3. CASE Stop \/ Crash
  <2>1. conn'[g] = IF conn[g] \in {"open", "ended"} THEN "destroyed" ELSE conn[g]
    BY <1>1, <1>3 DEF Stop, Crash, Destroyed
  <2>2. UNCHANGED <<up, buffer, hook, toolUseId, processed, asker>>
    BY <1>3 DEF Stop, Crash, hookVars, serverVars
  <2>3. QED
    BY <1>1, <2>1, <2>2, LinkStill DEF LinkHeld
<1>4. ASSUME NEW x \in Conns, NEW n \in 0..Len(up[x]), OnData(x, n)
      PROVE  LinkHeld(g)'
  BY <1>4, OnDataLink
<1>5. ASSUME NEW c \in Calls, GateThrows(c) \/ \E d \in {"allow", "deny"} : GateDecides(c, d)
      PROVE  LinkHeld(g)'
  BY <1>1, <1>5, LinkStill DEF GateThrows, GateDecides, hookVars, LinkHeld
<1>6. ASSUME NEW h \in Hooks, HookSteps(h)
      PROVE  LinkHeld(g)'
  <2>1. UNCHANGED <<up, buffer, toolUseId, processed, asker>>
    BY <1>6 DEF HookSteps, HookReads, HookLosesLink, HookTimesOut, serverVars
  <2>2. \/ UNCHANGED <<hook, conn>>
        \/ \E o \in {"allowed", "denied"} : Exit(h, o)
    BY <1>6, VerdictIs DEF HookSteps, HookReads, HookLosesLink, HookTimesOut
  <2>3. CASE UNCHANGED <<hook, conn>>
    BY <1>1, <2>1, <2>3, LinkStill DEF LinkHeld
  <2>4. ASSUME NEW o \in {"allowed", "denied"}, Exit(h, o)
        PROVE  LinkHeld(g)'
    <3>1. hook'[g] = hook[g] \/ hook'[g] = o
      BY <1>1, <2>4 DEF Exit, Types
    <3>2. conn'[g] = conn[g] \/ conn'[g] = "left"
      BY <1>1, <2>4 DEF Exit, Types
    <3>3. QED
      BY <1>1, <2>1, <3>1, <3>2, LinkStill DEF LinkHeld
  <2>5. QED
    BY <2>2, <2>3, <2>4
<1>7. ASSUME NEW h \in Hooks, HookRefuses(h)
      PROVE  LinkHeld(g)'
  <2>1. /\ hook' = [hook EXCEPT ![h] = "denied"]
        /\ UNCHANGED <<conn, up, buffer, toolUseId, processed, asker>>
    BY <1>7 DEF HookRefuses, serverVars
  <2>2. hook'[g] = hook[g] \/ hook'[g] = "denied"
    BY <1>1, <2>1 DEF Types
  <2>3. QED
    BY <1>1, <2>1, <2>2, LinkStill DEF LinkHeld
<1>8. ASSUME NEW h \in Hooks, NEW c \in Calls, HookAsks(h, c)
      PROVE  LinkHeld(g)'
  <2>1. /\ hook[h] = "idle"
        /\ hook' = [hook EXCEPT ![h] = "waiting"]
        /\ toolUseId' = [toolUseId EXCEPT ![h] = c]
        /\ conn' = [conn EXCEPT ![h] = "open"]
        /\ up' = [up EXCEPT ![h] = <<Request(c)>>]
        /\ UNCHANGED <<buffer, processed, asker>>
    BY <1>8 DEF HookAsks, serverVars
  <2>2. CASE g = h
    <3>1. /\ hook'[g] = "waiting" /\ toolUseId'[g] = c /\ conn'[g] = "open"
          /\ up'[g] = <<Request(c)>> /\ buffer'[g] = <<>>
      BY <1>1, <2>1, <2>2 DEF Types, LinkHeld
    <3>2. \A e \in processed' : asker'[e] # g
      <4>1. processed \subseteq Calls
        BY ServerTypes DEF GatewayInv
      <4>2. QED
        BY <1>1, <2>1, <2>2, <4>1 DEF LinkHeld, ConnsAssumption
    <3>3. \A i \in 1..Len(up'[g]) : up'[g][i] = Request(toolUseId'[g])
      BY <3>1
    <3>4. QED
      BY <3>1, <3>2, <3>3 DEF LinkHeld
  <2>3. CASE g # h
    <3>1. /\ hook'[g] = hook[g] /\ toolUseId'[g] = toolUseId[g] /\ conn'[g] = conn[g]
          /\ up'[g] = up[g]
      BY <1>1, <2>1, <2>3 DEF Types
    <3>2. QED
      BY <1>1, <2>1, <3>1, LinkStill DEF LinkHeld
  <2>4. QED
    BY <2>2, <2>3
<1>9. ASSUME NEW p \in Peers, NEW fs, PeerWrites(p, fs)
      PROVE  LinkHeld(g)'
  <2>1. /\ conn'[g] = conn[g] /\ up'[g] = up[g]
        /\ UNCHANGED <<buffer, hook, toolUseId, processed, asker>>
    BY <1>1, <1>9 DEF PeerWrites, hookVars, serverVars, ConnsAssumption, Types
  <2>2. QED
    BY <1>1, <2>1, LinkStill DEF LinkHeld
<1>10. QED
  BY <1>2, <1>3, <1>4, <1>5, <1>6, <1>7, <1>8, <1>9 DEF GatewayNext

------------------------------------------------------------------------------
(* The theorems.                                                            *)

LEMMA GatewayInitInv == ConnsAssumption /\ GatewayInit => GatewayInv
<1> SUFFICES ASSUME ConnsAssumption, GatewayInit PROVE GatewayInv
  OBVIOUS
<1>1. <<>> \in Seq(Frame) /\ <<>> \in Seq(Reply) /\ Len(<<>>) = 0
  BY EmptySeq
<1>2. Types
  BY <1>1 DEF GatewayInit, Types
<1>3. ServerOK(Server)
  <2>1. \A x \in Conns : 1..Len(down[x]) = {}
    BY <1>1 DEF GatewayInit
  <2>2. Server \in Servers
    BY <1>1 DEF GatewayInit, Server, Servers
  <2>3. /\ \A c \in Calls : Server.gate[c] = "none"
        /\ Server.pending = {} /\ Server.down = down
    BY DEF GatewayInit, Server
  <2>4. QED
    BY <2>1, <2>2, <2>3 DEF ServerOK
<1>4. \A h \in Hooks : hook[h] = "idle"
  BY DEF GatewayInit
<1>5. \A h \in Hooks : LinkHeld(h)
  <2>1. \A h \in Hooks : h \in Conns /\ conn[h] = "none" /\ up[h] = <<>> /\ buffer[h] = <<>>
    BY DEF GatewayInit, Conns
  <2>2. processed = {} /\ \A h \in Hooks : toolUseId[h] = NoCall
    BY DEF GatewayInit
  <2>3. QED
    BY <1>1, <2>1, <2>2 DEF LinkHeld
<1>6. QED
  BY <1>2, <1>3, <1>4, <1>5 DEF GatewayInv, WaitingHeld, AllowedHeld

LEMMA GatewayStepInv == ConnsAssumption /\ GatewayInv /\ [GatewayNext]_gatewayVars => GatewayInv'
<1> SUFFICES ASSUME ConnsAssumption, GatewayInv, [GatewayNext]_gatewayVars PROVE GatewayInv'
  OBVIOUS
<1>1. Types' /\ ServerOK(Server')
  BY TypesStep, ServerStep
<1>2. \A g \in Hooks : Held(g)' /\ LinkHeld(g)'
  BY HeldStep, LinkStep
<1>3. QED
  BY <1>1, <1>2 DEF GatewayInv, Held

LEMMA GatewaySpecInv ==
  ASSUME ConnsAssumption
  PROVE  GatewaySpec => []GatewayInv
<1>1. GatewayInit => GatewayInv
  BY GatewayInitInv
<1>2. GatewayInv /\ [GatewayNext]_gatewayVars => GatewayInv'
  BY GatewayStepInv
<1>3. QED
  BY <1>1, <1>2, PTL DEF GatewaySpec

\* For any number of hooks and strangers, frames and ids, in whatever chunks
\* they arrive: a hook lets its tool run only on the gate's own allow for the
\* request that very hook sent.
THEOREM SpecAllowedByGate ==
  ASSUME ConnsAssumption
  PROVE  GatewaySpec => []AllowedByGate
<1>1. GatewayInv => AllowedByGate
  BY DEF GatewayInv, AllowedHeld, AllowedByGate
<1>2. QED
  BY <1>1, GatewaySpecInv, PTL

\* Once the server is stopped or dead, a hook that still waits has lost its
\* connection, so that it cannot be left undecided.
THEOREM SpecStopUnblocks ==
  ASSUME ConnsAssumption
  PROVE  GatewaySpec => []StopUnblocks
<1>1. GatewayInv => StopUnblocks
  BY DEF GatewayInv, WaitingHeld, StopUnblocks
<1>2. QED
  BY <1>1, GatewaySpecInv, PTL

\* An id is put to the gate at most once in the life of a server, on whatever
\* connection and in whatever chunk it comes back.
THEOREM SpecMediatedOnce ==
  ASSUME ConnsAssumption
  PROVE  GatewaySpec => MediatedOnce
<1>1. ASSUME GatewayInv, [GatewayNext]_gatewayVars
      PROVE  [\A c \in Calls : gate[c] # "none" =>
                /\ asker'[c] = asker[c]
                /\ gate'[c] = "asked" => gate[c] = "asked"]_gatewayVars
  <2>1. SUFFICES ASSUME NEW c \in Calls, gate[c] # "none"
                 PROVE  asker'[c] = asker[c] /\ (gate'[c] = "asked" => gate[c] = "asked")
    OBVIOUS
  <2>2. ASSUME NEW x \in Conns, NEW n \in 0..Len(up[x]), OnData(x, n)
        PROVE  asker'[c] = asker[c] /\ gate'[c] = gate[c]
    <3>1. Follows(Server, Server')
      BY <1>1, <2>2, OnDataKeeps
    <3>2. QED
      BY <2>1, <3>1 DEF Follows, Server
  <2>3. ASSUME NEW e \in Calls, NEW d \in {"allow", "deny", "threw"},
               gate' = [gate EXCEPT ![e] = d], asker' = asker
        PROVE  asker'[c] = asker[c] /\ (gate'[c] = "asked" => gate[c] = "asked")
    BY <1>1, <2>1, <2>3, ServerTypes DEF GatewayInv
  <2>4. CASE UNCHANGED <<gate, asker>>
    BY <2>1, <2>4
  <2>5. QED
    BY <1>1, <2>2, <2>3, <2>4 DEF GatewayNext, gatewayVars, serverVars, Listen, Wire, Stop, Crash, GateThrows,
         GateDecides, HookSteps, HookReads, HookLosesLink, HookTimesOut, HookRefuses, HookAsks,
         PeerWrites
<1>2. QED
  BY <1>1, GatewaySpecInv, PTL DEF GatewaySpec, MediatedOnce

\* Whatever any number of strangers write, in whatever chunks, and whatever is
\* left of it in their decoders: no hook's link is ended by a protocol error, and
\* no request is handled for a hook but its own (server.ts onConnection).
THEOREM SpecLinksApart ==
  ASSUME ConnsAssumption
  PROVE  GatewaySpec => []LinksApart
<1>1. GatewayInv => LinksApart
  BY DEF GatewayInv, LinkHeld, LinksApart
<1>2. QED
  BY <1>1, GatewaySpecInv, PTL
================================================================================
