---------------------------- MODULE MediationProofs ----------------------------
(****************************************************************************)
(* Proofs about the governance loop, for any set of calls and any choice of *)
(* handler for each: types, write-ahead authorisation, one story per call   *)
(* in the journal, and agreement of what the intendant is told with it.     *)
(*                                                                          *)
(* The calls share nothing but the journal, of which each sees its own      *)
(* projection, so the inductive invariant is a predicate of one call: Local *)
(* lists the situations a call can be in.                                   *)
(****************************************************************************)
EXTENDS Mediation, SequenceTheorems, TLAPS

------------------------------------------------------------------------------
(* Short sequences.                                                         *)

LEMMA Tuples ==
  ASSUME NEW S, NEW a \in S, NEW b \in S, NEW d \in S
  PROVE  /\ <<>> \in Seq(S) /\ Len(<<>>) = 0
         /\ <<a>> \in Seq(S) /\ Len(<<a>>) = 1 /\ <<a>>[1] = a
         /\ <<a, b>> \in Seq(S) /\ Len(<<a, b>>) = 2
         /\ <<a, b>>[1] = a /\ <<a, b>>[2] = b
         /\ <<a, b, d>> \in Seq(S) /\ Len(<<a, b, d>>) = 3
         /\ <<a, b, d>>[1] = a /\ <<a, b, d>>[2] = b /\ <<a, b, d>>[3] = d
  OBVIOUS

LEMMA IsSingle ==
  ASSUME NEW S, NEW s \in Seq(S), NEW a \in S, Len(s) = 1, s[1] = a
  PROVE  s = <<a>>
  <1> DEFINE t == <<a>>
  <1>1. t \in Seq(S) /\ Len(t) = 1 /\ t[1] = a
    BY Tuples
  <1> HIDE DEF t
  <1>2. s = t
    BY <1>1, SeqEqual
  <1>3. QED
    BY <1>2 DEF t

LEMMA IsPair ==
  ASSUME NEW S, NEW s \in Seq(S), NEW a \in S, NEW b \in S,
         Len(s) = 2, s[1] = a, s[2] = b
  PROVE  s = <<a, b>>
  <1> DEFINE t == <<a, b>>
  <1>1. t \in Seq(S) /\ Len(t) = 2 /\ t[1] = a /\ t[2] = b
    BY Tuples
  <1> HIDE DEF t
  <1>2. s = t
    BY <1>1, SeqEqual
  <1>3. QED
    BY <1>2 DEF t

LEMMA IsTriple ==
  ASSUME NEW S, NEW s \in Seq(S), NEW a \in S, NEW b \in S, NEW d \in S,
         Len(s) = 3, s[1] = a, s[2] = b, s[3] = d
  PROVE  s = <<a, b, d>>
  <1> DEFINE t == <<a, b, d>>
  <1>1. t \in Seq(S) /\ Len(t) = 3 /\ t[1] = a /\ t[2] = b /\ t[3] = d
    BY Tuples
  <1> HIDE DEF t
  <1>2. s = t
    BY <1>1, SeqEqual
  <1>3. QED
    BY <1>2 DEF t

LEMMA Concat ==
  ASSUME NEW S, NEW a \in S, NEW b \in S, NEW d \in S
  PROVE  /\ <<>> \o <<a>> = <<a>>
         /\ <<>> \o <<a, b>> = <<a, b>>
         /\ <<a>> \o <<>> = <<a>>
         /\ <<>> \o <<>> = <<>>
         /\ <<a>> \o <<b>> = <<a, b>>
         /\ <<a>> \o <<b, d>> = <<a, b, d>>
         /\ <<a, b>> \o <<d>> = <<a, b, d>>
         /\ <<a, b>> \o <<>> = <<a, b>>
  <1> DEFINE u == <<a>>
             v == <<b>>
             w == <<d>>
             uv == <<a, b>>
             vw == <<b, d>>
  <1>1. /\ u \in Seq(S) /\ Len(u) = 1 /\ u[1] = a
        /\ v \in Seq(S) /\ Len(v) = 1 /\ v[1] = b
        /\ w \in Seq(S) /\ Len(w) = 1 /\ w[1] = d
        /\ uv \in Seq(S) /\ Len(uv) = 2 /\ uv[1] = a /\ uv[2] = b
        /\ vw \in Seq(S) /\ Len(vw) = 2 /\ vw[1] = b /\ vw[2] = d
    BY Tuples
  <1> HIDE DEF u, v, w, uv, vw
  <1>2. u \o v = <<a, b>>
    <2> DEFINE z == u \o v
    <2>1. /\ z \in Seq(S) /\ Len(z) = 2
          /\ \A i \in 1..2 : z[i] = IF i <= 1 THEN u[i] ELSE v[i - 1]
      <3>1. u \in Seq(S) /\ v \in Seq(S) /\ Len(u) = 1 /\ Len(v) = 1
        BY <1>1
      <3>2. /\ z \in Seq(S)
            /\ Len(z) = Len(u) + Len(v)
            /\ \A i \in 1..Len(u) + Len(v) :
                 z[i] = IF i <= Len(u) THEN u[i] ELSE v[i - Len(u)]
        BY <3>1, ConcatProperties
      <3>3. QED
        BY <3>1, <3>2
    <2> HIDE DEF z
    <2>2. z[1] = a /\ z[2] = b
      BY <1>1, <2>1
    <2>3. z = <<a, b>>
      BY <2>1, <2>2, IsPair
    <2>4. QED
      BY <2>3 DEF z
  <1>3. u \o vw = <<a, b, d>>
    <2> DEFINE z == u \o vw
    <2>1. /\ z \in Seq(S) /\ Len(z) = 3
          /\ \A i \in 1..3 : z[i] = IF i <= 1 THEN u[i] ELSE vw[i - 1]
      <3>1. u \in Seq(S) /\ vw \in Seq(S) /\ Len(u) = 1 /\ Len(vw) = 2
        BY <1>1
      <3>2. /\ z \in Seq(S)
            /\ Len(z) = Len(u) + Len(vw)
            /\ \A i \in 1..Len(u) + Len(vw) :
                 z[i] = IF i <= Len(u) THEN u[i] ELSE vw[i - Len(u)]
        BY <3>1, ConcatProperties
      <3>3. QED
        BY <3>1, <3>2
    <2> HIDE DEF z
    <2>2. z[1] = a /\ z[2] = b /\ z[3] = d
      BY <1>1, <2>1
    <2>3. z = <<a, b, d>>
      BY <2>1, <2>2, IsTriple
    <2>4. QED
      BY <2>3 DEF z
  <1>4. uv \o w = <<a, b, d>>
    <2> DEFINE z == uv \o w
    <2>1. /\ z \in Seq(S) /\ Len(z) = 3
          /\ \A i \in 1..3 : z[i] = IF i <= 2 THEN uv[i] ELSE w[i - 2]
      <3>1. uv \in Seq(S) /\ w \in Seq(S) /\ Len(uv) = 2 /\ Len(w) = 1
        BY <1>1
      <3>2. /\ z \in Seq(S)
            /\ Len(z) = Len(uv) + Len(w)
            /\ \A i \in 1..Len(uv) + Len(w) :
                 z[i] = IF i <= Len(uv) THEN uv[i] ELSE w[i - Len(uv)]
        BY <3>1, ConcatProperties
      <3>3. QED
        BY <3>1, <3>2
    <2> HIDE DEF z
    <2>2. z[1] = a /\ z[2] = b
      BY <1>1, <2>1
    <2>3. z[3] = d
      <3>1. 3 \in 1..3 /\ ~(3 <= 2) /\ 3 - 2 = 1
        OBVIOUS
      <3>2. z[3] = w[3 - 2]
        BY <2>1, <3>1
      <3>3. QED
        BY <1>1, <3>1, <3>2
    <2>4. z = <<a, b, d>>
      BY <2>1, <2>2, <2>3, IsTriple
    <2>5. QED
      BY <2>4 DEF z
  <1>5. /\ <<>> \o u = u /\ u \o <<>> = u
        /\ <<>> \o uv = uv /\ uv \o <<>> = uv
    BY <1>1, ConcatEmptySeq
  <1>6. <<>> \o <<>> = <<>>
    OBVIOUS
  <1>7. QED
    BY <1>2, <1>3, <1>4, <1>5, <1>6 DEF u, v, w, uv, vw

LEMMA Prefixes ==
  ASSUME NEW S, NEW a \in S, NEW b \in S
  PROVE  /\ \A n \in 0..Len(<<a>>) : SubSeq(<<a>>, 1, n) \in {<<>>, <<a>>}
         /\ \A n \in 0..Len(<<a, b>>) :
              SubSeq(<<a, b>>, 1, n) \in {<<>>, <<a>>, <<a, b>>}
  <1> DEFINE u == <<a>>
             s == <<a, b>>
  <1>1. /\ u \in Seq(S) /\ Len(u) = 1 /\ u[1] = a
        /\ s \in Seq(S) /\ Len(s) = 2 /\ s[1] = a /\ s[2] = b
    BY Tuples
  <1>2. SubSeq(u, 1, 0) = <<>> /\ SubSeq(s, 1, 0) = <<>>
    OBVIOUS
  <1> HIDE DEF u, s
  <1>3. SubSeq(u, 1, 1) = <<a>>
    <2>1. \A i \in 1..1 : u[i] \in S
      BY <1>1
    <2>2. /\ SubSeq(u, 1, 1) \in Seq(S) /\ Len(SubSeq(u, 1, 1)) = 1
          /\ SubSeq(u, 1, 1)[1] = a
      BY <1>1, <2>1, SubSeqProperties
    <2>3. QED
      BY <2>2, IsSingle
  <1>4. SubSeq(s, 1, 1) = <<a>>
    <2>1. \A i \in 1..1 : s[i] \in S
      BY <1>1
    <2>2. /\ SubSeq(s, 1, 1) \in Seq(S) /\ Len(SubSeq(s, 1, 1)) = 1
          /\ SubSeq(s, 1, 1)[1] = a
      BY <1>1, <2>1, SubSeqProperties
    <2>3. QED
      BY <2>2, IsSingle
  <1>5. SubSeq(s, 1, 2) = <<a, b>>
    <2> DEFINE z == SubSeq(s, 1, 2)
    <2>1. \A i \in 1..2 : s[i] \in S
      BY <1>1
    <2>2. z \in Seq(S) /\ Len(z) = 2 /\ z[1] = a /\ z[2] = b
      BY <1>1, <2>1, SubSeqProperties
    <2> HIDE DEF z
    <2>3. z = <<a, b>>
      BY <2>2, IsPair, Zenon
    <2>4. QED
      BY <2>3 DEF z
  <1>6. \A n \in 0..Len(u) : SubSeq(u, 1, n) \in {<<>>, <<a>>}
    BY <1>1, <1>2, <1>3
  <1>7. \A n \in 0..Len(s) : SubSeq(s, 1, n) \in {<<>>, <<a>>, <<a, b>>}
    BY <1>1, <1>2, <1>4, <1>5
  <1>8. QED
    BY <1>6, <1>7 DEF u, s

------------------------------------------------------------------------------
(* The situations of a call: mode m, suspended at p, verdict v, answer a,   *)
(* journal trail t, r: handed to exec, s: what the intendant was told.      *)

Allows(v, a, t) ==
  \/ v = "allow" /\ t = <<"call.allow">>
  \/ v = "require" /\ a = "approve" /\ t = <<"call.require", "approval.granted">>

AllowsThen(v, a, t, k) ==
  \/ v = "allow" /\ t = <<"call.allow", k>>
  \/ v = "require" /\ a = "approve" /\ t = <<"call.require", "approval.granted", k>>

Denies(v, a, t) ==
  \/ v = "deny" /\ t = <<"call.deny">>
  \/ v = "require" /\ t = <<"call.require", "approval.denied">>

DeniesThen(v, a, t, k) ==
  \/ v = "deny" /\ t = <<"call.deny", k>>
  \/ v = "require" /\ t = <<"call.require", "approval.denied", k>>

\* Not begun; at its prompt; cut short by an append, a placeholder or a prompt.
Early(m, p, v, a, t, r, s) ==
  /\ ~r /\ s = "nothing"
  /\ \/ p = "idle" /\ t = <<>>
     \/ p \in {"posting", "awaiting", "unposted"} /\ v = "require" /\ t = <<"call.require">>
     \/ p = "threw" /\ t \in Stories(m)

\* Executing, or interrupted before the result was handed over.
Running(m, p, v, a, t, r, s) ==
  /\ m = "mediate" /\ r /\ s = "nothing"
  /\ \/ p \in {"executing", "threw"} /\ Allows(v, a, t)
     \/ p = "threw" /\ AllowsThen(v, a, t, "call.executed")

\* The intendant has been told.
Told(m, p, v, a, t, r, s) ==
  /\ p \in {"delivering", "done", "threw"}
  /\ \/ m = "mediate" /\ r /\ s = "result" /\ AllowsThen(v, a, t, "call.executed")
     \/ m = "mediate" /\ ~r /\ s = v /\ Denies(v, a, t)
     \/ m = "gate" /\ ~r /\ s = "allow" /\ AllowsThen(v, a, t, "gate.allow")
     \/ m = "gate" /\ ~r /\ s = "deny" /\ DeniesThen(v, a, t, "gate.deny")

Situation(m, p, v, a, t, r, s) ==
  \/ Early(m, p, v, a, t, r, s)
  \/ Running(m, p, v, a, t, r, s)
  \/ Told(m, p, v, a, t, r, s)

Local(c) ==
  Situation(ModeOf[c], pc[c], policyVerdict[c], answer[c], trail[c], ran[c], told[c])

IInv == TypeOK /\ \A c \in Call : Local(c)

------------------------------------------------------------------------------
(* What a situation says.                                                   *)

LEMMA SituationIsStory ==
  ASSUME NEW m \in {"mediate", "gate"}, NEW p, NEW v, NEW a, NEW t, NEW r, NEW s,
         Situation(m, p, v, a, t, r, s)
  PROVE  t \in Stories(m)
  BY DEF Situation, Early, Running, Told, Allows, AllowsThen, Denies, DeniesThen, Stories

LEMMA Kinds ==
  /\ "call.allow" \in Kind /\ "call.deny" \in Kind /\ "call.require" \in Kind
  /\ "approval.granted" \in Kind /\ "approval.denied" \in Kind
  /\ "call.executed" \in Kind /\ "gate.allow" \in Kind /\ "gate.deny" \in Kind
  BY DEF Kind

LEMMA StoryType ==
  ASSUME NEW m \in {"mediate", "gate"}, NEW t \in Stories(m)
  PROVE  t \in Seq(Kind)
  <1>1. CASE t = <<>>
    BY <1>1
  <1>2. CASE \E a \in Kind : t = <<a>>
    BY <1>2, Tuples
  <1>3. CASE \E a, b \in Kind : t = <<a, b>>
    BY <1>3, Tuples
  <1>4. CASE \E a, b, d \in Kind : t = <<a, b, d>>
    BY <1>4, Tuples
  <1>5. CASE \/ t = <<>> \/ t = <<"call.require">> \/ t = <<"call.allow">>
             \/ t = <<"call.deny">>
    BY <1>1, <1>2, <1>5, Kinds
  <1>6. CASE \/ t = <<"call.require", "approval.granted">>
             \/ t = <<"call.require", "approval.denied">>
             \/ t = <<"call.allow", "call.executed">>
             \/ t = <<"call.allow", "gate.allow">> \/ t = <<"call.deny", "gate.deny">>
    BY <1>3, <1>6, Kinds
  <1>7. CASE \/ t = <<"call.require", "approval.granted", "call.executed">>
             \/ t = <<"call.require", "approval.granted", "gate.allow">>
             \/ t = <<"call.require", "approval.denied", "gate.deny">>
    BY <1>4, <1>7, Kinds
  <1>8. QED
    BY <1>5, <1>6, <1>7 DEF Stories

LEMMA Heads ==
  ASSUME NEW S, NEW a \in S, NEW b \in S, NEW d \in S
  PROVE  /\ <<a>> # <<>> /\ Head(<<a>>) = a
         /\ <<a, b>> # <<>> /\ Head(<<a, b>>) = a
         /\ <<a, b, d>> # <<>> /\ Head(<<a, b, d>>) = a
  BY Tuples

LEMMA AllowsAuthorises ==
  ASSUME NEW c \in Call, NEW k \in Kind,
         \/ Allows(policyVerdict[c], answer[c], trail[c])
         \/ AllowsThen(policyVerdict[c], answer[c], trail[c], k)
  PROVE  /\ Authorised(c)
         /\ policyVerdict[c] # "deny"
         /\ policyVerdict[c] = "require" => answer[c] = "approve"
  <1>1. CASE policyVerdict[c] = "allow"
    <2>1. trail[c] = <<"call.allow">> \/ trail[c] = <<"call.allow", k>>
      BY <1>1 DEF Allows, AllowsThen
    <2>2. trail[c] # <<>> /\ Head(trail[c]) = "call.allow"
      <3>1. CASE trail[c] = <<"call.allow">>
        BY <3>1, Kinds, Heads
      <3>2. CASE trail[c] = <<"call.allow", k>>
        BY <3>2, Kinds, Heads
      <3>3. QED
        BY <2>1, <3>1, <3>2
    <2>3. QED
      BY <1>1, <2>2 DEF Authorised
  <1>2. CASE policyVerdict[c] = "require"
    <2>1. /\ answer[c] = "approve"
          /\ \/ trail[c] = <<"call.require", "approval.granted">>
             \/ trail[c] = <<"call.require", "approval.granted", k>>
      BY <1>2 DEF Allows, AllowsThen
    <2>2. Len(trail[c]) >= 2 /\ trail[c][2] = "approval.granted"
      <3>1. CASE trail[c] = <<"call.require", "approval.granted">>
        BY <3>1, Kinds, Tuples
      <3>2. CASE trail[c] = <<"call.require", "approval.granted", k>>
        BY <3>2, Kinds, Tuples
      <3>3. QED
        BY <2>1, <3>1, <3>2
    <2>3. QED
      BY <1>2, <2>1, <2>2 DEF Authorised
  <1>3. QED
    BY <1>1, <1>2 DEF Allows, AllowsThen

LEMMA DeniesRefuses ==
  ASSUME NEW c \in Call, Denies(policyVerdict[c], answer[c], trail[c])
  PROVE  ~Authorised(c)
  <1>1. CASE trail[c] = <<"call.deny">>
    <2>1. Head(trail[c]) = "call.deny" /\ Len(trail[c]) = 1
      BY <1>1, Heads, Tuples
    <2>2. QED
      BY <2>1 DEF Authorised
  <1>2. CASE trail[c] = <<"call.require", "approval.denied">>
    <2>1. Head(trail[c]) = "call.require" /\ trail[c][2] = "approval.denied"
      BY <1>2, Heads, Tuples
    <2>2. QED
      BY <2>1 DEF Authorised
  <1>3. QED
    BY <1>1, <1>2 DEF Denies

LEMMA InvWriteAhead == IInv => WriteAhead
  <1> SUFFICES ASSUME IInv, NEW c \in Call, TakesEffect(c)
               PROVE  /\ Authorised(c)
                      /\ policyVerdict[c] # "deny"
                      /\ policyVerdict[c] = "require" => answer[c] = "approve"
    BY DEF WriteAhead
  <1>1. Local(c)
    BY DEF IInv
  <1>2. \/ Allows(policyVerdict[c], answer[c], trail[c])
        \/ AllowsThen(policyVerdict[c], answer[c], trail[c], "call.executed")
        \/ AllowsThen(policyVerdict[c], answer[c], trail[c], "gate.allow")
    BY <1>1 DEF Local, Situation, Early, Running, Told, TakesEffect
  <1>3. QED
    BY <1>2, Kinds, AllowsAuthorises

LEMMA InvOneStory == IInv => OneStory
  <1> SUFFICES ASSUME IInv, NEW c \in Call
               PROVE  trail[c] \in Stories(ModeOf[c])
    BY DEF OneStory
  <1>1. ModeOf[c] \in {"mediate", "gate"}
    BY ModeAssumption
  <1>2. QED
    BY <1>1, SituationIsStory DEF IInv, Local

LEMMA InvToldMatchesJournal == IInv => ToldMatchesJournal
  <1> SUFFICES ASSUME IInv, NEW c \in Call, told[c] # "nothing"
               PROVE  LET last == trail[c][Len(trail[c])]
                      IN CASE told[c] = "result" -> ran[c] /\ last = "call.executed"
                           [] ModeOf[c] = "gate" -> last = GateKind(told[c])
                           [] OTHER -> ~Authorised(c) /\ ~ran[c]
    BY DEF ToldMatchesJournal
  <1> DEFINE last == trail[c][Len(trail[c])]
  <1>1. Told(ModeOf[c], pc[c], policyVerdict[c], answer[c], trail[c], ran[c], told[c])
    BY DEF IInv, Local, Situation, Early, Running
  <1>2. ASSUME NEW k \in Kind,
               \/ AllowsThen(policyVerdict[c], answer[c], trail[c], k)
               \/ DeniesThen(policyVerdict[c], answer[c], trail[c], k)
        PROVE  last = k
    <2>1. \/ \E a \in Kind : trail[c] = <<a, k>>
          \/ \E a, b \in Kind : trail[c] = <<a, b, k>>
      BY <1>2, Kinds DEF AllowsThen, DeniesThen
    <2>2. CASE \E a \in Kind : trail[c] = <<a, k>>
      BY <2>2, Tuples
    <2>3. CASE \E a, b \in Kind : trail[c] = <<a, b, k>>
      BY <2>3, Tuples
    <2>4. QED
      BY <2>1, <2>2, <2>3
  <1>3. CASE told[c] = "result" /\ ModeOf[c] = "mediate"
    <2>1. ran[c] /\ AllowsThen(policyVerdict[c], answer[c], trail[c], "call.executed")
      BY <1>1, <1>3 DEF Told, Denies
    <2>2. last = "call.executed"
      BY <1>2, <2>1, Kinds
    <2>3. QED
      BY <1>3, <2>1, <2>2
  <1>4. CASE told[c] # "result" /\ ModeOf[c] = "mediate"
    <2>1. ~ran[c] /\ Denies(policyVerdict[c], answer[c], trail[c])
      BY <1>1, <1>4 DEF Told
    <2>2. ~Authorised(c)
      BY <2>1, DeniesRefuses
    <2>3. QED
      BY <1>4, <2>1, <2>2
  <1>5. CASE ModeOf[c] = "gate"
    <2>1. \/ told[c] = "allow" /\ AllowsThen(policyVerdict[c], answer[c], trail[c], "gate.allow")
          \/ told[c] = "deny" /\ DeniesThen(policyVerdict[c], answer[c], trail[c], "gate.deny")
      BY <1>1, <1>5 DEF Told
    <2>2. told[c] # "result" /\ last = GateKind(told[c])
      BY <1>2, <2>1, Kinds DEF GateKind
    <2>3. QED
      BY <1>5, <2>2
  <1>6. ModeOf[c] \in {"mediate", "gate"}
    BY ModeAssumption
  <1>7. QED
    BY <1>3, <1>4, <1>5, <1>6

------------------------------------------------------------------------------
(* One call moves.                                                          *)

Becomes(c, p, v, a, t, r, s) ==
  /\ pc' = [pc EXCEPT ![c] = p]
  /\ policyVerdict' = [policyVerdict EXCEPT ![c] = v]
  /\ answer' = [answer EXCEPT ![c] = a]
  /\ trail' = [trail EXCEPT ![c] = t]
  /\ ran' = [ran EXCEPT ![c] = r]
  /\ told' = [told EXCEPT ![c] = s]

Place == {"idle"} \cup Suspended \cup Settled
Verdict == {"none"} \cup Decision
Answer == {"none", "approve", "deny", "failed"}

\* The other calls stay where they are: a step that puts the moving call in one
\* of the situations preserves the invariant.
LEMMA Change ==
  ASSUME IInv, NEW c \in Call,
         NEW p \in Place, NEW v \in Verdict, NEW a \in Answer, NEW t,
         NEW r \in BOOLEAN, NEW s \in Message,
         Becomes(c, p, v, a, t, r, s),
         Situation(ModeOf[c], p, v, a, t, r, s)
  PROVE  IInv'
  <1>1. t \in Seq(Kind)
    BY ModeAssumption, SituationIsStory, StoryType
  <1>2. TypeOK'
    BY <1>1 DEF IInv, TypeOK, Becomes, Place, Verdict, Answer
  <1>3. ASSUME NEW d \in Call
        PROVE  Local(d)'
    <2>1. CASE d = c
      BY <2>1 DEF IInv, TypeOK, Becomes, Local
    <2>2. CASE d # c
      <3>1. /\ pc'[d] = pc[d] /\ policyVerdict'[d] = policyVerdict[d] /\ answer'[d] = answer[d]
            /\ trail'[d] = trail[d] /\ ran'[d] = ran[d] /\ told'[d] = told[d]
        BY <2>2 DEF IInv, TypeOK, Becomes
      <3>2. QED
        BY <3>1 DEF IInv, Local
    <2>3. QED
      BY <2>1, <2>2
  <1>4. QED
    BY <1>2, <1>3 DEF IInv

LEMMA Same ==
  ASSUME NEW S, NEW f \in [Call -> S], NEW c \in Call
  PROVE  f = [f EXCEPT ![c] = f[c]]
  OBVIOUS

\* How a stretch may begin: trail t so far, next kind k, verdict v, answer a.
Opening(t, k, v, a, eff) ==
  \/ t = <<>> /\ v = "allow" /\ k = "call.allow" /\ eff = "allow"
  \/ t = <<>> /\ v = "deny" /\ k = "call.deny" /\ eff = "deny"
  \/ /\ t = <<"call.require">> /\ v = "require" /\ a = "approve"
     /\ k = "approval.granted" /\ eff = "allow"
  \/ /\ t = <<"call.require">> /\ v = "require"
     /\ k = "approval.denied" /\ eff = "deny"

LEMMA Openings ==
  ASSUME NEW t, NEW k, NEW v, NEW a, NEW eff, NEW g \in Kind, Opening(t, k, v, a, eff)
  PROVE  /\ k \in Kind
         /\ t \o <<>> = t
         /\ eff = "allow" => /\ Allows(v, a, t \o <<k>>)
                             /\ AllowsThen(v, a, t \o <<k, g>>, g)
         /\ eff = "deny" => /\ Denies(v, a, t \o <<k>>)
                            /\ DeniesThen(v, a, t \o <<k, g>>, g)
  <1>1. CASE t = <<>>
    <2>1. k \in Kind
      BY <1>1, Kinds DEF Opening
    <2>2. t \o <<>> = t /\ t \o <<k>> = <<k>> /\ t \o <<k, g>> = <<k, g>>
      BY <1>1, <2>1, Concat
    <2>3. \/ v = "allow" /\ k = "call.allow" /\ eff = "allow"
          \/ v = "deny" /\ k = "call.deny" /\ eff = "deny"
          \/ t = <<"call.require">>
      BY DEF Opening
    <2>4. t # <<"call.require">>
      BY <1>1, Kinds, Heads
    <2>5. QED
      BY <2>1, <2>2, <2>3, <2>4 DEF Allows, AllowsThen, Denies, DeniesThen
  <1>2. CASE t = <<"call.require">>
    <2>1. k \in Kind
      BY <1>2, Kinds DEF Opening
    <2>2. /\ t \o <<>> = t
          /\ t \o <<k>> = <<"call.require", k>>
          /\ t \o <<k, g>> = <<"call.require", k, g>>
      <3>1. "call.require" \in Kind
        BY Kinds
      <3>2. /\ <<"call.require">> \o <<>> = <<"call.require">>
            /\ <<"call.require">> \o <<k>> = <<"call.require", k>>
            /\ <<"call.require">> \o <<k, g>> = <<"call.require", k, g>>
        BY <2>1, <3>1, Concat, Zenon
      <3>3. QED
        BY <1>2, <3>2, Zenon
    <2>3. \/ t = <<>>
          \/ v = "require" /\ a = "approve" /\ k = "approval.granted" /\ eff = "allow"
          \/ v = "require" /\ k = "approval.denied" /\ eff = "deny"
      BY DEF Opening
    <2>4. t # <<>>
      BY <1>2, Kinds, Heads
    <2>5. QED
      BY <2>1, <2>2, <2>3, <2>4 DEF Allows, AllowsThen, Denies, DeniesThen
  <1>3. QED
    BY <1>1, <1>2 DEF Opening

\* A stretch that ends in a throw leaves the call where it stopped.
LEMMA Thrown ==
  ASSUME IInv, NEW c \in Call, NEW es,
         NEW v \in Verdict, NEW a \in Answer,
         policyVerdict' = [policyVerdict EXCEPT ![c] = v], answer' = [answer EXCEPT ![c] = a],
         ran[c] = FALSE, told[c] = "nothing",
         \A n \in 0..Len(es) : trail[c] \o SubSeq(es, 1, n) \in Stories(ModeOf[c]),
         JournalThrows(c, es)
  PROVE  IInv'
  <1>1. PICK n \in 0..Len(es) : trail' = [trail EXCEPT ![c] = @ \o SubSeq(es, 1, n)]
    BY DEF JournalThrows, Journals
  <1> DEFINE t == trail[c] \o SubSeq(es, 1, n)
  <1>2. t \in Stories(ModeOf[c]) /\ trail' = [trail EXCEPT ![c] = t]
    BY <1>1
  <1> HIDE DEF t
  <1>3. /\ pc' = [pc EXCEPT ![c] = "threw"]
        /\ ran' = [ran EXCEPT ![c] = FALSE]
        /\ told' = [told EXCEPT ![c] = "nothing"]
    BY Same DEF JournalThrows, IInv, TypeOK
  <1>4. Becomes(c, "threw", v, a, t, FALSE, "nothing")
    BY <1>2, <1>3 DEF Becomes
  <1>5. Situation(ModeOf[c], "threw", v, a, t, FALSE, "nothing")
    BY <1>2 DEF Situation, Early
  <1>6. QED
    BY <1>4, <1>5, Change DEF Place, Settled, Rejected, Message

LEMMA Effect ==
  ASSUME IInv, NEW c \in Call, NEW k \in Kind,
         NEW v \in Decision, NEW a \in Answer, NEW eff \in {"allow", "deny"},
         policyVerdict' = [policyVerdict EXCEPT ![c] = v], answer' = [answer EXCEPT ![c] = a],
         ran[c] = FALSE, told[c] = "nothing", trail[c] \in Stories(ModeOf[c]),
         Opening(trail[c], k, v, a, eff),
         Effective(c, <<k>>, eff)
  PROVE  IInv'
  <1> DEFINE m == ModeOf[c]
             g == GateKind(eff)
             one == trail[c] \o <<k>>
             two == trail[c] \o <<k, g>>
  <1>1. /\ g \in Kind
        /\ eff = "allow" => g = "gate.allow"
        /\ eff = "deny" => g = "gate.deny"
    BY Kinds DEF GateKind
  <1>2. /\ trail[c] \o <<>> = trail[c]
        /\ eff = "allow" => Allows(v, a, one) /\ AllowsThen(v, a, two, g)
        /\ eff = "deny" => Denies(v, a, one) /\ DeniesThen(v, a, two, g)
    BY <1>1, Openings
  <1>3. m \in {"mediate", "gate"} /\ v \in Verdict
    BY ModeAssumption DEF Verdict
  <1>4. policyVerdict'[c] = v
    BY DEF IInv, TypeOK
  <1>5. one \in Stories(m)
    BY <1>2, <1>3 DEF Allows, Denies, Stories
  <1>6. m = "gate" => two \in Stories(m)
    BY <1>1, <1>2 DEF AllowsThen, DeniesThen, Stories
  <1>7. \A n \in 0..Len(<<k>>) : trail[c] \o SubSeq(<<k>>, 1, n) \in Stories(m)
    BY <1>2, <1>5, Prefixes
  <1>8. m = "gate" => \A n \in 0..Len(<<k, g>>) :
                        trail[c] \o SubSeq(<<k, g>>, 1, n) \in Stories(m)
    BY <1>1, <1>2, <1>5, <1>6, Prefixes
  <1>9. <<k>> \o <<g>> = <<k, g>>
    BY <1>1, Concat
  <1> HIDE DEF one, two, g
  <1>10. CASE m = "mediate" /\ MediateEffective(c, <<k>>, eff)
    <2>1. CASE JournalThrows(c, <<k>>)
      BY <2>1, <1>3, <1>7, Thrown
    <2>2. ASSUME Journals(c, <<k>>)
          PROVE  trail' = [trail EXCEPT ![c] = one]
      BY <2>2 DEF Journals, one
    <2>3. CASE Journals(c, <<k>>) /\ eff = "allow" /\ StartExec(c)
      <3>1. CASE ran' = [ran EXCEPT ![c] = TRUE]
        <4>1. pc' = [pc EXCEPT ![c] = "executing"] \/ pc' = [pc EXCEPT ![c] = "threw"]
          BY <2>3 DEF StartExec, Goto
        <4>2. told' = [told EXCEPT ![c] = "nothing"]
          BY <2>3, Same DEF StartExec, IInv, TypeOK
        <4>3. \A p \in {"executing", "threw"} : Situation(m, p, v, a, one, TRUE, "nothing")
          BY <1>2, <1>10, <2>3 DEF Situation, Running
        <4>4. \E p \in {"executing", "threw"} : Becomes(c, p, v, a, one, TRUE, "nothing")
          BY <2>2, <2>3, <3>1, <4>1, <4>2 DEF Becomes
        <4>5. QED
          BY <1>3, <4>3, <4>4, Change DEF Place, Suspended, Settled, Rejected, Message
      <3>2. CASE pc' = [pc EXCEPT ![c] = "threw"] /\ UNCHANGED <<ran, told>>
        <4>1. ran' = [ran EXCEPT ![c] = FALSE] /\ told' = [told EXCEPT ![c] = "nothing"]
          BY <3>2, Same DEF IInv, TypeOK
        <4>2. Becomes(c, "threw", v, a, one, FALSE, "nothing")
          BY <2>2, <2>3, <3>2, <4>1 DEF Becomes
        <4>3. Situation(m, "threw", v, a, one, FALSE, "nothing")
          BY <1>5 DEF Situation, Early
        <4>4. QED
          BY <1>3, <4>2, <4>3, Change DEF Place, Settled, Rejected, Message
      <3>3. QED
        BY <2>3, <3>1, <3>2 DEF StartExec, Goto
    <2>4. CASE Journals(c, <<k>>) /\ eff = "deny" /\ Deliver(c, policyVerdict'[c]) /\ UNCHANGED ran
      <3>1. /\ told' = [told EXCEPT ![c] = v]
            /\ pc' = [pc EXCEPT ![c] = "delivering"]
            /\ ran' = [ran EXCEPT ![c] = FALSE]
        BY <1>4, <2>4, Same DEF Deliver, Goto, IInv, TypeOK
      <3>2. Becomes(c, "delivering", v, a, one, FALSE, v)
        BY <2>2, <2>4, <3>1 DEF Becomes
      <3>3. Situation(m, "delivering", v, a, one, FALSE, v)
        BY <1>2, <1>10, <2>4 DEF Situation, Told
      <3>4. QED
        BY <1>3, <3>2, <3>3, Change DEF Place, Suspended, Message
    <2>5. QED
      BY <1>10, <2>1, <2>3, <2>4 DEF MediateEffective
  <1>11. CASE m = "gate" /\ GateEffective(c, <<k>>, eff)
    <2>1. CASE JournalThrows(c, <<k, g>>)
      BY <2>1, <1>3, <1>8, <1>11, Thrown
    <2>2. CASE Journals(c, <<k, g>>) /\ Deliver(c, eff) /\ UNCHANGED ran
      <3>1. /\ told' = [told EXCEPT ![c] = eff]
            /\ pc' = [pc EXCEPT ![c] = "delivering"]
            /\ ran' = [ran EXCEPT ![c] = FALSE]
            /\ trail' = [trail EXCEPT ![c] = two]
        BY <2>2, Same DEF Deliver, Goto, Journals, two, IInv, TypeOK
      <3>2. Becomes(c, "delivering", v, a, two, FALSE, eff)
        BY <3>1 DEF Becomes
      <3>3. Situation(m, "delivering", v, a, two, FALSE, eff)
        BY <1>1, <1>2, <1>11 DEF Situation, Told
      <3>4. QED
        BY <1>3, <3>2, <3>3, Change DEF Place, Suspended, Message, Decision
    <2>3. QED
      BY <1>9, <1>11, <2>1, <2>2 DEF GateEffective, g
  <1>12. QED
    BY <1>10, <1>11 DEF Effective

------------------------------------------------------------------------------
(* The actions.                                                             *)

LEMMA InitIInv == Init => IInv
  <1> SUFFICES ASSUME Init
               PROVE  TypeOK /\ \A c \in Call : Local(c)
    BY DEF IInv
  <1>1. TypeOK
    <2>1. <<>> \in Seq(Kind)
      OBVIOUS
    <2>2. QED
      BY <2>1 DEF Init, TypeOK, Message
  <1>2. \A c \in Call : Local(c)
    BY DEF Init, Local, Situation, Early
  <1>3. QED
    BY <1>1, <1>2

LEMMA EvaluateIInv ==
  ASSUME IInv, NEW c \in Call, NEW v \in Decision, Evaluate(c, v)
  PROVE  IInv'
  <1>1. trail[c] = <<>> /\ ran[c] = FALSE /\ told[c] = "nothing"
    BY DEF IInv, TypeOK, Evaluate, Local, Situation, Early, Running, Told
  <1>2. /\ policyVerdict' = [policyVerdict EXCEPT ![c] = v]
        /\ answer' = [answer EXCEPT ![c] = answer[c]]
        /\ answer[c] \in Answer
    BY Same DEF IInv, TypeOK, Evaluate, Answer
  <1>3. trail[c] \in Stories(ModeOf[c])
    BY <1>1 DEF Stories
  <1>4. CASE v # "require" /\ Effective(c, <<CallKind(v)>>, v)
    <2>1. v \in {"allow", "deny"}
      BY <1>4 DEF Decision
    <2>2. CallKind(v) \in Kind /\ Opening(trail[c], CallKind(v), v, answer[c], v)
      BY <1>1, <2>1, Kinds DEF CallKind, Opening
    <2>3. QED
      BY <1>1, <1>2, <1>3, <1>4, <2>1, <2>2, Effect
  <1>5. CASE v = "require" /\ JournalThrows(c, <<CallKind(v)>>)
    <2> DEFINE es == <<"call.require">>
    <2>1. JournalThrows(c, es)
      BY <1>5 DEF CallKind
    <2>2. \A n \in 0..Len(es) : SubSeq(es, 1, n) \in {<<>>, es}
      BY Kinds, Prefixes
    <2>3. trail[c] \o <<>> = <<>> /\ trail[c] \o es = es
      BY <1>1, Kinds, Concat
    <2>4. es \in Stories(ModeOf[c]) /\ <<>> \in Stories(ModeOf[c])
      BY DEF Stories
    <2> HIDE DEF es
    <2>5. \A n \in 0..Len(es) : trail[c] \o SubSeq(es, 1, n) \in Stories(ModeOf[c])
      BY <2>2, <2>3, <2>4
    <2>6. v \in Verdict
      BY DEF Verdict
    <2>7. QED
      BY <1>1, <1>2, <2>1, <2>5, <2>6, Thrown
  <1>6. CASE /\ v = "require"
             /\ Journals(c, <<CallKind(v)>>) /\ Goto(c, "posting")
             /\ UNCHANGED <<ran, told>>
    <2> DEFINE t == <<"call.require">>
    <2>1. trail[c] \o t = t
      BY <1>1, Kinds, Concat
    <2>2. trail' = [trail EXCEPT ![c] = t]
      BY <1>6, <2>1 DEF Journals, CallKind
    <2>3. ran' = [ran EXCEPT ![c] = FALSE] /\ told' = [told EXCEPT ![c] = "nothing"]
      BY <1>1, <1>6, Same DEF IInv, TypeOK
    <2>4. Situation(ModeOf[c], "posting", v, answer[c], t, FALSE, "nothing")
      BY <1>6 DEF Situation, Early
    <2> HIDE DEF t
    <2>5. Becomes(c, "posting", v, answer[c], t, FALSE, "nothing")
      BY <1>2, <1>6, <2>2, <2>3 DEF Becomes, Goto
    <2>6. v \in Verdict /\ "posting" \in Place /\ "nothing" \in Message
      BY DEF Verdict, Place, Suspended, Message
    <2>7. QED
      BY <1>2, <2>4, <2>5, <2>6, Change
  <1>7. QED
    BY <1>4, <1>5, <1>6 DEF Evaluate

\* A call at its prompt: what the invariant says of it.
LEMMA AtPrompt ==
  ASSUME IInv, NEW c \in Call, pc[c] \in {"posting", "awaiting"}
  PROVE  /\ policyVerdict[c] = "require" /\ trail[c] = <<"call.require">>
         /\ ran[c] = FALSE /\ told[c] = "nothing"
  BY DEF IInv, TypeOK, Local, Situation, Early, Running, Told

\* A step of the handler that only moves pc.
LEMMA Move ==
  ASSUME IInv, NEW c \in Call, NEW p \in Place, Goto(c, p),
         UNCHANGED <<policyVerdict, answer, trail, ran, told>>,
         Situation(ModeOf[c], p, policyVerdict[c], answer[c], trail[c], ran[c], told[c])
  PROVE  IInv'
  <1>1. Becomes(c, p, policyVerdict[c], answer[c], trail[c], ran[c], told[c])
    BY Same DEF Becomes, Goto, IInv, TypeOK
  <1>2. /\ policyVerdict[c] \in Verdict /\ answer[c] \in Answer
        /\ ran[c] \in BOOLEAN /\ told[c] \in Message
    BY DEF IInv, TypeOK, Verdict, Answer
  <1>3. QED
    BY <1>1, <1>2, Change

LEMMA PostIInv ==
  ASSUME IInv, NEW c \in Call, Posted(c) \/ PostFails(c)
  PROVE  IInv'
  <1>1. PICK p \in {"awaiting", "unposted"} :
          Goto(c, p) /\ UNCHANGED <<policyVerdict, answer, trail, ran, told>>
    BY DEF Posted, PostFails
  <1>2. Situation(ModeOf[c], p, policyVerdict[c], answer[c], trail[c], ran[c], told[c])
    BY AtPrompt DEF Posted, PostFails, Situation, Early
  <1>3. p \in Place
    BY DEF Place, Suspended, Settled, Rejected
  <1>4. QED
    BY <1>1, <1>2, <1>3, Move

LEMMA DecisionIInv ==
  ASSUME IInv, NEW c \in Call, NEW a \in {"approve", "deny", "failed"},
         NEW k \in {"approval.granted", "approval.denied"},
         NEW eff \in {"allow", "deny"},
         pc[c] = "awaiting",
         answer' = [answer EXCEPT ![c] = a], UNCHANGED policyVerdict,
         \/ a = "approve" /\ k = "approval.granted" /\ eff = "allow"
         \/ k = "approval.denied" /\ eff = "deny",
         Effective(c, <<k>>, eff)
  PROVE  IInv'
  <1>1. /\ policyVerdict[c] = "require" /\ trail[c] = <<"call.require">>
        /\ ran[c] = FALSE /\ told[c] = "nothing"
    BY AtPrompt
  <1>2. trail[c] \in Stories(ModeOf[c])
    BY <1>1 DEF Stories
  <1>3. policyVerdict' = [policyVerdict EXCEPT ![c] = "require"]
    BY <1>1, Same DEF IInv, TypeOK
  <1>4. Opening(trail[c], k, "require", a, eff)
    BY <1>1 DEF Opening
  <1>5. k \in Kind /\ "require" \in Decision /\ a \in Answer
    BY Kinds DEF Decision, Answer
  <1>6. QED
    BY <1>1, <1>2, <1>3, <1>4, <1>5, Effect

LEMMA AnsweredIInv ==
  ASSUME IInv, NEW c \in Call, NEW a \in {"approve", "deny"}, Answered(c, a)
  PROVE  IInv'
  <1>1. CASE a = "approve"
    <2>1. Effective(c, <<"approval.granted">>, "allow")
      BY <1>1 DEF Answered
    <2>2. QED
      BY <1>1, <2>1, DecisionIInv DEF Answered
  <1>2. CASE a = "deny"
    <2>1. Effective(c, <<"approval.denied">>, "deny")
      BY <1>2 DEF Answered
    <2>2. QED
      BY <1>2, <2>1, DecisionIInv DEF Answered
  <1>3. QED
    BY <1>1, <1>2

LEMMA NoAnswerIInv ==
  ASSUME IInv, NEW c \in Call, NoAnswer(c)
  PROVE  IInv'
  <1>1. Effective(c, <<"approval.denied">>, "deny")
    BY DEF NoAnswer
  <1>2. QED
    BY <1>1, DecisionIInv DEF NoAnswer

\* A call in exec: what the invariant says of it.
LEMMA AtExec ==
  ASSUME IInv, NEW c \in Call, pc[c] = "executing"
  PROVE  /\ ModeOf[c] = "mediate" /\ ran[c] = TRUE /\ told[c] = "nothing"
         /\ Allows(policyVerdict[c], answer[c], trail[c])
  BY DEF IInv, TypeOK, Local, Situation, Early, Running, Told

LEMMA ExecFailsIInv ==
  ASSUME IInv, NEW c \in Call, ExecFails(c)
  PROVE  IInv'
  <1>1. Situation(ModeOf[c], "threw", policyVerdict[c], answer[c], trail[c], ran[c], told[c])
    BY AtExec DEF ExecFails, Situation, Running
  <1>2. "threw" \in Place
    BY DEF Place, Settled, Rejected
  <1>3. QED
    BY <1>1, <1>2, Move DEF ExecFails

LEMMA ExecReturnsIInv ==
  ASSUME IInv, NEW c \in Call, ExecReturns(c)
  PROVE  IInv'
  <1> DEFINE es == <<"call.executed">>
             t == trail[c] \o es
  <1>1. /\ ModeOf[c] = "mediate" /\ ran[c] = TRUE /\ told[c] = "nothing"
        /\ Allows(policyVerdict[c], answer[c], trail[c])
    BY AtExec DEF ExecReturns
  <1>2. AllowsThen(policyVerdict[c], answer[c], t, "call.executed") /\ trail[c] \o <<>> = trail[c]
    <2>1. CASE trail[c] = <<"call.allow">> /\ policyVerdict[c] = "allow"
      <3>1. t = <<"call.allow", "call.executed">> /\ trail[c] \o <<>> = trail[c]
        BY <2>1, Kinds, Concat, Zenon
      <3>2. QED
        BY <2>1, <3>1 DEF AllowsThen
    <2>2. CASE /\ trail[c] = <<"call.require", "approval.granted">>
               /\ policyVerdict[c] = "require" /\ answer[c] = "approve"
      <3>1. /\ t = <<"call.require", "approval.granted", "call.executed">>
            /\ trail[c] \o <<>> = trail[c]
        <4>1. "call.require" \in Kind /\ "approval.granted" \in Kind /\ "call.executed" \in Kind
          BY Kinds
        <4>2. /\ <<"call.require", "approval.granted">> \o <<"call.executed">> =
                   <<"call.require", "approval.granted", "call.executed">>
              /\ <<"call.require", "approval.granted">> \o <<>> =
                   <<"call.require", "approval.granted">>
          BY <4>1, Concat, Zenon
        <4>3. QED
          BY <2>2, <4>2, Zenon
      <3>2. QED
        BY <2>2, <3>1 DEF AllowsThen
    <2>3. QED
      BY <1>1, <2>1, <2>2 DEF Allows
  <1>3. /\ policyVerdict' = [policyVerdict EXCEPT ![c] = policyVerdict[c]]
        /\ answer' = [answer EXCEPT ![c] = answer[c]]
        /\ policyVerdict[c] \in Verdict /\ answer[c] \in Answer
    BY Same DEF ExecReturns, IInv, TypeOK, Verdict, Answer
  <1>4. \A n \in 0..Len(es) : SubSeq(es, 1, n) \in {<<>>, es}
    BY Kinds, Prefixes
  <1>5. CASE JournalThrows(c, es)
    <2>1. PICK n \in 0..Len(es) : trail' = [trail EXCEPT ![c] = @ \o SubSeq(es, 1, n)]
      BY <1>5 DEF JournalThrows, Journals
    <2>2. PICK u \in {trail[c], t} : trail' = [trail EXCEPT ![c] = u]
      BY <1>2, <1>4, <2>1
    <2>3. /\ pc' = [pc EXCEPT ![c] = "threw"]
          /\ ran' = [ran EXCEPT ![c] = TRUE]
          /\ told' = [told EXCEPT ![c] = "nothing"]
      BY <1>1, <1>5, Same DEF JournalThrows, IInv, TypeOK
    <2>4. Situation("mediate", "threw", policyVerdict[c], answer[c], u, TRUE, "nothing")
      BY <1>1, <1>2, <2>2 DEF Situation, Running
    <2>5. Becomes(c, "threw", policyVerdict[c], answer[c], u, TRUE, "nothing")
      BY <1>3, <2>2, <2>3 DEF Becomes
    <2>6. QED
      BY <1>1, <1>3, <2>4, <2>5, Change DEF Place, Settled, Rejected, Message
  <1>6. CASE Journals(c, es) /\ Deliver(c, "result") /\ UNCHANGED ran
    <2>1. /\ trail' = [trail EXCEPT ![c] = t]
          /\ pc' = [pc EXCEPT ![c] = "delivering"]
          /\ ran' = [ran EXCEPT ![c] = TRUE]
          /\ told' = [told EXCEPT ![c] = "result"]
      BY <1>1, <1>6, Same DEF Journals, Deliver, Goto, IInv, TypeOK
    <2>2. Situation("mediate", "delivering", policyVerdict[c], answer[c], t, TRUE, "result")
      BY <1>2 DEF Situation, Told
    <2>3. Becomes(c, "delivering", policyVerdict[c], answer[c], t, TRUE, "result")
      BY <1>3, <2>1 DEF Becomes
    <2>4. QED
      BY <1>1, <1>3, <2>2, <2>3, Change DEF Place, Suspended, Message
  <1>7. QED
    BY <1>5, <1>6 DEF ExecReturns

LEMMA DeliveredIInv ==
  ASSUME IInv, NEW c \in Call, Delivered(c)
  PROVE  IInv'
  <1>1. PICK p \in {"done", "threw"} : Goto(c, p)
    BY DEF Delivered
  <1>2. Situation(ModeOf[c], p, policyVerdict[c], answer[c], trail[c], ran[c], told[c])
    BY DEF Delivered, IInv, Local, Situation, Early, Running, Told
  <1>3. p \in Place
    BY DEF Place, Settled, Rejected
  <1>4. QED
    BY <1>1, <1>2, <1>3, Move DEF Delivered

LEMMA NextIInv == IInv /\ [Next]_callVars => IInv'
  <1> SUFFICES ASSUME IInv, [Next]_callVars
               PROVE  IInv'
    OBVIOUS
  <1>1. CASE UNCHANGED callVars
    BY <1>1 DEF callVars, IInv, TypeOK, Local
  <1>2. ASSUME NEW c \in Call, NEW v \in Decision, Evaluate(c, v)
        PROVE  IInv'
    BY <1>2, EvaluateIInv
  <1>3. ASSUME NEW c \in Call, CallStep(c)
        PROVE  IInv'
    BY <1>3, PostIInv, AnsweredIInv, NoAnswerIInv, ExecReturnsIInv, ExecFailsIInv,
       DeliveredIInv DEF CallStep
  <1>4. QED
    BY <1>1, <1>2, <1>3 DEF Next

------------------------------------------------------------------------------
(* The theorems.                                                            *)

LEMMA SpecIInv == Spec => []IInv
  <1>1. QED
    BY InitIInv, NextIInv, PTL DEF Spec

\* Every call's handler, events and messages keep their types, whatever the set
\* of calls and the driver of each.
THEOREM SpecTypeOK == Spec => []TypeOK
  <1>1. IInv => TypeOK
    BY DEF IInv
  <1>2. QED
    BY <1>1, SpecIInv, PTL

\* Write-ahead authorisation: no number of calls in flight, no order of answers,
\* timeouts and failing appends, lets a call take effect before the journal says
\* it may.
THEOREM SpecWriteAhead == Spec => []WriteAhead
  <1>1. QED
    BY SpecIInv, InvWriteAhead, PTL

\* The events the daemon appends for a call form one story, however calls
\* interleave and wherever an append throws.
THEOREM SpecOneStory == Spec => []OneStory
  <1>1. QED
    BY SpecIInv, InvOneStory, PTL

\* The intendant is never told more, or something else, than the journal holds.
THEOREM SpecToldMatchesJournal == Spec => []ToldMatchesJournal
  <1>1. QED
    BY SpecIInv, InvToldMatchesJournal, PTL

==============================================================================
