-------------------------- MODULE SlackApprovalProofs --------------------------
(****************************************************************************)
(* Theorems about SlackApproval, for any set of calls, any lifetime of a    *)
(* nonce and of an await: an approval in the journal is a human's Approve   *)
(* on that prompt, and the daemon's awaits agree with the receiver's map.   *)
(*                                                                          *)
(* The calls are Mediation's, and so is their invariant.  What the channel  *)
(* adds is that nothing has been decided of a call up to its await, and     *)
(* that an approval.granted enters the journal by one step only, the one    *)
(* that settles the await with a consumed nonce.                            *)
(****************************************************************************)
EXTENDS SlackApproval, SequenceTheorems, TLAPS

MP == INSTANCE MediationProofs

------------------------------------------------------------------------------
(* The invariant.                                                           *)

Types ==
  /\ now \in Nat
  /\ expiry \in [Call -> Nat]
  /\ used \in [Call -> BOOLEAN]
  /\ waiter \in [Call -> {"none", "pending", "rejected"}]
  /\ deadline \in [Call -> Nat]
  /\ shown \in [Call -> BOOLEAN]
  /\ wire \subseteq clicks /\ clicks \subseteq SlackInteraction
  /\ decider \in [Call -> [click : SUBSET SlackInteraction, inTime : BOOLEAN]]

\* No prompt is on show before its nonce is minted.
ShownIsMinted == \A c \in Call : shown[c] => expiry[c] > 0

\* Up to the end of its await nothing is decided of a call.
Undecided ==
  \A c \in Call : pc[c] \in {"idle", "posting", "awaiting"} =>
    ~used[c] /\ decider[c] = NoDecider

IInv ==
  /\ MP!IInv /\ Types
  /\ ShownIsMinted /\ Undecided
  /\ AwaitIsHeld /\ GrantedByHuman

------------------------------------------------------------------------------
(* Steps of a call, as the governance loop makes them.                      *)

LEMMA EvaluateIsNext ==
  ASSUME NEW c \in Call, NEW v \in M!Decision, M!Evaluate(c, v)
  PROVE  MP!Next
  <1>1. MP!Evaluate(c, v)
    BY DEF M!Evaluate, M!Effective, M!MediateEffective, M!GateEffective, M!JournalThrows,
           M!Journals, M!StartExec, M!Deliver, M!Goto, M!CallKind, M!GateKind,
           MP!Evaluate, MP!Effective, MP!MediateEffective, MP!GateEffective, MP!JournalThrows,
           MP!Journals, MP!StartExec, MP!Deliver, MP!Goto, MP!CallKind, MP!GateKind
  <1>2. v \in MP!Decision
    BY DEF M!Decision, MP!Decision
  <1>3. QED
    BY <1>1, <1>2 DEF MP!Next

LEMMA CallStepIsNext ==
  ASSUME NEW c \in Call,
         \/ M!Posted(c) \/ M!PostFails(c)
         \/ \E a \in {"approve", "deny"} : M!Answered(c, a)
         \/ M!NoAnswer(c)
         \/ M!ExecReturns(c) \/ M!ExecFails(c)
         \/ M!Delivered(c)
  PROVE  MP!Next
  <1>1. MP!CallStep(c)
    <2>1. CASE \/ M!Posted(c) \/ M!PostFails(c) \/ M!ExecReturns(c) \/ M!ExecFails(c)
               \/ M!Delivered(c)
      BY <2>1 DEF M!Posted, M!PostFails, M!ExecReturns, M!ExecFails, M!Delivered,
           M!JournalThrows, M!Journals, M!Deliver, M!Goto,
           MP!Posted, MP!PostFails, MP!ExecReturns, MP!ExecFails, MP!Delivered,
           MP!JournalThrows, MP!Journals, MP!Deliver, MP!Goto, MP!CallStep
    <2>2. CASE \E a \in {"approve", "deny"} : M!Answered(c, a)
      BY <2>2 DEF M!Answered, M!Effective, M!MediateEffective, M!GateEffective,
           M!JournalThrows, M!Journals, M!StartExec, M!Deliver, M!Goto, M!GateKind,
           MP!Answered, MP!Effective, MP!MediateEffective, MP!GateEffective,
           MP!JournalThrows, MP!Journals, MP!StartExec, MP!Deliver, MP!Goto, MP!GateKind,
           MP!CallStep
    <2>3. CASE M!NoAnswer(c)
      BY <2>3 DEF M!NoAnswer, M!Effective, M!MediateEffective, M!GateEffective,
           M!JournalThrows, M!Journals, M!StartExec, M!Deliver, M!Goto, M!GateKind,
           MP!NoAnswer, MP!Effective, MP!MediateEffective, MP!GateEffective,
           MP!JournalThrows, MP!Journals, MP!StartExec, MP!Deliver, MP!Goto, MP!GateKind,
           MP!CallStep
    <2>4. QED
      BY <2>1, <2>2, <2>3
  <1>2. QED
    BY <1>1 DEF MP!Next

LEMMA CallNext ==
  ASSUME MP!IInv, MP!Next \/ UNCHANGED callVars
  PROVE  MP!IInv'
  <1>1. [MP!Next]_(MP!callVars)
    BY DEF MP!callVars, callVars
  <1>2. QED
    BY <1>1, SlackAssumption, MP!NextIInv

LEMMA PcType ==
  ASSUME MP!IInv
  PROVE  /\ pc = [d \in Call |-> pc[d]]
         /\ trail \in [Call -> Seq(MP!Kind)]
  BY DEF MP!IInv, MP!TypeOK

LEMMA EffectiveMoves ==
  ASSUME pc = [d \in Call |-> pc[d]], NEW c \in Call, NEW es, NEW eff, M!Effective(c, es, eff)
  PROVE  /\ pc'[c] \in {"threw", "executing", "delivering"}
         /\ \A d \in Call \ {c} : pc'[d] = pc[d]
  <1>1. \E p \in {"threw", "executing", "delivering"} : pc' = [pc EXCEPT ![c] = p]
    BY DEF M!Effective, M!MediateEffective, M!GateEffective, M!JournalThrows,
           M!StartExec, M!Deliver, M!Goto
  <1>2. QED
    BY <1>1

------------------------------------------------------------------------------
(* What enters the journal of a call.                                       *)

Granted(c) == Len(trail[c]) >= 2 /\ trail[c][2] = "approval.granted"

\* Events among which there is no approval.
Plain(es) ==
  es \in Seq(MP!Kind) /\ \A i \in 1..Len(es) : es[i] # "approval.granted"

Adds(c) == \E es : Plain(es) /\ trail' = [trail EXCEPT ![c] = @ \o es]

LEMMA PlainSingle ==
  ASSUME NEW k \in MP!Kind, k # "approval.granted"
  PROVE  Plain(<<k>>)
  <1> DEFINE es == <<k>>
  <1>1. es \in Seq(MP!Kind) /\ Len(es) = 1 /\ es[1] = k
    BY MP!Tuples
  <1> HIDE DEF es
  <1>2. Plain(es)
    BY <1>1 DEF Plain
  <1>3. QED
    BY <1>2 DEF es

LEMMA PlainAppend ==
  ASSUME NEW es, Plain(es), NEW k \in MP!Kind, k # "approval.granted"
  PROVE  Plain(es \o <<k>>)
  <1> DEFINE w == <<k>>
             z == es \o w
  <1>1. es \in Seq(MP!Kind) /\ w \in Seq(MP!Kind) /\ Len(w) = 1 /\ w[1] = k
    BY MP!Tuples DEF Plain
  <1> HIDE DEF w
  <1>2. /\ z \in Seq(MP!Kind) /\ Len(z) = Len(es) + Len(w)
        /\ \A i \in 1..Len(es) + Len(w) : z[i] = IF i <= Len(es) THEN es[i] ELSE w[i - Len(es)]
    BY <1>1, ConcatProperties
  <1> HIDE DEF z
  <1>3. ASSUME NEW i \in 1..Len(z) PROVE z[i] # "approval.granted"
    <2>1. Len(es) \in Nat
      BY <1>1, LenProperties
    <2>2. CASE i <= Len(es)
      BY <1>1, <1>2, <2>1, <2>2 DEF Plain
    <2>3. CASE i > Len(es)
      <3>1. i - Len(es) = 1
        BY <1>1, <1>2, <2>1, <2>3
      <3>2. QED
        BY <1>1, <1>2, <2>1, <2>3, <3>1
    <2>4. QED
      BY <2>1, <2>2, <2>3
  <1>4. Plain(z)
    BY <1>2, <1>3 DEF Plain
  <1>5. QED
    BY <1>4 DEF z, w

LEMMA PlainPrefix ==
  ASSUME NEW es, Plain(es), NEW n \in 0..Len(es)
  PROVE  Plain(SubSeq(es, 1, n))
  <1> DEFINE z == SubSeq(es, 1, n)
  <1>1. Len(es) \in Nat /\ \A i \in 1..n : es[i] \in MP!Kind
    BY ElementOfSeq, LenProperties DEF Plain
  <1>2. /\ z \in Seq(MP!Kind) /\ Len(z) = IF 1 <= n THEN n - 1 + 1 ELSE 0
        /\ \A i \in 1..n - 1 + 1 : z[i] = es[1 + i - 1]
    BY <1>1, SubSeqProperties
  <1> HIDE DEF z
  <1>3. Len(z) = n /\ \A i \in 1..n : z[i] = es[i]
    BY <1>1, <1>2
  <1>4. Plain(z)
    BY <1>1, <1>2, <1>3 DEF Plain
  <1>5. QED
    BY <1>4 DEF z

LEMMA ThrowsAdds ==
  ASSUME NEW c \in Call, NEW es, Plain(es), M!JournalThrows(c, es)
  PROVE  Adds(c)
  BY PlainPrefix DEF M!JournalThrows, M!Journals, Adds

LEMMA EffectiveAdds ==
  ASSUME NEW c \in Call, NEW es, Plain(es), NEW eff, M!Effective(c, es, eff)
  PROVE  Adds(c)
  <1> DEFINE g == M!GateKind(eff)
             all == es \o <<g>>
  <1>1. g \in MP!Kind /\ g # "approval.granted"
    BY DEF M!GateKind, MP!Kind
  <1> HIDE DEF g
  <1>2. Plain(all)
    BY <1>1, PlainAppend
  <1>3. \/ M!JournalThrows(c, es) \/ M!Journals(c, es)
        \/ M!JournalThrows(c, all) \/ M!Journals(c, all)
    BY DEF M!Effective, M!MediateEffective, M!GateEffective, g
  <1>4. QED
    BY <1>2, <1>3, ThrowsAdds DEF M!Journals, Adds

\* Such events give no call an approval it had not.
LEMMA AddsNoGrant ==
  ASSUME MP!IInv, NEW c \in Call, Adds(c)
  PROVE  \A d \in Call : Granted(d)' => Granted(d)
  <1>1. PICK es : Plain(es) /\ trail' = [trail EXCEPT ![c] = @ \o es]
    BY DEF Adds
  <1>2. es \in Seq(MP!Kind) /\ trail[c] \in Seq(MP!Kind)
    BY <1>1, PcType DEF Plain
  <1>3. Granted(c)' => Granted(c)
    <2> DEFINE t == trail[c]
               z == t \o es
    <2>1. trail'[c] = z
      BY <1>1, PcType
    <2>2. /\ Len(z) = Len(t) + Len(es) /\ Len(t) \in Nat /\ Len(es) \in Nat
          /\ \A i \in 1..Len(t) + Len(es) : z[i] = IF i <= Len(t) THEN t[i] ELSE es[i - Len(t)]
      BY <1>2, ConcatProperties, LenProperties
    <2> HIDE DEF z
    <2>3. ASSUME Len(z) >= 2, z[2] = "approval.granted"
          PROVE  Len(t) >= 2 /\ t[2] = "approval.granted"
      <3>1. z[2] = IF 2 <= Len(t) THEN t[2] ELSE es[2 - Len(t)]
        BY <2>2, <2>3
      <3>2. CASE Len(t) < 2
        <4>1. 2 - Len(t) \in 1..Len(es) /\ es[2 - Len(t)] = "approval.granted"
          BY <2>2, <2>3, <3>1, <3>2
        <4>2. QED
          BY <1>1, <4>1 DEF Plain
      <3>3. QED
        BY <2>2, <2>3, <3>1, <3>2
    <2>4. QED
      BY <2>1, <2>3 DEF Granted
  <1>4. \A d \in Call \ {c} : trail'[d] = trail[d]
    BY <1>1, PcType
  <1>5. QED
    BY <1>3, <1>4 DEF Granted

------------------------------------------------------------------------------
(* The actions that settle no prompt.                                       *)

Open == {"idle", "posting", "awaiting"}

LEMMA OpenNotGranted ==
  ASSUME MP!IInv, NEW c \in Call, pc[c] \in Open
  PROVE  ~Granted(c)
  <1>1. CASE pc[c] = "idle"
    <2>1. trail[c] = <<>>
      BY <1>1 DEF MP!IInv, MP!Local, MP!Situation, MP!Early, MP!Running, MP!Told
    <2>2. QED
      BY <2>1 DEF Granted
  <1>2. CASE pc[c] \in {"posting", "awaiting"}
    <2>1. trail[c] = <<"call.require">>
      BY <1>2, SlackAssumption, MP!AtPrompt
    <2>2. Len(trail[c]) = 1
      BY <2>1
    <2>3. QED
      BY <2>2 DEF Granted
  <1>3. QED
    BY <1>1, <1>2 DEF Open

\* A step that consumes no nonce and brings no approval into the journal.
LEMMA NothingSettled ==
  ASSUME IInv, UNCHANGED <<used, decider>>, clicks \subseteq clicks',
         MP!IInv', Types', ShownIsMinted', AwaitIsHeld',
         \A d \in Call : Granted(d)' => Granted(d),
         \A d \in Call : pc'[d] \in Open => pc[d] \in Open
  PROVE  IInv'
  <1>1. Undecided'
    BY DEF IInv, Undecided, Open
  <1>2. GrantedByHuman'
    <2> SUFFICES ASSUME NEW c \in Call, Granted(c)'
                 PROVE  /\ used'[c] /\ decider'[c].inTime
                        /\ decider'[c].click = {[call |-> c, approved |-> TRUE, isBot |-> FALSE]}
                        /\ decider'[c].click \subseteq clicks'
      BY DEF GrantedByHuman, Granted
    <2>1. Granted(c)
      OBVIOUS
    <2>2. QED
      BY <2>1 DEF IInv, GrantedByHuman, Granted
  <1>3. QED
    BY <1>1, <1>2 DEF IInv

\* A step of no call at all.
LEMMA NoCall ==
  ASSUME IInv, UNCHANGED <<callVars, used, decider>>, clicks \subseteq clicks',
         Types', ShownIsMinted', AwaitIsHeld'
  PROVE  IInv'
  <1>1. MP!IInv'
    BY CallNext DEF IInv
  <1>2. \A d \in Call : Granted(d)' => Granted(d)
    BY DEF Granted, callVars
  <1>3. \A d \in Call : pc'[d] \in Open => pc[d] \in Open
    BY DEF callVars
  <1>4. QED
    BY <1>1, <1>2, <1>3, NothingSettled

LEMMA TickIInv ==
  ASSUME IInv, Tick
  PROVE  IInv'
  <1>1. Types'
    BY DEF IInv, Types, Tick, nonceVars, waitVars, slackVars
  <1>2. ShownIsMinted'
    BY DEF IInv, ShownIsMinted, Tick, nonceVars, slackVars
  <1>3. AwaitIsHeld'
    BY DEF IInv, AwaitIsHeld, Waiting, Tick, callVars, nonceVars, waitVars
  <1>4. QED
    BY <1>1, <1>2, <1>3, NoCall DEF Tick, nonceVars, slackVars

LEMMA AskIInv ==
  ASSUME IInv, NEW c \in Call, NEW v \in M!Decision, Ask(c, v)
  PROVE  IInv'
  <1>1. M!Evaluate(c, v) /\ UNCHANGED <<used, waiter, deadline, open, shown, wire, clicks, decider>>
    BY DEF Ask, waitVars, slackVars
  <1>2. MP!IInv'
    BY <1>1, EvaluateIsNext, CallNext DEF IInv
  <1>3. pc[c] = "idle"
    BY <1>1 DEF M!Evaluate
  <1>4. Types'
    <2>1. now + NonceTTL \in Nat /\ now' = now
      BY SlackAssumption DEF IInv, Types, Ask
    <2>2. QED
      BY <1>1, <2>1 DEF IInv, Types, Ask
  <1>5. ~shown[c] \/ expiry'[c] > 0
    BY SlackAssumption DEF IInv, ShownIsMinted, Types, Ask
  <1>6. \A d \in Call \ {c} : expiry'[d] = expiry[d]
    BY DEF Ask, IInv, Types
  <1>7. ShownIsMinted'
    BY <1>1, <1>5, <1>6 DEF IInv, ShownIsMinted
  <1>8. /\ pc'[c] # "awaiting"
        /\ \A d \in Call \ {c} : pc'[d] = pc[d]
    <2>1. CASE M!Effective(c, <<M!CallKind(v)>>, v)
      BY <2>1, EffectiveMoves, PcType DEF IInv
    <2>2. CASE M!JournalThrows(c, <<M!CallKind(v)>>) \/ M!Goto(c, "posting")
      BY <2>2, PcType DEF M!JournalThrows, M!Goto, IInv
    <2>3. QED
      BY <1>1, <2>1, <2>2 DEF M!Evaluate
  <1>9. waiter[c] = "none" /\ ~Waiting(c)
    BY <1>3 DEF IInv, AwaitIsHeld, Waiting
  <1>10. AwaitIsHeld'
    BY <1>1, <1>6, <1>8, <1>9 DEF IInv, AwaitIsHeld, Waiting
  <1>11. Adds(c)
    <2>1. M!CallKind(v) \in MP!Kind /\ M!CallKind(v) # "approval.granted"
      BY DEF M!CallKind, M!Decision, MP!Kind
    <2>2. Plain(<<M!CallKind(v)>>)
      BY <2>1, PlainSingle
    <2>3. CASE M!Effective(c, <<M!CallKind(v)>>, v)
      BY <2>2, <2>3, EffectiveAdds
    <2>4. CASE M!JournalThrows(c, <<M!CallKind(v)>>)
      BY <2>2, <2>4, ThrowsAdds
    <2>5. CASE M!Journals(c, <<M!CallKind(v)>>)
      BY <2>2, <2>5 DEF M!Journals, Adds
    <2>6. QED
      BY <1>1, <2>3, <2>4, <2>5 DEF M!Evaluate
  <1>12. \A d \in Call : Granted(d)' => Granted(d)
    BY <1>11, AddsNoGrant DEF IInv
  <1>13. \A d \in Call : pc'[d] \in Open => pc[d] \in Open
    BY <1>3, <1>8 DEF Open
  <1>14. QED
    BY <1>1, <1>2, <1>4, <1>7, <1>10, <1>12, <1>13, NothingSettled

LEMMA ShowIInv ==
  ASSUME IInv, NEW c \in Call, Show(c)
  PROVE  IInv'
  <1>1. Types'
    BY DEF IInv, Types, Show, nonceVars, waitVars
  <1>2. ShownIsMinted'
    BY DEF IInv, Types, ShownIsMinted, Show, nonceVars
  <1>3. AwaitIsHeld'
    BY DEF IInv, AwaitIsHeld, Waiting, Show, callVars, nonceVars, waitVars
  <1>4. QED
    BY <1>1, <1>2, <1>3, NoCall DEF Show, nonceVars

LEMMA ClickIInv ==
  ASSUME IInv, NEW k \in SlackInteraction, Click(k)
  PROVE  IInv'
  <1>1. Types'
    BY DEF IInv, Types, Click, nonceVars, waitVars
  <1>2. ShownIsMinted'
    BY DEF IInv, ShownIsMinted, Click, nonceVars
  <1>3. AwaitIsHeld'
    BY DEF IInv, AwaitIsHeld, Waiting, Click, callVars, nonceVars, waitVars
  <1>4. QED
    BY <1>1, <1>2, <1>3, NoCall DEF Click, nonceVars

LEMMA RejectIInv ==
  ASSUME IInv, NEW k \in SlackInteraction, Reject(k)
  PROVE  IInv'
  <1>1. Types'
    BY DEF IInv, Types, Reject, Taken, nonceVars, waitVars
  <1>2. ShownIsMinted'
    BY DEF IInv, ShownIsMinted, Reject, nonceVars
  <1>3. AwaitIsHeld'
    BY DEF IInv, AwaitIsHeld, Waiting, Reject, callVars, nonceVars, waitVars
  <1>4. QED
    BY <1>1, <1>2, <1>3, NoCall DEF Reject, nonceVars

LEMMA ShutIInv ==
  ASSUME IInv, Shut
  PROVE  IInv'
  <1>1. Types'
    BY DEF IInv, Types, Shut, Waiting, nonceVars, slackVars
  <1>2. ShownIsMinted'
    BY DEF IInv, ShownIsMinted, Shut, nonceVars, slackVars
  <1>3. ASSUME NEW c \in Call
        PROVE  /\ deadline'[c] = 0 /\ waiter'[c] # "pending"
               /\ waiter'[c] # "none" <=> waiter[c] # "none"
    BY DEF Shut, Waiting
  <1>4. AwaitIsHeld'
    BY <1>3 DEF IInv, AwaitIsHeld, Waiting, Shut, callVars
  <1>5. QED
    BY <1>1, <1>2, <1>4, NoCall DEF Shut, nonceVars, slackVars

------------------------------------------------------------------------------
(* The calls on their way.                                                  *)

\* What the invariant says of one await.
LEMMA Held ==
  ASSUME IInv, NEW c \in Call
  PROVE  /\ pc[c] = "awaiting" <=> waiter[c] # "none"
         /\ Waiting(c) <=> deadline[c] > 0
         /\ Waiting(c) => expiry[c] > 0 /\ ~used[c] /\ decider[c] = NoDecider
  BY DEF IInv, AwaitIsHeld

\* A step of one call, which ends no other call's await.
LEMMA OneAwait ==
  ASSUME IInv, NEW c \in Call, MP!IInv', Types', UNCHANGED <<expiry, shown, used, decider>>,
         clicks \subseteq clicks',
         \A d \in Call \ {c} : pc'[d] = pc[d] /\ waiter'[d] = waiter[d] /\ deadline'[d] = deadline[d],
         pc'[c] = "awaiting" <=> waiter'[c] # "none",
         waiter'[c] = "pending" <=> deadline'[c] > 0,
         waiter'[c] = "pending" => expiry[c] > 0 /\ ~used[c] /\ decider[c] = NoDecider,
         pc'[c] \in Open => pc[c] \in Open,
         Adds(c) \/ trail' = trail
  PROVE  IInv'
  <1>1. AwaitIsHeld'
    BY DEF IInv, AwaitIsHeld, Waiting
  <1>2. ShownIsMinted'
    BY DEF IInv, ShownIsMinted
  <1>3. \A d \in Call : Granted(d)' => Granted(d)
    <2>1. CASE trail' = trail
      BY <2>1 DEF Granted
    <2>2. QED
      BY <2>1, AddsNoGrant DEF IInv
  <1>4. \A d \in Call : pc'[d] \in Open => pc[d] \in Open
    OBVIOUS
  <1>5. QED
    BY <1>1, <1>2, <1>3, <1>4, NothingSettled

LEMMA PostIInv ==
  ASSUME IInv, NEW c \in Call, Post(c)
  PROVE  IInv'
  <1>1. /\ pc[c] = "posting" /\ pc' = [pc EXCEPT ![c] = "awaiting"]
        /\ waiter' = [waiter EXCEPT ![c] = "pending"]
        /\ deadline' = [deadline EXCEPT ![c] = now + AwaitTime]
        /\ UNCHANGED <<trail, now, expiry, used, open, shown, wire, clicks, decider>>
    BY DEF Post, M!Posted, M!Goto, nonceVars, slackVars
  <1>2. MP!IInv'
    BY CallStepIsNext, CallNext DEF IInv, Post
  <1>3. now + AwaitTime \in Nat /\ now + AwaitTime > 0
    BY SlackAssumption DEF IInv, Types
  <1>4. Types'
    BY <1>1, <1>3 DEF IInv, Types
  <1>5. /\ pc'[c] = "awaiting" /\ waiter'[c] = "pending" /\ deadline'[c] > 0
        /\ \A d \in Call \ {c} : pc'[d] = pc[d] /\ waiter'[d] = waiter[d] /\ deadline'[d] = deadline[d]
    BY <1>1, <1>3, PcType DEF IInv, Types
  <1>6. expiry[c] > 0 /\ ~used[c] /\ decider[c] = NoDecider
    BY <1>1 DEF Post, IInv, ShownIsMinted, Undecided
  <1>7. pc[c] \in Open
    BY <1>1 DEF Open
  <1>8. QED
    BY <1>1, <1>2, <1>4, <1>5, <1>6, <1>7, OneAwait

\* A call that was not awaiting, and is not after the step.
LEMMA Apart ==
  ASSUME IInv, NEW c \in Call, MP!IInv',
         UNCHANGED <<now, nonceVars, waitVars, slackVars, decider>>,
         pc[c] # "awaiting", pc'[c] \notin Open,
         \A d \in Call \ {c} : pc'[d] = pc[d],
         Adds(c) \/ trail' = trail
  PROVE  IInv'
  <1>1. Types'
    BY DEF IInv, Types, nonceVars, waitVars, slackVars
  <1>2. waiter[c] = "none" /\ ~(deadline[c] > 0)
    BY Held DEF Waiting
  <1>3. /\ waiter'[c] = "none" /\ ~(deadline'[c] > 0) /\ pc'[c] # "awaiting"
        /\ \A d \in Call \ {c} : waiter'[d] = waiter[d] /\ deadline'[d] = deadline[d]
    BY <1>2 DEF waitVars, Open
  <1>4. QED
    BY <1>1, <1>3, OneAwait DEF nonceVars, slackVars

LEMMA PostFailsIInv ==
  ASSUME IInv, NEW c \in Call, PostFails(c)
  PROVE  IInv'
  <1>1. /\ pc[c] = "posting" /\ pc' = [pc EXCEPT ![c] = "unposted"] /\ trail' = trail
        /\ UNCHANGED <<now, nonceVars, waitVars, slackVars, decider>>
    BY DEF PostFails, M!PostFails, M!Goto
  <1>2. MP!IInv'
    BY CallStepIsNext, CallNext DEF IInv, PostFails
  <1>3. pc'[c] = "unposted" /\ \A d \in Call \ {c} : pc'[d] = pc[d]
    BY <1>1, PcType DEF IInv
  <1>4. QED
    BY <1>1, <1>2, <1>3, Apart DEF Open

LEMMA GoOnIInv ==
  ASSUME IInv, NEW c \in Call, GoOn(c)
  PROVE  IInv'
  <1>1. MP!IInv'
    BY CallStepIsNext, CallNext DEF IInv, GoOn
  <1>2. /\ pc[c] \in {"executing", "delivering"}
        /\ pc'[c] \in {"threw", "delivering", "done"}
        /\ \A d \in Call \ {c} : pc'[d] = pc[d]
    <2>1. pc[c] \in {"executing", "delivering"}
      BY DEF GoOn, M!ExecReturns, M!ExecFails, M!Delivered
    <2>2. \E p \in {"threw", "delivering", "done"} : pc' = [pc EXCEPT ![c] = p]
      BY DEF GoOn, M!ExecReturns, M!ExecFails, M!Delivered, M!JournalThrows, M!Deliver, M!Goto
    <2>3. QED
      BY <2>1, <2>2, PcType DEF IInv
  <1>3. Adds(c) \/ trail' = trail
    <2>1. Plain(<<"call.executed">>)
      BY PlainSingle DEF MP!Kind
    <2>2. CASE M!JournalThrows(c, <<"call.executed">>)
      BY <2>1, <2>2, ThrowsAdds
    <2>3. CASE M!Journals(c, <<"call.executed">>)
      BY <2>1, <2>3 DEF M!Journals, Adds
    <2>4. QED
      BY <2>2, <2>3 DEF GoOn, M!ExecReturns, M!ExecFails, M!Delivered
  <1>4. UNCHANGED <<now, nonceVars, waitVars, slackVars, decider>>
    BY DEF GoOn
  <1>5. QED
    BY <1>1, <1>2, <1>3, <1>4, Apart DEF Open

\* A refusal: the await is over and no approval is written.
LEMMA NoAnswerMoves ==
  ASSUME MP!IInv, NEW c \in Call, M!NoAnswer(c)
  PROVE  /\ MP!IInv' /\ pc[c] = "awaiting"
         /\ pc'[c] \notin Open /\ \A d \in Call \ {c} : pc'[d] = pc[d]
         /\ Adds(c)
  <1>1. pc[c] = "awaiting" /\ M!Effective(c, <<"approval.denied">>, "deny")
    BY DEF M!NoAnswer
  <1>2. MP!IInv'
    BY CallStepIsNext, CallNext
  <1>3. Plain(<<"approval.denied">>)
    BY PlainSingle DEF MP!Kind
  <1>4. Adds(c)
    BY <1>1, <1>3, EffectiveAdds
  <1>5. QED
    BY <1>1, <1>2, <1>4, EffectiveMoves, PcType DEF Open

LEMMA TimeoutIInv ==
  ASSUME IInv, NEW c \in Call, Timeout(c)
  PROVE  IInv'
  <1>1. /\ MP!IInv' /\ pc[c] = "awaiting"
        /\ pc'[c] \notin Open /\ \A d \in Call \ {c} : pc'[d] = pc[d]
        /\ Adds(c)
    BY NoAnswerMoves DEF Timeout, IInv
  <1>2. /\ waiter' = [waiter EXCEPT ![c] = "none"]
        /\ deadline' = [deadline EXCEPT ![c] = 0]
        /\ UNCHANGED <<now, expiry, used, open, shown, wire, clicks, decider>>
    BY DEF Timeout, nonceVars, slackVars
  <1>3. Types'
    BY <1>2 DEF IInv, Types
  <1>4. /\ waiter'[c] = "none" /\ deadline'[c] = 0 /\ pc'[c] # "awaiting"
        /\ \A d \in Call \ {c} : waiter'[d] = waiter[d] /\ deadline'[d] = deadline[d]
    BY <1>1, <1>2 DEF IInv, Types, Open
  <1>5. QED
    BY <1>1, <1>2, <1>3, <1>4, OneAwait

LEMMA DroppedIInv ==
  ASSUME IInv, NEW c \in Call, Dropped(c)
  PROVE  IInv'
  <1>1. /\ MP!IInv' /\ pc[c] = "awaiting"
        /\ pc'[c] \notin Open /\ \A d \in Call \ {c} : pc'[d] = pc[d]
        /\ Adds(c)
    BY NoAnswerMoves DEF Dropped, IInv
  <1>2. /\ waiter[c] = "rejected" /\ waiter' = [waiter EXCEPT ![c] = "none"]
        /\ UNCHANGED <<now, expiry, used, deadline, open, shown, wire, clicks, decider>>
    BY DEF Dropped, nonceVars, slackVars
  <1>3. Types'
    BY <1>2 DEF IInv, Types
  <1>4. ~(deadline'[c] > 0)
    BY <1>2, Held DEF Waiting
  <1>5. /\ waiter'[c] = "none" /\ pc'[c] # "awaiting"
        /\ \A d \in Call \ {c} : waiter'[d] = waiter[d] /\ deadline'[d] = deadline[d]
    BY <1>1, <1>2 DEF IInv, Types, Open
  <1>6. QED
    BY <1>1, <1>2, <1>3, <1>4, <1>5, OneAwait

------------------------------------------------------------------------------
(* The step that settles a prompt.                                          *)

LEMMA SettleMoves ==
  ASSUME IInv, NEW k \in SlackInteraction, NEW c \in Call, c = k.call, Settle(k)
  PROVE  /\ MP!IInv' /\ pc[c] = "awaiting"
         /\ pc'[c] \notin Open /\ \A d \in Call \ {c} : pc'[d] = pc[d] /\ trail'[d] = trail[d]
         /\ ~(Consumes(k) /\ k.approved) => Adds(c)
  <1> DEFINE a == IF Consumes(k) /\ k.approved THEN "approve" ELSE "deny"
             kind == IF a = "approve" THEN "approval.granted" ELSE "approval.denied"
             eff == IF a = "approve" THEN "allow" ELSE "deny"
  <1>1. M!Answered(c, a) /\ a \in {"approve", "deny"}
    BY DEF Settle
  <1>2. pc[c] = "awaiting" /\ M!Effective(c, <<kind>>, eff)
    BY <1>1 DEF M!Answered
  <1>3. MP!IInv'
    BY <1>1, CallStepIsNext, CallNext DEF IInv
  <1>4. pc'[c] \in {"threw", "executing", "delivering"} /\ \A d \in Call \ {c} : pc'[d] = pc[d]
    BY <1>2, EffectiveMoves, PcType DEF IInv
  <1>5. \A d \in Call \ {c} : trail'[d] = trail[d]
    <2>1. \E es : trail' = [trail EXCEPT ![c] = @ \o es]
      BY <1>2 DEF M!Effective, M!MediateEffective, M!GateEffective, M!JournalThrows, M!Journals
    <2>2. QED
      BY <2>1, PcType DEF IInv
  <1>6. ASSUME ~(Consumes(k) /\ k.approved) PROVE Adds(c)
    <2>1. M!Effective(c, <<"approval.denied">>, eff)
      BY <1>2, <1>6
    <2>2. Plain(<<"approval.denied">>)
      BY PlainSingle DEF MP!Kind
    <2> HIDE DEF eff
    <2>3. QED
      BY <2>1, <2>2, EffectiveAdds
  <1>7. QED
    BY <1>2, <1>3, <1>4, <1>5, <1>6 DEF Open

LEMMA SettleIInv ==
  ASSUME IInv, NEW k \in SlackInteraction, Settle(k)
  PROVE  IInv'
  <1> DEFINE c == k.call
  <1>1. c \in Call /\ k.approved \in BOOLEAN /\ k.isBot \in BOOLEAN
    BY DEF SlackInteraction
  <1>2. k = [call |-> c, approved |-> k.approved, isBot |-> k.isBot]
    BY DEF SlackInteraction
  <1>3. /\ waiter' = [waiter EXCEPT ![c] = "none"]
        /\ deadline' = [deadline EXCEPT ![c] = 0]
        /\ used' = [used EXCEPT ![c] = @ \/ Consumes(k)]
        /\ decider' = [decider EXCEPT ![c] = [click |-> {k}, inTime |-> now <= expiry[c]]]
        /\ UNCHANGED <<now, expiry, open, shown, clicks>>
        /\ k \in wire /\ wire' \in {wire, wire \ {k}}
    BY DEF Settle, Taken
  <1>4. /\ MP!IInv' /\ pc[c] = "awaiting"
        /\ pc'[c] \notin Open /\ \A d \in Call \ {c} : pc'[d] = pc[d] /\ trail'[d] = trail[d]
        /\ ~(Consumes(k) /\ k.approved) => Adds(c)
    BY <1>1, SettleMoves
  <1> HIDE DEF c
  <1>5. k \in clicks
    BY <1>3 DEF IInv, Types
  <1>6. Types'
    <2>1. [click |-> {k}, inTime |-> now <= expiry[c]] \in
            [click : SUBSET SlackInteraction, inTime : BOOLEAN]
      OBVIOUS
    <2>2. decider' \in [Call -> [click : SUBSET SlackInteraction, inTime : BOOLEAN]]
      BY <1>3, <2>1 DEF IInv, Types
    <2>3. used' \in [Call -> BOOLEAN]
      BY <1>3 DEF IInv, Types
    <2>4. QED
      BY <1>3, <2>2, <2>3 DEF IInv, Types
  <1>7. /\ waiter'[c] = "none" /\ deadline'[c] = 0
        /\ used'[c] = (used[c] \/ Consumes(k))
        /\ decider'[c] = [click |-> {k}, inTime |-> now <= expiry[c]]
        /\ \A d \in Call \ {c} : /\ waiter'[d] = waiter[d] /\ deadline'[d] = deadline[d]
                                 /\ used'[d] = used[d] /\ decider'[d] = decider[d]
    BY <1>1, <1>3 DEF IInv, Types
  <1>8. ShownIsMinted'
    BY <1>3 DEF IInv, ShownIsMinted
  <1>9. Undecided'
    BY <1>4, <1>7 DEF IInv, Undecided, Open
  <1>10. AwaitIsHeld'
    <2>1. pc'[c] # "awaiting"
      BY <1>4 DEF Open
    <2>2. ASSUME NEW d \in Call \ {c}
          PROVE  /\ pc'[d] = pc[d] /\ waiter'[d] = waiter[d] /\ deadline'[d] = deadline[d]
                 /\ expiry'[d] = expiry[d] /\ used'[d] = used[d] /\ decider'[d] = decider[d]
      BY <1>3, <1>4, <1>7
    <2>3. QED
      BY <1>7, <2>1, <2>2 DEF IInv, AwaitIsHeld, Waiting
  <1>11. GrantedByHuman'
    <2> SUFFICES ASSUME NEW d \in Call, Granted(d)'
                 PROVE  /\ used'[d] /\ decider'[d].inTime
                        /\ decider'[d].click = {[call |-> d, approved |-> TRUE, isBot |-> FALSE]}
                        /\ decider'[d].click \subseteq clicks'
      BY DEF GrantedByHuman, Granted
    <2>1. CASE d # c
      <3>1. Granted(d)
        BY <1>4, <2>1 DEF Granted
      <3>2. used'[d] = used[d] /\ decider'[d] = decider[d] /\ clicks' = clicks
        BY <1>3, <1>7, <2>1
      <3>3. QED
        BY <3>1, <3>2 DEF IInv, GrantedByHuman, Granted
    <2>2. CASE d = c
      <3>1. ~Granted(c)
        BY <1>1, <1>4, OpenNotGranted DEF IInv, Open
      <3>2. Consumes(k) /\ k.approved
        BY <1>1, <1>4, <2>2, <3>1, AddsNoGrant DEF IInv
      <3>3. k.isBot = FALSE /\ k.approved = TRUE /\ now <= expiry[c]
        BY <1>1, <3>2 DEF Consumes, c
      <3>4. used'[c]
        BY <1>7, <3>2
      <3>5. k = [call |-> c, approved |-> TRUE, isBot |-> FALSE]
        BY <1>2, <3>3
      <3>6. decider'[c].inTime /\ decider'[c].click = {k}
        <4>1. (now <= expiry[c]) = TRUE
          BY <3>3
        <4>2. decider'[c] = [click |-> {k}, inTime |-> TRUE]
          BY <1>7, <4>1, Zenon
        <4>3. QED
          BY <4>2
      <3>7. {k} \subseteq clicks'
        BY <1>3, <1>5
      <3>8. QED
        BY <2>2, <3>4, <3>5, <3>6, <3>7
    <2>3. QED
      BY <2>1, <2>2
  <1>12. QED
    BY <1>4, <1>6, <1>8, <1>9, <1>10, <1>11 DEF IInv

------------------------------------------------------------------------------
(* The theorems.                                                            *)

LEMMA InitIInv == Init => IInv
  <1> SUFFICES ASSUME Init PROVE IInv
    OBVIOUS
  <1>1. MP!IInv
    <2>1. MP!Init
      BY DEF Init, M!Init, MP!Init
    <2>2. QED
      BY <2>1, SlackAssumption, MP!InitIInv
  <1>2. Types
    BY DEF Init, Types, NoDecider
  <1>3. ShownIsMinted /\ Undecided
    BY DEF Init, ShownIsMinted, Undecided
  <1>4. AwaitIsHeld
    BY DEF Init, M!Init, AwaitIsHeld, Waiting
  <1>5. GrantedByHuman
    <2>1. \A c \in Call : pc[c] \in Open
      BY DEF Init, M!Init, Open
    <2>2. \A c \in Call : ~Granted(c)
      BY <1>1, <2>1, OpenNotGranted
    <2>3. QED
      BY <2>2 DEF GrantedByHuman, Granted
  <1>6. QED
    BY <1>1, <1>2, <1>3, <1>4, <1>5 DEF IInv

LEMMA StutterIInv ==
  ASSUME IInv, UNCHANGED vars
  PROVE  IInv'
  <1>1. UNCHANGED <<callVars, used, decider, clicks>>
    BY DEF vars, nonceVars, slackVars
  <1>2. Types' /\ ShownIsMinted'
    BY DEF IInv, Types, ShownIsMinted, vars, nonceVars, waitVars, slackVars
  <1>3. AwaitIsHeld'
    BY DEF IInv, AwaitIsHeld, Waiting, vars, callVars, nonceVars, waitVars
  <1>4. QED
    BY <1>1, <1>2, <1>3, NoCall

LEMMA NextIInv == IInv /\ [Next]_vars => IInv'
  <1> SUFFICES ASSUME IInv, [Next]_vars PROVE IInv'
    OBVIOUS
  <1>1. ASSUME NEW c \in Call,
               \/ \E v \in M!Decision : Ask(c, v)
               \/ Show(c) \/ Post(c) \/ PostFails(c)
               \/ Timeout(c) \/ Dropped(c) \/ GoOn(c)
        PROVE  IInv'
    BY <1>1, AskIInv, ShowIInv, PostIInv, PostFailsIInv, TimeoutIInv, DroppedIInv, GoOnIInv
  <1>2. ASSUME NEW k \in SlackInteraction, Click(k) \/ Settle(k) \/ Reject(k)
        PROVE  IInv'
    BY <1>2, ClickIInv, SettleIInv, RejectIInv
  <1>3. QED
    BY <1>1, <1>2, ShutIInv, TickIInv, StutterIInv DEF Next

LEMMA SpecIInv == Spec => []IInv
  <1>1. QED
    BY InitIInv, NextIInv, PTL DEF Spec

\* An approval in the journal is a human's Approve on that very prompt, in time
\* and consumed once, for any number of prompts and clicks, however frames are
\* delayed or redelivered and whatever becomes of the socket.
THEOREM SpecGrantedByHuman == Spec => []GrantedByHuman
  <1>1. IInv => GrantedByHuman
    BY DEF IInv
  <1>2. QED
    BY <1>1, SpecIInv, PTL

\* No await of the daemon is without its promise in the receiver's map, and no
\* promise outlives its await, whichever of click, timer and close comes first.
THEOREM SpecAwaitIsHeld == Spec => []AwaitIsHeld
  <1>1. IInv => AwaitIsHeld
    BY DEF IInv
  <1>2. QED
    BY <1>1, SpecIInv, PTL

\* The loop's own promises hold with this channel under it: whatever reaches the
\* daemon by Slack is a step the governance loop allows for, so that nothing takes
\* effect before the journal says it may, each call has one story, and nobody is
\* told otherwise.
THEOREM SpecMediates ==
  Spec => MP!Spec /\ [](MP!WriteAhead /\ MP!OneStory /\ MP!ToldMatchesJournal)
  <1>1. Init => MP!Init
    BY DEF Init, M!Init, MP!Init
  <1>2. [Next]_vars => [MP!Next]_(MP!callVars)
    <2> SUFFICES ASSUME Next \/ UNCHANGED vars
                 PROVE  MP!Next \/ UNCHANGED callVars
      BY DEF callVars, MP!callVars
    <2>1. ASSUME NEW c \in Call, NEW v \in M!Decision, Ask(c, v)
          PROVE  MP!Next
      BY <2>1, EvaluateIsNext DEF Ask
    <2>2. ASSUME NEW c \in Call, \/ Post(c) \/ PostFails(c)
                                 \/ Timeout(c) \/ Dropped(c) \/ GoOn(c)
          PROVE  MP!Next
      BY <2>2, CallStepIsNext DEF Post, PostFails, Timeout, Dropped, GoOn
    <2>3. ASSUME NEW k \in SlackInteraction, Settle(k)
          PROVE  MP!Next
      <3>1. k.call \in Call
        BY DEF SlackInteraction
      <3>2. \E a \in {"approve", "deny"} : M!Answered(k.call, a)
        BY <2>3 DEF Settle
      <3>3. QED
        BY <3>1, <3>2, CallStepIsNext
    <2>4. ASSUME \/ \E c \in Call : Show(c)
                 \/ \E k \in SlackInteraction : Click(k) \/ Reject(k)
                 \/ Shut \/ Tick \/ UNCHANGED vars
          PROVE  UNCHANGED callVars
      BY <2>4 DEF Show, Click, Reject, Shut, Tick, vars
    <2>5. QED
      BY <2>1, <2>2, <2>3, <2>4 DEF Next
  <1>3. Spec => MP!Spec
    BY <1>1, <1>2, PTL DEF Spec, MP!Spec
  <1>4. MP!Spec => [](MP!WriteAhead /\ MP!OneStory /\ MP!ToldMatchesJournal)
    BY SlackAssumption, MP!SpecWriteAhead, MP!SpecOneStory, MP!SpecToldMatchesJournal, PTL
  <1>5. QED
    BY <1>3, <1>4, PTL
================================================================================
