------------------------------- MODULE Mediation -------------------------------
(****************************************************************************)
(* The governance loop of src/daemon/daemon.ts: what Daemon.mediate and     *)
(* Daemon.gate do with one tool call, for any number of calls in flight.    *)
(*                                                                          *)
(* The daemon is one thread.  A handler runs from one await to the next     *)
(* without interruption, and everything in such a stretch, its journal      *)
(* appends included, is one action here; calls interleave at the awaits     *)
(* (postApprovalRequest, awaitDecision, exec, deliver), which are the       *)
(* values of pc.  Any append may throw (the screen refuses the event, a     *)
(* torn line, a full disk): the stretch ends there, nothing it would have   *)
(* done next happens, and the promise of the call rejects.                  *)
(*                                                                          *)
(* The journal is represented by its projections: trail[c] is the sequence  *)
(* of kinds of the events that carry call c's messageId.                    *)
(****************************************************************************)
EXTENDS Sequences, Naturals

CONSTANTS Call,    \* tool calls (ToolCallRequest ids)
          ModeOf   \* which handler serves the call

ASSUME ModeAssumption == ModeOf \in [Call -> {"mediate", "gate"}]

Decision == {"allow", "deny", "require"}

\* Journal kinds: tool_call.*, approval.*, tool_call.executed, gate.*
Kind == {"call.allow", "call.deny", "call.require",
         "approval.granted", "approval.denied",
         "call.executed", "gate.allow", "gate.deny"}

\* Mutant of CallKind: the decision without its prefix.
CallKindBare(v) == v

CallKind(v) == CASE v = "allow" -> "call.allow"
                 [] v = "deny" -> "call.deny"
                 [] v = "require" -> "call.require"

GateKind(eff) == IF eff = "allow" THEN "gate.allow" ELSE "gate.deny"

\* What deliver hands to the intendant: a result, or a verdict's decision.
Message == {"nothing", "result"} \cup Decision

VARIABLES pc,             \* where the call's handler is suspended
          policyVerdict,  \* policy.evaluate's decision
          answer,         \* what awaitDecision came back with
          trail,          \* the call's events in the journal
          ran,            \* sandbox.exec was called for it
          told            \* the message delivered for it

callVars == <<pc, policyVerdict, answer, trail, ran, told>>

Suspended == {"posting", "awaiting", "executing", "delivering"}
Rejected == {"threw", "unposted"}  \* unposted: postApprovalRequest rejected
Settled == Rejected \cup {"done"}

TypeOK ==
  /\ pc \in [Call -> {"idle"} \cup Suspended \cup Settled]
  /\ policyVerdict \in [Call -> {"none"} \cup Decision]
  /\ answer \in [Call -> {"none", "approve", "deny", "failed"}]
  /\ trail \in [Call -> Seq(Kind)]
  /\ ran \in [Call -> BOOLEAN]
  /\ told \in [Call -> Message]

Init ==
  /\ pc = [c \in Call |-> "idle"]
  /\ policyVerdict = [c \in Call |-> "none"]
  /\ answer = [c \in Call |-> "none"]
  /\ trail = [c \in Call |-> <<>>]
  /\ ran = [c \in Call |-> FALSE]
  /\ told = [c \in Call |-> "nothing"]

------------------------------------------------------------------------------
(* Synchronous stretches.                                                   *)

\* The appends es are all written, in order.
Journals(c, es) == trail' = [trail EXCEPT ![c] = @ \o es]

\* One of the appends es throws.  Those before it stay written; its own line may
\* be too, when it is the rewriting of the head checkpoint that failed.
JournalThrows(c, es) ==
  /\ \E n \in 0..Len(es) : Journals(c, SubSeq(es, 1, n))
  /\ pc' = [pc EXCEPT ![c] = "threw"]
  /\ UNCHANGED <<ran, told>>

Goto(c, l) == pc' = [pc EXCEPT ![c] = l]

\* deliver(message): the adapter is handed the message; its promise is awaited.
Deliver(c, m) ==
  /\ told' = [told EXCEPT ![c] = m]
  /\ Goto(c, "delivering")

\* mediate, effective allow: resolve the placeholders (a referenced secret the
\* vault lacks throws), then exec.
StartExec(c) ==
  \/ /\ ran' = [ran EXCEPT ![c] = TRUE]
     /\ Goto(c, "executing")
     /\ UNCHANGED told
  \/ /\ Goto(c, "threw")
     /\ UNCHANGED <<ran, told>>

\* Mutant of MediateEffective: the effective decision is not looked at.
MediateEffectiveAlways(c, es, eff) ==
  \/ JournalThrows(c, es)
  \/ /\ Journals(c, es)
     /\ StartExec(c)

\* mediate, once the effective decision is known: es are the events this
\* stretch appends.  A refused call is told the verdict as policy gave it.
MediateEffective(c, es, eff) ==
  \/ JournalThrows(c, es)
  \/ /\ Journals(c, es)
     /\ \/ eff = "allow" /\ StartExec(c)
        \/ eff = "deny" /\ Deliver(c, policyVerdict'[c]) /\ UNCHANGED ran

\* Mutant of GateEffective: the raw verdict is delivered.
GateEffectiveRaw(c, es, eff) ==
  LET all == es \o <<GateKind(eff)>>
  IN \/ JournalThrows(c, all)
     \/ Journals(c, all) /\ Deliver(c, policyVerdict'[c]) /\ UNCHANGED ran

\* gate, once the effective decision is known: gate.allow or gate.deny is appended too,
\* and the effective decision delivered.
GateEffective(c, es, eff) ==
  LET all == es \o <<GateKind(eff)>>
  IN \/ JournalThrows(c, all)
     \/ Journals(c, all) /\ Deliver(c, eff) /\ UNCHANGED ran

Effective(c, es, eff) ==
  \/ ModeOf[c] = "mediate" /\ MediateEffective(c, es, eff)
  \/ ModeOf[c] = "gate" /\ GateEffective(c, es, eff)

------------------------------------------------------------------------------
(* The handler, await by await.                                             *)

\* The call arrives: policy decides, the verdict is journaled, and a call that
\* needs no approval is carried through to exec or deliver.
Evaluate(c, v) ==
  /\ pc[c] = "idle"
  /\ policyVerdict' = [policyVerdict EXCEPT ![c] = v]
  /\ UNCHANGED answer
  /\ \/ v # "require" /\ Effective(c, <<CallKind(v)>>, v)
     \/ v = "require" /\ \/ JournalThrows(c, <<CallKind(v)>>)
                         \/ /\ Journals(c, <<CallKind(v)>>)
                            /\ Goto(c, "posting")
                            /\ UNCHANGED <<ran, told>>

\* postApprovalRequest resolves; awaitDecision is called.
Posted(c) ==
  /\ pc[c] = "posting"
  /\ Goto(c, "awaiting")
  /\ UNCHANGED <<policyVerdict, answer, trail, ran, told>>

\* postApprovalRequest rejects, outside the try block: so does the call.
PostFails(c) ==
  /\ pc[c] = "posting"
  /\ Goto(c, "unposted")
  /\ UNCHANGED <<policyVerdict, answer, trail, ran, told>>

\* awaitDecision resolves with a decision.
Answered(c, a) ==
  /\ pc[c] = "awaiting"
  /\ answer' = [answer EXCEPT ![c] = a]
  /\ UNCHANGED policyVerdict
  /\ IF a = "approve" THEN Effective(c, <<"approval.granted">>, "allow")
                      ELSE Effective(c, <<"approval.denied">>, "deny")

\* Mutants of NoAnswer: the refusal is journaled and the prompt stays open; the
\* rejection is swallowed and the call waits for a click that never arrives.
NoAnswerRetries(c) ==
  /\ pc[c] = "awaiting"
  /\ answer[c] = "none"
  /\ answer' = [answer EXCEPT ![c] = "failed"]
  /\ Journals(c, <<"approval.denied">>)
  /\ UNCHANGED <<pc, policyVerdict, ran, told>>

NoAnswerHangs(c) ==
  /\ pc[c] = "awaiting"
  /\ answer[c] = "none"
  /\ answer' = [answer EXCEPT ![c] = "failed"]
  /\ UNCHANGED <<pc, policyVerdict, trail, ran, told>>

\* awaitDecision rejects (timeout, socket closed, receiver stopped): denied.
NoAnswer(c) ==
  /\ pc[c] = "awaiting"
  /\ answer' = [answer EXCEPT ![c] = "failed"]
  /\ UNCHANGED policyVerdict
  /\ Effective(c, <<"approval.denied">>, "deny")

\* exec resolves: the execution is journaled, then its result delivered.
ExecReturns(c) ==
  /\ pc[c] = "executing"
  /\ UNCHANGED <<policyVerdict, answer>>
  /\ \/ JournalThrows(c, <<"call.executed">>)
     \/ /\ Journals(c, <<"call.executed">>)
        /\ Deliver(c, "result")
        /\ UNCHANGED ran

ExecFails(c) ==
  /\ pc[c] = "executing"
  /\ Goto(c, "threw")
  /\ UNCHANGED <<policyVerdict, answer, trail, ran, told>>

\* The adapter's promise settles.
Delivered(c) ==
  /\ pc[c] = "delivering"
  /\ \/ Goto(c, "done")
     \/ Goto(c, "threw")
  /\ UNCHANGED <<policyVerdict, answer, trail, ran, told>>

\* The steps of a call already being handled.
CallStep(c) ==
  \/ Posted(c) \/ PostFails(c)
  \/ \E a \in {"approve", "deny"} : Answered(c, a)
  \/ NoAnswer(c)
  \/ ExecReturns(c) \/ ExecFails(c)
  \/ Delivered(c)

Next == \E c \in Call :
  \/ \E v \in Decision : Evaluate(c, v)
  \/ CallStep(c)

Spec == Init /\ [][Next]_callVars

\* A promise the daemon awaits settles: the prompt's HTTP request, the channel's
\* await (it has a timer), the sandboxed command, the adapter's deliver.
Fairness ==
  \A c \in Call :
    /\ WF_callVars(Posted(c) \/ PostFails(c))
    /\ WF_callVars(NoAnswer(c))
    /\ WF_callVars(ExecReturns(c) \/ ExecFails(c))
    /\ WF_callVars(Delivered(c))

FairSpec == Spec /\ Fairness

------------------------------------------------------------------------------
(* What the loop promises.                                                  *)

\* The journal says the call may go ahead.
Authorised(c) ==
  \/ trail[c] # <<>> /\ Head(trail[c]) = "call.allow"
  \/ Len(trail[c]) >= 2 /\ trail[c][2] = "approval.granted"

\* The call has an effect on the world: AGP executed it, or told the harness
\* that executes its own tools to go ahead.
TakesEffect(c) ==
  \/ ran[c]
  \/ ModeOf[c] = "gate" /\ told[c] \notin {"nothing", "deny"}

\* Nothing takes effect before the journal holds the event that authorises it,
\* and after a `require` verdict only on an explicit approval.
WriteAhead ==
  \A c \in Call : TakesEffect(c) =>
    /\ Authorised(c)
    /\ policyVerdict[c] # "deny"
    /\ policyVerdict[c] = "require" => answer[c] = "approve"

\* The events of a call tell one story, in order, whatever else is in flight
\* and wherever an append failed: one verdict, at most one approval, at most
\* one outcome, each compatible with the one before it.
Stories(mode) ==
  {<<>>, <<"call.require">>,
   <<"call.allow">>, <<"call.require", "approval.granted">>,
   <<"call.deny">>, <<"call.require", "approval.denied">>}
  \cup IF mode = "mediate"
         THEN {<<"call.allow", "call.executed">>,
               <<"call.require", "approval.granted", "call.executed">>}
         ELSE {<<"call.allow", "gate.allow">>,
               <<"call.require", "approval.granted", "gate.allow">>,
               <<"call.deny", "gate.deny">>,
               <<"call.require", "approval.denied", "gate.deny">>}

OneStory == \A c \in Call : trail[c] \in Stories(ModeOf[c])

\* What the intendant was told agrees with what the journal says last of the
\* call: a result only after tool_call.executed, a gate's decision only after
\* gate with that decision, a refusal only if nothing authorised the call.
ToldMatchesJournal ==
  \A c \in Call : told[c] # "nothing" =>
    LET last == trail[c][Len(trail[c])]
    IN CASE told[c] = "result" -> ran[c] /\ last = "call.executed"
         [] ModeOf[c] = "gate" -> last = GateKind(told[c])
         [] OTHER -> ~Authorised(c) /\ ~ran[c]

\* A call the daemon took on settles, whether or not anyone ever answers its
\* prompt: an unanswered prompt ends as a refusal.
EveryCallSettles ==
  \A c \in Call : pc[c] \in Suspended ~> pc[c] \in Settled

==============================================================================
