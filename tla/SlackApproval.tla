----------------------------- MODULE SlackApproval -----------------------------
(****************************************************************************)
(* How a human's click in Slack answers a prompt: SlackChannel, NonceStore  *)
(* and SocketModeInteractionSource (src/channels/slack/), under the         *)
(* governance loop (Mediation) that awaits them.                            *)
(*                                                                          *)
(* Each prompt mints one nonce, a fresh uuid: it is named by its call.  The *)
(* click travels over a web socket, apart from the HTTP request that posts  *)
(* the prompt, so it may arrive before that request returns; an envelope    *)
(* may be delivered again.  Between the resolution of an await and the      *)
(* continuation only microtasks run: a frame, the consumption of the nonce  *)
(* and the daemon's next stretch are one action.  Frames that are not AGP   *)
(* clicks are acknowledged and ignored: they are left out, and so is the    *)
(* cosmetic update of the prompt.                                           *)
(****************************************************************************)
EXTENDS Sequences, Naturals, FiniteSets

CONSTANTS Call, ModeOf,
          NonceTTL,   \* NonceStore ttlMs
          AwaitTime,  \* awaitTimeoutMs
          MaxTime,    \* bound: no call arrives, and nobody clicks, after it
          MaxClicks   \* bound: how many different clicks are made

ASSUME SlackAssumption ==
  /\ ModeOf \in [Call -> {"mediate", "gate"}]
  /\ NonceTTL \in Nat \ {0} /\ AwaitTime \in Nat \ {0}
  /\ MaxTime \in Nat /\ MaxClicks \in Nat

VARIABLES pc, policyVerdict, answer, trail, ran, told,  \* Mediation's
          now,
          expiry,    \* NonceStore: the nonce's expiresAt (0: not minted)
          used,      \* NonceStore: the nonce is consumed
          waiter,    \* the receiver's promise: "none", "pending", "rejected"
          deadline,  \* when its timer is due (0: cleared)
          open,      \* the socket is connected
          shown,     \* Slack shows the prompt
          wire,      \* clicks on their way
          clicks,    \* history: the clicks made
          decider    \* history: the click that settled a prompt, and if the
                     \* nonce was then still valid

M == INSTANCE Mediation

callVars == <<pc, policyVerdict, answer, trail, ran, told>>
nonceVars == <<expiry, used>>
waitVars == <<waiter, deadline, open>>
slackVars == <<shown, wire, clicks>>
vars == <<callVars, now, nonceVars, waitVars, slackVars, decider>>

SlackInteraction == [call : Call, approved : BOOLEAN, isBot : BOOLEAN]
NoDecider == [click |-> {}, inTime |-> FALSE]

Init ==
  /\ M!Init
  /\ now = 0
  /\ expiry = [c \in Call |-> 0]
  /\ used = [c \in Call |-> FALSE]
  /\ waiter = [c \in Call |-> "none"]
  /\ deadline = [c \in Call |-> 0]
  /\ open = TRUE
  /\ shown = [c \in Call |-> FALSE]
  /\ wire = {} /\ clicks = {}
  /\ decider = [c \in Call |-> NoDecider]

Waiting(c) == waiter[c] = "pending"

\* After MaxTime the clock goes on as far as the timers still armed.
Tick ==
  /\ now < MaxTime \/ \E c \in Call : now < deadline[c]
  /\ now' = now + 1
  /\ UNCHANGED <<callVars, nonceVars, waitVars, slackVars, decider>>

------------------------------------------------------------------------------
(* The prompt.                                                              *)

\* The call is evaluated.  If it needs approval, postApprovalRequest screens the
\* prompt (which may throw), mints the nonce and calls chat.postMessage.
Ask(c, v) ==
  /\ now <= MaxTime
  /\ M!Evaluate(c, v)
  /\ \/ UNCHANGED expiry
     \/ pc'[c] = "posting" /\ expiry' = [expiry EXCEPT ![c] = now + NonceTTL]
  /\ UNCHANGED <<now, used, waitVars, slackVars, decider>>

\* Slack shows the prompt, before anyone has told the daemon.
Show(c) ==
  /\ pc[c] = "posting" /\ expiry[c] > 0 /\ ~shown[c]
  /\ shown' = [shown EXCEPT ![c] = TRUE]
  /\ UNCHANGED <<callVars, now, nonceVars, waitVars, wire, clicks, decider>>

\* chat.postMessage succeeds; awaitDecision and awaitInteraction are entered,
\* and a timer is armed, on a closed socket too.
Post(c) ==
  /\ shown[c]
  /\ M!Posted(c)
  /\ waiter' = [waiter EXCEPT ![c] = "pending"]
  /\ deadline' = [deadline EXCEPT ![c] = now + AwaitTime]
  /\ UNCHANGED <<now, nonceVars, open, slackVars, decider>>

\* The screen throws, the request fails, or its answer is lost: the prompt may
\* be on show all the same.
PostFails(c) ==
  /\ M!PostFails(c)
  /\ UNCHANGED <<now, nonceVars, waitVars, slackVars, decider>>

------------------------------------------------------------------------------
(* The click.                                                               *)

\* Somebody, or some app, clicks a button of a prompt on show.
Click(k) ==
  /\ now <= MaxTime
  /\ shown[k.call] /\ k \notin clicks /\ Cardinality(clicks) < MaxClicks
  /\ clicks' = clicks \cup {k}
  /\ wire' = wire \cup {k}
  /\ UNCHANGED <<callVars, now, nonceVars, waitVars, shown, decider>>

\* Mutant of Consumes: an expired nonce is as good as any.
ConsumesExpired(k) == ~k.isBot /\ ~used[k.call]

\* awaitDecision consumes the nonce: not for a bot, and only if it is unused and
\* unexpired.
Consumes(k) == ~k.isBot /\ ~used[k.call] /\ now <= expiry[k.call]

\* The frame is taken off the wire, or will be delivered again.
Taken(k) == k \in wire /\ open /\ wire' \in {wire, wire \ {k}}

\* A click on an awaited nonce: the timer is cleared, the promise resolved, and
\* the decision is the click's if it consumes the nonce, a refusal if not.
Settle(k) ==
  LET c == k.call
  IN /\ Taken(k) /\ Waiting(c)
     /\ waiter' = [waiter EXCEPT ![c] = "none"]
     /\ deadline' = [deadline EXCEPT ![c] = 0]
     /\ used' = [used EXCEPT ![c] = @ \/ Consumes(k)]
     /\ M!Answered(c, IF Consumes(k) /\ k.approved THEN "approve" ELSE "deny")
     /\ decider' = [decider EXCEPT ![c] = [click |-> {k}, inTime |-> now <= expiry[c]]]
     /\ UNCHANGED <<now, expiry, open, shown, clicks>>

\* A click nobody waits for is reported (approval.rejected) and forgotten.
Reject(k) ==
  /\ Taken(k) /\ ~Waiting(k.call)
  /\ UNCHANGED <<callVars, now, nonceVars, waitVars, shown, clicks, decider>>

------------------------------------------------------------------------------
(* No click.                                                                *)

\* Mutant of Timeout: the waiter is left in the receiver's map.
TimeoutKeepsWaiter(c) ==
  /\ Waiting(c) /\ now >= deadline[c]
  /\ M!NoAnswer(c)
  /\ UNCHANGED <<now, nonceVars, waitVars, slackVars, decider>>

\* The timer fires, on time or late: the await rejects and the call is denied.
Timeout(c) ==
  /\ Waiting(c) /\ now >= deadline[c]
  /\ waiter' = [waiter EXCEPT ![c] = "none"]
  /\ deadline' = [deadline EXCEPT ![c] = 0]
  /\ M!NoAnswer(c)
  /\ UNCHANGED <<now, nonceVars, open, slackVars, decider>>

\* Mutant of Shut: the pending map is cleared and nobody told.
ShutSilently ==
  /\ open
  /\ open' = FALSE
  /\ waiter' = [c \in Call |-> "none"]
  /\ deadline' = [c \in Call |-> 0]
  /\ UNCHANGED <<callVars, now, nonceVars, slackVars, decider>>

\* The socket closes, or the receiver is stopped: every pending promise is
\* rejected and its timer cleared.  There is no reconnection.
Shut ==
  /\ open
  /\ open' = FALSE
  /\ waiter' = [c \in Call |-> IF Waiting(c) THEN "rejected" ELSE waiter[c]]
  /\ deadline' = [c \in Call |-> 0]
  /\ UNCHANGED <<callVars, now, nonceVars, slackVars, decider>>

\* The rejection reaches the daemon: the call is denied.
Dropped(c) ==
  /\ waiter[c] = "rejected"
  /\ waiter' = [waiter EXCEPT ![c] = "none"]
  /\ M!NoAnswer(c)
  /\ UNCHANGED <<now, nonceVars, deadline, open, slackVars, decider>>

\* The rest of the call's handler.
GoOn(c) ==
  /\ M!ExecReturns(c) \/ M!ExecFails(c) \/ M!Delivered(c)
  /\ UNCHANGED <<now, nonceVars, waitVars, slackVars, decider>>

Next ==
  \/ \E c \in Call :
       \/ \E v \in M!Decision : Ask(c, v)
       \/ Show(c) \/ Post(c) \/ PostFails(c)
       \/ Timeout(c) \/ Dropped(c) \/ GoOn(c)
  \/ \E k \in SlackInteraction : Click(k) \/ Settle(k) \/ Reject(k)
  \/ Shut
  \/ Tick

Spec == Init /\ [][Next]_vars

\* Time passes, a due timer fires, a rejection is handled and an HTTP request
\* comes to an end.  Nobody has to click, and no frame has to arrive.
Fairness ==
  /\ WF_vars(Tick)
  /\ \A c \in Call : /\ WF_vars(Timeout(c)) /\ WF_vars(Dropped(c))
                     /\ WF_vars(Post(c) \/ PostFails(c))

FairSpec == Spec /\ Fairness

------------------------------------------------------------------------------
(* What the channel promises.                                               *)

\* An approval in the journal is a human's Approve on that very prompt, which
\* reached the daemon before the nonce expired and consumed it: whatever was
\* clicked, redelivered, late or early (022-AT-ARCH, "The nonce is the binding",
\* "Humans only").
GrantedByHuman ==
  \A c \in Call :
    Len(trail[c]) >= 2 /\ trail[c][2] = "approval.granted" =>
      /\ used[c] /\ decider[c].inTime
      /\ decider[c].click = {[call |-> c, approved |-> TRUE, isBot |-> FALSE]}
      /\ decider[c].click \subseteq clicks

\* The daemon's await and the receiver's map agree: a call that awaits a
\* decision has a promise there which a click, the timer or the close of the
\* socket will settle, and no promise outlives its await, so that a nonce is
\* settled by at most one of them.
AwaitIsHeld ==
  \A c \in Call :
    /\ pc[c] = "awaiting" <=> waiter[c] # "none"
    /\ Waiting(c) <=> deadline[c] > 0
    /\ Waiting(c) => expiry[c] > 0 /\ ~used[c] /\ decider[c] = NoDecider

\* A prompt comes to an end, answered or not, whatever becomes of the socket.
EveryPromptEnds ==
  \A c \in Call :
    pc[c] \in {"posting", "awaiting"} ~> pc[c] \notin {"posting", "awaiting"}

==============================================================================
