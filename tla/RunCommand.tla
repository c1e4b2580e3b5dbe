------------------------------ MODULE RunCommand ------------------------------
(****************************************************************************)
(* `agp run` from start to exit (src/cli/commands/run.ts), the outbox it    *)
(* drains and feeds (src/daemon/outbox-relay.ts, outbox-store.ts), and the  *)
(* commands that prepare and check its home: `agp init`, `agp keygen` and   *)
(* the key that `agp verify` chooses.                                       *)
(*                                                                          *)
(* The operator runs one `agp run` after the other over the files of        *)
(* $AGP_HOME, and the other commands whenever they like.  A run may die     *)
(* between any two of its file operations, and in the middle of a write,    *)
(* which leaves a file that is read as empty.  The session between drain    *)
(* and projection is SessionDriver's.                                       *)
(****************************************************************************)
EXTENDS Naturals

CONSTANTS MaxRuns,       \* bound: runs; run p projects obligation p
          Environment,   \* the environments and options they may be given
          MaxKeys,       \* bound: keypairs minted
          MaxInterrupts, \* bound: keygens that die half way
          MaxMishaps     \* bound: deaths, failed marks and lost answers of runs

Flag == {"dockerSandbox", "dockerUp", "image", "slack", "slackCreds", "slackLive",
         "live", "taskAndRepo", "containClaude", "claudeImage"}
Harness == {"scripted", "claude-code", "codex"}

ASSUME RunCommandAssumption ==
  /\ Environment \subseteq [Flag -> BOOLEAN] \X Harness
  /\ {MaxRuns, MaxKeys, MaxInterrupts, MaxMishaps} \subseteq Nat

VARIABLES private, public,  \* the key files: the keypair they hold, or 0
          minted,           \* keypairs generated so far
          interrupted,      \* keygens that died half way
          policy,           \* the policy file: "none", "bad" or "ok"
          signed,           \* keypairs that have signed events of the journal
          outbox,           \* $AGP_HOME/outbox.json: a status for each obligation
          torn,             \* some write of it was cut off
          posts,            \* how often the channel has shown an obligation
          pc,               \* where each run is suspended, or how it exited
          key,              \* the keypair the current run signs with
          onSlack,          \* its channel is Slack, not the console
          late,             \* its options will be refused after the drain
          todo,             \* what drain found pending and has yet to attempt
          target,           \* the obligation it is posting
          mishaps           \* deaths, failed marks and lost answers so far

homeVars == <<private, public, minted, interrupted, policy, signed>>
boxVars == <<outbox, torn, posts>>
startVars == <<key, onSlack, late>>
drainVars == <<todo, target>>
vars == <<homeVars, boxVars, pc, startVars, drainVars, mishaps>>

Proc == 1..MaxRuns

Suspended == {"dialing", "draining", "redelivering", "running", "projecting", "posting"}
Exited == {"exit0", "exit1", "died"}

Init ==
  /\ private = 0 /\ public = 0 /\ minted = 0 /\ interrupted = 0
  /\ policy = "none" /\ signed = {}
  /\ outbox = [o \in Proc |-> "none"] /\ torn = FALSE /\ posts = [o \in Proc |-> 0]
  /\ pc = [p \in Proc |-> "off"]
  /\ key = 0 /\ onSlack = FALSE /\ late = FALSE
  /\ todo = {} /\ target = 0 /\ mishaps = 0

Goto(p, l) == pc' = [pc EXCEPT ![p] = l]

\* The process is gone, and what it held in memory with it.
Exit(p, l) ==
  /\ Goto(p, l)
  /\ key' = 0 /\ onSlack' = FALSE /\ late' = FALSE /\ todo' = {} /\ target' = 0

Mishap == mishaps < MaxMishaps /\ mishaps' = mishaps + 1

------------------------------------------------------------------------------
(* The operator's other commands.                                           *)

\* A keygen makes four file operations; `done` counts those it lived to make:
\* archive the private key, archive the public one, write the private key,
\* write the public one.

\* Mutant of keygenCommand: the rotation leaves the old public key in place.
keygenKeepsPublic(force, done) ==
  /\ private = 0 \/ force
  /\ minted < MaxKeys /\ minted' = minted + 1
  /\ private' = IF done >= 3 THEN minted' ELSE IF done >= 1 THEN 0 ELSE private
  /\ public' = IF done = 4 THEN minted' ELSE public
  /\ IF done = 4 THEN UNCHANGED interrupted
     ELSE interrupted < MaxInterrupts /\ interrupted' = interrupted + 1
  /\ UNCHANGED <<policy, signed, boxVars, pc, startVars, drainVars, mishaps>>

\* Without a private key nothing is archived, whatever public key is there.
keygenCommand(force, done) ==
  /\ private = 0 \/ force
  /\ minted < MaxKeys /\ minted' = minted + 1
  /\ private' = IF done >= 3 THEN minted' ELSE IF done >= 1 THEN 0 ELSE private
  /\ public' = IF done = 4 THEN minted'
               ELSE IF done >= 2 /\ private # 0 THEN 0 ELSE public
  /\ IF done = 4 THEN UNCHANGED interrupted
     ELSE interrupted < MaxInterrupts /\ interrupted' = interrupted + 1
  /\ UNCHANGED <<policy, signed, boxVars, pc, startVars, drainVars, mishaps>>

\* The key `agp verify` checks with; 0 makes it fail.
verificationKey == IF public # 0 THEN public ELSE private

\* A policy that exists stays unless --force; the skeleton is valid.
initCommand(force) ==
  /\ policy = "none" \/ force
  /\ policy' = "ok"
  /\ UNCHANGED <<private, public, minted, interrupted, signed, boxVars, pc,
                 startVars, drainVars, mishaps>>

\* The operator writes rules of their own.
EditPolicy ==
  /\ policy' \in {"ok", "bad"}
  /\ UNCHANGED <<private, public, minted, interrupted, signed, boxVars, pc,
                 startVars, drainVars, mishaps>>

------------------------------------------------------------------------------
(* The start.                                                               *)

\* run.ts refuses before it has touched anything.
RefusedEarly(on) ==
  \/ private = 0
  \/ policy # "ok"
  \/ on["dockerSandbox"] /\ ~(on["dockerUp"] /\ on["image"])
  \/ on["slack"] /\ ~(on["slackCreds"] /\ on["slackLive"])

\* It refuses a live harness without its options once the outbox is drained.
RefusedLate(on, harness) ==
  /\ harness # "scripted" /\ on["live"]
  /\ \/ ~on["taskAndRepo"]
     \/ /\ harness = "claude-code" /\ on["containClaude"]
        /\ ~on["claudeImage"] /\ ~on["image"]

\* recoverSessions journals what it reaps, if a session was orphaned; then drain
\* takes its snapshot of what is pending.
Recover(p, k) ==
  /\ \/ UNCHANGED signed
     \/ (\E q \in Proc : pc[q] = "died") /\ signed' = signed \cup {k}
  /\ todo' = {o \in Proc : outbox[o] = "pending"}
  /\ Goto(p, "draining")

Launch(p, e) ==
  /\ pc[p] = "off"
  /\ \A q \in 1..(p - 1) : pc[q] \in Exited
  /\ IF RefusedEarly(e[1])
     THEN Goto(p, "exit1") /\ UNCHANGED <<startVars, signed, todo>>
     ELSE /\ key' = private
          /\ onSlack' = e[1]["slack"]
          /\ late' = RefusedLate(e[1], e[2])
          /\ IF onSlack' THEN Goto(p, "dialing") /\ UNCHANGED <<signed, todo>>
             ELSE Recover(p, private)
  /\ UNCHANGED <<private, public, minted, interrupted, policy, boxVars, target, mishaps>>

\* receiver.start resolves; a rejection ends the process (Crash).
Dialed(p) ==
  /\ pc[p] = "dialing"
  /\ Recover(p, key)
  /\ UNCHANGED <<private, public, minted, interrupted, policy, boxVars, startVars,
                 target, mishaps>>

------------------------------------------------------------------------------
(* The outbox.                                                              *)

\* recordAttempt, and the call of projectEvent: the message is on its way.
Attempt(p) ==
  /\ \/ /\ pc[p] = "draining"
        /\ target' \in todo
        /\ Goto(p, "redelivering")
     \/ pc[p] = "projecting" /\ Goto(p, "posting") /\ UNCHANGED target
  /\ UNCHANGED <<homeVars, boxVars, startVars, todo, mishaps>>

\* Mutant of markDelivered: the mark is never written.
markNothing(ok) == UNCHANGED outbox

markDelivered(ok) ==
  IF ok THEN outbox' = [outbox EXCEPT ![target] = "delivered"] ELSE UNCHANGED outbox

\* Mutant of drained: what could not be delivered is tried again at once.
drainedUntilShown(ok) == IF ok THEN todo' = todo \ {target} ELSE UNCHANGED todo

\* One attempt for each obligation of the snapshot, whatever came of it.
drained(ok) == todo' = todo \ {target}

\* projectEvent settles.  The console always shows; Slack may refuse (or throw),
\* and its answer may be lost, or the mark fail (swallowed), after it has shown.
\* After its own projection the run stops the receiver and exits 0.
Projected(p) ==
  \E shown, ok \in BOOLEAN :
    /\ pc[p] \in {"redelivering", "posting"}
    /\ ok => shown
    /\ ~onSlack => ok
    /\ posts' = [posts EXCEPT ![target] = IF shown THEN @ + 1 ELSE @]
    /\ \/ markDelivered(ok) /\ IF shown /\ ~ok THEN Mishap ELSE UNCHANGED mishaps
       \/ ok /\ Mishap /\ UNCHANGED outbox
    /\ IF pc[p] = "posting" THEN Exit(p, "exit0")
       ELSE Goto(p, "draining") /\ drained(ok) /\ UNCHANGED <<startVars, target>>
    /\ UNCHANGED <<homeVars, torn>>

\* The drain is over; a live harness that lacks its options is refused now.
Drained(p) ==
  /\ pc[p] = "draining" /\ todo = {}
  /\ IF late THEN Exit(p, "exit1") ELSE Goto(p, "running") /\ UNCHANGED <<startVars, drainVars>>
  /\ UNCHANGED <<homeVars, boxVars, mishaps>>

------------------------------------------------------------------------------
(* The session and the end.                                                 *)

\* Mutant of SessionReturns: the message is posted first, and recorded if it fails.
SessionReturnsUnrecorded(p) ==
  /\ pc[p] = "running"
  /\ signed' = signed \cup {key}
  /\ target' = p
  /\ Goto(p, "projecting")
  /\ UNCHANGED <<private, public, minted, interrupted, policy, boxVars, startVars,
                 todo, mishaps>>

\* The driver returns, its events journaled; project() enqueues the obligation.
\* (A driver that rejects ends the process: Crash.)
SessionReturns(p) ==
  /\ pc[p] = "running"
  /\ signed' = signed \cup {key}
  /\ outbox' = [outbox EXCEPT ![p] = "pending"]
  /\ target' = p
  /\ Goto(p, "projecting")
  /\ UNCHANGED <<private, public, minted, interrupted, policy, torn, posts, startVars,
                 todo, mishaps>>

\* The run is cut short.  Its session may have journaled, its message on the way
\* may have been shown.
CutShort(p) ==
  /\ Mishap
  /\ Exit(p, "died")
  /\ \/ UNCHANGED posts
     \/ /\ pc[p] \in {"redelivering", "posting"}
        /\ posts' = [posts EXCEPT ![target] = @ + 1]
  /\ \/ UNCHANGED signed
     \/ pc[p] = "running" /\ signed' = signed \cup {key}
  /\ UNCHANGED <<private, public, minted, interrupted, policy>>

\* The process dies, or an exception nothing catches ends it: the receiver's
\* dial, a journal append, the driver, enqueue and recordAttempt can throw.
Crash(p) == pc[p] \in Suspended /\ CutShort(p) /\ UNCHANGED <<outbox, torn>>

\* It dies inside commit: the file holds half of a JSON text and loads as empty.
TornCommit(p) ==
  /\ pc[p] \in {"redelivering", "posting", "projecting", "running"} \/ (pc[p] = "draining" /\ todo # {})
  /\ CutShort(p)
  /\ outbox' = [o \in Proc |-> "none"] /\ torn' = TRUE

RunSteps(p) ==
  Dialed(p) \/ Attempt(p) \/ Projected(p) \/ Drained(p) \/ SessionReturns(p)

Next ==
  \/ \E force \in BOOLEAN : initCommand(force) \/ \E done \in 0..4 : keygenCommand(force, done)
  \/ EditPolicy
  \/ \E p \in Proc :
       RunSteps(p) \/ Crash(p) \/ TornCommit(p) \/ \E e \in Environment : Launch(p, e)

Spec == Init /\ [][Next]_vars

\* A run goes on, and a request to Slack comes to an end.
FairSpec == Spec /\ \A p \in Proc : WF_vars(Attempt(p)) /\ WF_vars(Projected(p)) /\ WF_vars(Drained(p))

------------------------------------------------------------------------------
(* What `agp run` promises.                                                 *)

\* "The delivery is never silently lost": once a session has returned, its
\* obligation is in the file while its run lives, and from its first post to
\* Slack on over every death, refusal and restart; and it is pending there until
\* the channel has shown it, unless a write was cut off.
OutboxKeeps ==
  ~torn => \A o \in Proc :
    /\ pc[o] \in {"projecting", "posting", "exit0"} => outbox[o] # "none"
    /\ posts[o] > 0 => outbox[o] # "none"
    /\ outbox[o] = "delivered" => posts[o] > 0

\* At least once, and once if nothing goes wrong: each repetition of a message
\* is paid for by a death, a lost answer or a failed mark.
RepeatIsExcused == \A o \in Proc : posts[o] <= 1 + mishaps

\* A start-up never hangs on the outbox: the drain ends, Slack answering or not.
DrainEnds ==
  \A p \in Proc : pc[p] = "draining" ~> pc[p] \in {"running", "exit1", "died"}

\* A journal signed by nothing but the key in place is verified with that key,
\* after one interrupted keygen too: `agp verify` does not call it forged.
VerifiesWithItsKey ==
  signed = {private} /\ private # 0 /\ interrupted <= 1 => verificationKey = private
==============================================================================
