----------------------------- MODULE SessionDriver -----------------------------
(****************************************************************************)
(* The session drivers of src/daemon/daemon.ts (runLive, runMediated,       *)
(* runScripted) and recoverSessions, on top of the per-call loop            *)
(* (Mediation) and the lease algebra (Lease), in several daemon processes   *)
(* that share one session store and one journal.                            *)
(*                                                                          *)
(* A driver is one async function: phase[r] is the await it is suspended    *)
(* at, and each action is the synchronous stretch after that await, taken   *)
(* when the promise resolves (or, in the actions named ...Rejects and       *)
(* ...Fails, rejects).  Its calls run concurrently with it.  A process may  *)
(* die at any moment, between the two writes of recoverSessions too.  A     *)
(* process drives one session (`agp run`, src/cli/commands/run.ts).         *)
(****************************************************************************)
EXTENDS Lease, Sequences, FiniteSets

CONSTANTS Run, Session, Call, NoRun,
          InstanceOf,  \* the process a run executes in
          SessionOf,   \* opts.sessionId
          DriverOf,    \* which driver it is
          IdentityOf,  \* the daemon's identityMode
          RunOf,       \* the run a call belongs to
          LateCalls,   \* may a live harness's hooks still call after run() settled?
          MaxTime      \* bound: the clock stops there

ASSUME DriverAssumption ==
  /\ InstanceOf \in [Run -> Instance]
  /\ SessionOf \in [Run -> Session]
  /\ DriverOf \in [Run -> {"live", "mediated", "scripted"}]
  /\ IdentityOf \in [Run -> {"off", "warn", "enforce"}]
  /\ RunOf \in [Call -> Run]
  /\ NoRun \notin Run
  /\ LateCalls \in BOOLEAN
  /\ MaxTime \in Nat
  /\ IsFiniteSet(Run)

\* runLive gates; the two others proxy-execute.
ModeOf == [c \in Call |-> IF DriverOf[RunOf[c]] = "live" THEN "gate" ELSE "mediate"]

VARIABLES pc, policyVerdict, answer, trail, ran, told,  \* Mediation's
          now, rec, held, latest,                 \* the lease store, as in SessionStore
          proc,       \* each process: "off", "reaping", "up" or "dead"
          unlogged,   \* leases (session, token) recoverSessions reaped and has yet to journal
          reapLog,    \* the session.reaped events
          phase,      \* where the driver is suspended, or how it settled
          failing,    \* runMediated's finally block is rethrowing
          barrier,    \* the calls Promise.all(inflight) was given
          fenced,     \* calls whose heartbeat threw FencedError
          box,        \* the run's sandbox
          harness,    \* the run's intendant
          log         \* the run's own journal events, in order

M == INSTANCE Mediation

callVars == <<pc, policyVerdict, answer, trail, ran, told>>
storeVars == <<now, rec, held, latest>>
procVars == <<proc, unlogged, reapLog>>
runVars == <<phase, failing, barrier, fenced, box, harness, log>>
vars == <<callVars, storeVars, procVars, runVars>>

Awaiting == {"gating", "starting", "spawning", "running", "draining", "tearing", "stopping"}
Over == {"returned", "rejected", "refused"}
RunEvent == {"verify.failed", "session.started", "session.ended"}

TypeOK ==
  /\ M!TypeOK
  /\ now \in Nat
  /\ rec \in [Session -> Slot]
  /\ held \in [Run -> Slot]
  /\ latest \in [Session -> Run \cup {NoRun}]
  /\ proc \in [Instance -> {"off", "reaping", "up", "dead"}]
  /\ unlogged \in [Instance -> SUBSET (Session \X Nat)]
  /\ reapLog \subseteq Session \X Nat
  /\ phase \in [Run -> {"idle"} \cup Awaiting \cup Over]
  /\ failing \in [Run -> BOOLEAN]
  /\ barrier \in [Run -> SUBSET Call]
  /\ fenced \subseteq Call
  /\ box \in [Run -> {"none", "up", "down"}]
  /\ harness \in [Run -> {"none", "up", "down"}]
  /\ log \in [Run -> Seq(RunEvent)]

Init ==
  /\ M!Init
  /\ now = 0
  /\ rec = [s \in Session |-> NoLease]
  /\ held = [r \in Run |-> NoLease]
  /\ latest = [s \in Session |-> NoRun]
  /\ proc = [i \in Instance |-> "off"]
  /\ unlogged = [i \in Instance |-> {}]
  /\ reapLog = {}
  /\ phase = [r \in Run |-> "idle"]
  /\ failing = [r \in Run |-> FALSE]
  /\ barrier = [r \in Run |-> {}]
  /\ fenced = {}
  /\ box = [r \in Run |-> "none"]
  /\ harness = [r \in Run |-> "none"]
  /\ log = [r \in Run |-> <<>>]

Alive(r) == proc[InstanceOf[r]] = "up"
Fresh(r) == \A q \in Run : InstanceOf[q] = InstanceOf[r] => phase[q] = "idle"
CallsOf(r) == {c \in Call : RunOf[c] = r}
Taken(r) == {c \in CallsOf(r) : pc[c] # "idle"}
Failed(c) == pc[c] \in M!Rejected \/ c \in fenced
Succeeded(c) == pc[c] = "done" /\ c \notin fenced

Goto(r, p) == phase' = [phase EXCEPT ![r] = p]

------------------------------------------------------------------------------
(* The processes.                                                           *)

\* Mutant of Boot: every active lease is swept, expired or not.
BootReapsAll(i) ==
  LET gone == {s \in Session : rec[s].status = "active"}
  IN /\ proc[i] = "off"
     /\ rec' = [s \in Session |-> IF s \in gone THEN Reaped(rec[s]) ELSE rec[s]]
     /\ unlogged' = [unlogged EXCEPT ![i] = {<<s, rec[s].token>> : s \in gone}]
     /\ proc' = [proc EXCEPT ![i] = IF gone = {} THEN "up" ELSE "reaping"]
     /\ UNCHANGED <<callVars, now, held, latest, reapLog, runVars>>

\* Mutant of Boot: the audit line of a reap is forgotten.
BootSilent(i) ==
  /\ proc[i] = "off"
  /\ rec' = [s \in Session |-> IF Expired(rec[s], now) THEN Reaped(rec[s]) ELSE rec[s]]
  /\ proc' = [proc EXCEPT ![i] = "up"]
  /\ UNCHANGED <<callVars, now, held, latest, unlogged, reapLog, runVars>>

\* `agp run` starts with recoverSessions: the store is swept and committed ...
Boot(i) ==
  LET gone == {s \in Session : Expired(rec[s], now)}
  IN /\ proc[i] = "off"
     /\ rec' = [s \in Session |-> IF s \in gone THEN Reaped(rec[s]) ELSE rec[s]]
     /\ unlogged' = [unlogged EXCEPT ![i] = {<<s, rec[s].token>> : s \in gone}]
     /\ proc' = [proc EXCEPT ![i] = IF gone = {} THEN "up" ELSE "reaping"]
     /\ UNCHANGED <<callVars, now, held, latest, reapLog, runVars>>

\* ... and then each reaped lease is journaled, one append after the other.
LogReap(i) ==
  \E l \in unlogged[i] :
    /\ proc[i] = "reaping"
    /\ unlogged' = [unlogged EXCEPT ![i] = @ \ {l}]
    /\ reapLog' = reapLog \cup {l}
    /\ proc' = [proc EXCEPT ![i] = IF unlogged'[i] = {} THEN "up" ELSE "reaping"]
    /\ UNCHANGED <<callVars, storeVars, runVars>>

\* The process dies (or an append of recoverSessions throws): nothing of it
\* acts again, and what it had started outside itself stays.
Crash(i) ==
  /\ proc[i] \in {"reaping", "up"}
  /\ proc' = [proc EXCEPT ![i] = "dead"]
  /\ UNCHANGED <<callVars, storeVars, unlogged, reapLog, runVars>>

Tick ==
  /\ now < MaxTime
  /\ now' = now + 1
  /\ UNCHANGED <<callVars, rec, held, latest, procVars, runVars>>

------------------------------------------------------------------------------
(* The start of a session.                                                  *)

\* The driver is called and awaits gateIdentity.
Enter(r) ==
  /\ Alive(r) /\ Fresh(r)
  /\ Goto(r, "gating")
  /\ UNCHANGED <<callVars, storeVars, procVars, failing, barrier, fenced, box,
                 harness, log>>

\* Mutant of Admitted: a manifest that does not verify is journaled, no more.
AdmittedUnverified(r) == IF IdentityOf[r] = "off" THEN {<<>>} ELSE {<<>>, <<"verify.failed">>}

\* gateIdentity lets the run proceed, having journaled what: nothing when it is
\* off or the manifest verified; in warn mode a failure is journaled and ignored.
Admitted(r) == IF IdentityOf[r] = "warn" THEN {<<>>, <<"verify.failed">>} ELSE {<<>>}

\* The manifest does not verify: enforce refuses the run.  Or the verifier, or
\* the append of intendant.verify.failed, throws.
Refuse(r) ==
  /\ Alive(r) /\ phase[r] = "gating" /\ IdentityOf[r] # "off"
  /\ \/ /\ IdentityOf[r] = "enforce"
        /\ Goto(r, "refused")
        /\ log' = [log EXCEPT ![r] = <<"verify.failed">>]
     \/ /\ Goto(r, "rejected")
        /\ \E es \in {<<>>, <<"verify.failed">>} : log' = [log EXCEPT ![r] = es]
  /\ UNCHANGED <<callVars, storeVars, procVars, failing, barrier, fenced, box, harness>>

\* acquire throws SessionContendedError.
Contend(r) ==
  /\ Alive(r) /\ phase[r] = "gating"
  /\ Contended(rec[SessionOf[r]], InstanceOf[r], now)
  /\ Goto(r, "rejected")
  /\ \E es \in Admitted(r) : log' = [log EXCEPT ![r] = es]
  /\ UNCHANGED <<callVars, storeVars, procVars, failing, barrier, fenced, box, harness>>

\* acquire; journal session.started (which may throw, before or after the line
\* is written); call intendant.start.
Begin(r) ==
  LET s == SessionOf[r]
      l == Granted(rec[s], InstanceOf[r], now)
  IN /\ Alive(r) /\ phase[r] = "gating"
     /\ ~Contended(rec[s], InstanceOf[r], now)
     /\ rec' = [rec EXCEPT ![s] = l]
     /\ held' = [held EXCEPT ![r] = l]
     /\ latest' = [latest EXCEPT ![s] = r]
     /\ \E es \in Admitted(r) :
          \/ /\ log' = [log EXCEPT ![r] = Append(es, "session.started")]
             /\ Goto(r, "starting") \/ Goto(r, "rejected")
          \/ log' = [log EXCEPT ![r] = es] /\ Goto(r, "rejected")
     /\ UNCHANGED <<callVars, now, procVars, failing, barrier, fenced, box, harness>>

\* intendant.start settles; sandbox.spawn is called.
Started(r) ==
  /\ Alive(r) /\ phase[r] = "starting"
  /\ \/ Goto(r, "spawning") /\ harness' = [harness EXCEPT ![r] = "up"]
     \/ Goto(r, "rejected") /\ UNCHANGED harness
  /\ UNCHANGED <<callVars, storeVars, procVars, failing, barrier, fenced, box, log>>

\* sandbox.spawn settles; the handler is registered and the harness let loose.
Spawned(r) ==
  /\ Alive(r) /\ phase[r] = "spawning"
  /\ \/ Goto(r, "running") /\ box' = [box EXCEPT ![r] = "up"]
     \/ Goto(r, "rejected") /\ UNCHANGED box
  /\ UNCHANGED <<callVars, storeVars, procVars, failing, barrier, fenced, harness, log>>

------------------------------------------------------------------------------
(* The calls of a session.                                                  *)

\* runScripted takes a call after the one before it succeeded; the others take
\* whatever the harness emits while run() is pending, and from a live harness's
\* surviving hooks until stop() has closed the gate socket.
MayCall(r) ==
  \/ /\ phase[r] = "running"
     /\ DriverOf[r] = "scripted" => \A d \in Taken(r) : Succeeded(d)
  \/ /\ LateCalls /\ DriverOf[r] = "live"
     /\ phase[r] \in {"draining", "tearing", "stopping"}

Emit(c, v) ==
  /\ Alive(RunOf[c]) /\ MayCall(RunOf[c])
  /\ M!Evaluate(c, v)
  /\ UNCHANGED <<storeVars, procVars, runVars>>

\* A call's handler goes on, up to the settling of deliver.
Handle(c) ==
  /\ Alive(RunOf[c])
  /\ \/ M!Posted(c) \/ M!PostFails(c)
     \/ \E a \in {"approve", "deny"} : M!Answered(c, a)
     \/ M!NoAnswer(c)
     \/ M!ExecReturns(c) \/ M!ExecFails(c)
  /\ UNCHANGED <<storeVars, procVars, runVars>>

\* deliver settles.  If it resolved, the outcome is pushed and the lease
\* refreshed, or heartbeat throws FencedError into the call's promise.
Finish(c) ==
  LET r == RunOf[c]
      s == SessionOf[r]
      l == Refreshed(rec[s], now)
      shut == Fenced(rec[s], held[r])
  IN /\ Alive(r)
     /\ M!Delivered(c)
     /\ \/ /\ pc'[c] = "done" /\ ~shut
           /\ rec' = [rec EXCEPT ![s] = l]
           /\ held' = [held EXCEPT ![r] = l]
           /\ UNCHANGED fenced
        \/ /\ pc'[c] = "done" /\ shut
           /\ fenced' = fenced \cup {c}
           /\ UNCHANGED <<rec, held>>
        \/ pc'[c] # "done" /\ UNCHANGED <<rec, held, fenced>>
     /\ UNCHANGED <<now, latest, procVars, phase, failing, barrier, box, harness, log>>

------------------------------------------------------------------------------
(* The end of a session.                                                    *)

\* Mutant of Throw: runMediated has no finally block either.
ThrowNoFinally(r) == Goto(r, "rejected") /\ UNCHANGED failing

\* The driver leaves its body on an exception: runMediated goes through its
\* finally block, the others reject at once.
Throw(r) ==
  IF DriverOf[r] = "mediated"
    THEN Goto(r, "tearing") /\ failing' = [failing EXCEPT ![r] = TRUE]
    ELSE Goto(r, "rejected") /\ UNCHANGED failing

\* Mutant of RunResolves: nobody waits for the calls in flight.
RunResolvesNoBarrier(r) ==
  /\ Alive(r) /\ phase[r] = "running" /\ DriverOf[r] # "scripted"
  /\ Goto(r, "draining")
  /\ UNCHANGED <<callVars, storeVars, procVars, failing, barrier, fenced, box, harness, log>>

\* intendant.run resolves: Promise.all is given the calls taken so far.
RunResolves(r) ==
  /\ Alive(r) /\ phase[r] = "running" /\ DriverOf[r] # "scripted"
  /\ Goto(r, "draining")
  /\ barrier' = [barrier EXCEPT ![r] = Taken(r)]
  /\ UNCHANGED <<callVars, storeVars, procVars, failing, fenced, box, harness, log>>

\* intendant.run rejects; calls in flight go on unobserved.
RunRejects(r) ==
  /\ Alive(r) /\ phase[r] = "running" /\ DriverOf[r] # "scripted"
  /\ Throw(r)
  /\ UNCHANGED <<callVars, storeVars, procVars, barrier, fenced, box, harness, log>>

\* Promise.all resolves (or the scripted loop ends): teardown is called.
Drained(r) ==
  /\ Alive(r)
  /\ \/ phase[r] = "draining" /\ \A c \in barrier[r] : Succeeded(c)
     \/ /\ phase[r] = "running" /\ DriverOf[r] = "scripted"
        /\ \A c \in Taken(r) : Succeeded(c)
  /\ Goto(r, "tearing")
  /\ UNCHANGED <<callVars, storeVars, procVars, failing, barrier, fenced, box, harness, log>>

\* Mutant of DrainRejects: one failed call among others that succeed is not noticed.
DrainRejectsAll(r) ==
  /\ Alive(r)
  /\ \/ phase[r] = "draining"
     \/ phase[r] = "running" /\ DriverOf[r] = "scripted"
  /\ Taken(r) # {} /\ \A c \in Taken(r) : Failed(c)
  /\ Throw(r)
  /\ UNCHANGED <<callVars, storeVars, procVars, barrier, fenced, box, harness, log>>

\* Promise.all rejects with the first failed call (the scripted loop throws).
DrainRejects(r) ==
  /\ Alive(r)
  /\ \/ phase[r] = "draining" /\ \E c \in barrier[r] : Failed(c)
     \/ /\ phase[r] = "running" /\ DriverOf[r] = "scripted"
        /\ \E c \in Taken(r) : Failed(c)
  /\ Throw(r)
  /\ UNCHANGED <<callVars, storeVars, procVars, barrier, fenced, box, harness, log>>

\* teardown settles; on a rejection stop is never called.
TornDown(r) ==
  /\ Alive(r) /\ phase[r] = "tearing"
  /\ \/ Goto(r, "stopping") /\ box' = [box EXCEPT ![r] = "down"]
     \/ Goto(r, "rejected") /\ UNCHANGED box
  /\ UNCHANGED <<callVars, storeVars, procVars, failing, barrier, fenced, harness, log>>

\* stop rejects, or it resolves inside the finally block of a failed run.
StopRejects(r) ==
  /\ Alive(r) /\ phase[r] = "stopping"
  /\ \/ UNCHANGED harness
     \/ failing[r] /\ harness' = [harness EXCEPT ![r] = "down"]
  /\ Goto(r, "rejected")
  /\ UNCHANGED <<callVars, storeVars, procVars, failing, barrier, fenced, box, log>>

\* Mutant of Ended: the lease is released whether or not the end was journaled.
EndedReleasesFirst(r) ==
  LET s == SessionOf[r]
  IN /\ Alive(r) /\ phase[r] = "stopping" /\ ~failing[r]
     /\ harness' = [harness EXCEPT ![r] = "down"]
     /\ rec' = [rec EXCEPT ![s] = IF Releasable(@, held[r]) THEN Released(@) ELSE @]
     /\ \/ /\ log' = [log EXCEPT ![r] = Append(@, "session.ended")]
           /\ Goto(r, "returned") \/ Goto(r, "rejected")
        \/ UNCHANGED log /\ Goto(r, "rejected")
     /\ UNCHANGED <<callVars, now, held, latest, procVars, failing, barrier, fenced, box>>

\* stop resolves; session.ended is journaled, then the lease released.  When the
\* append throws, its line written or not, the lease is not released.
Ended(r) ==
  LET s == SessionOf[r]
  IN /\ Alive(r) /\ phase[r] = "stopping" /\ ~failing[r]
     /\ harness' = [harness EXCEPT ![r] = "down"]
     /\ \/ /\ log' = [log EXCEPT ![r] = Append(@, "session.ended")]
           /\ \/ /\ rec' = [rec EXCEPT ![s] = IF Releasable(@, held[r]) THEN Released(@) ELSE @]
                 /\ Goto(r, "returned")
              \/ UNCHANGED rec /\ Goto(r, "rejected")
        \/ UNCHANGED <<log, rec>> /\ Goto(r, "rejected")
     /\ UNCHANGED <<callVars, now, held, latest, procVars, failing, barrier, fenced, box>>

DriverStep(r) ==
  \/ Enter(r) \/ Refuse(r) \/ Contend(r) \/ Begin(r)
  \/ Started(r) \/ Spawned(r)
  \/ RunResolves(r) \/ RunRejects(r)
  \/ Drained(r) \/ DrainRejects(r)
  \/ TornDown(r) \/ StopRejects(r) \/ Ended(r)

Next ==
  \/ \E i \in Instance : Boot(i) \/ LogReap(i) \/ Crash(i)
  \/ Tick
  \/ \E r \in Run : DriverStep(r)
  \/ \E c \in Call : Handle(c) \/ Finish(c) \/ \E v \in M!Decision : Emit(c, v)

Spec == Init /\ [][Next]_vars

\* The harness was answered, or given up on, for every call it made.
Answered(r) == \A c \in Taken(r) : told[c] # "nothing"

\* What the daemon awaits settles; a harness that got an answer to every call
\* it made exits; the operating system schedules every process that lives.
Fairness ==
  /\ \A c \in Call :
       /\ WF_vars(Alive(RunOf[c]) /\ Handle(c))
       /\ WF_vars(Finish(c))
  /\ \A r \in Run :
       /\ WF_vars(Refuse(r) \/ Contend(r) \/ Begin(r))
       /\ WF_vars(Started(r)) /\ WF_vars(Spawned(r))
       /\ WF_vars(Answered(r) /\ RunResolves(r))
       /\ WF_vars(Drained(r) \/ DrainRejects(r))
       /\ WF_vars(TornDown(r)) /\ WF_vars(StopRejects(r) \/ Ended(r))

FairSpec == Spec /\ Fairness

------------------------------------------------------------------------------
(* What the drivers promise.                                                *)

\* session.ended is the whole story: it follows session.started, and is written
\* only when every call taken before run() settled has succeeded and the harness
\* and the sandbox are down; a run that returns has written it.
EndLogged(r) == log[r] # <<>> /\ log[r][Len(log[r])] = "session.ended"

EndedIsComplete ==
  \A r \in Run :
    /\ phase[r] = "returned" => EndLogged(r)
    /\ EndLogged(r) =>
         /\ Len(log[r]) > 1 /\ log[r][Len(log[r]) - 1] = "session.started"
         /\ phase[r] \in {"returned", "rejected"}
         /\ box[r] = "down" /\ harness[r] = "down"
         /\ \A c \in IF DriverOf[r] = "live" THEN barrier[r] ELSE Taken(r) :
              Succeeded(c) /\ told[c] # "nothing"

\* In enforce mode an intendant that does not verify leaves nothing but its
\* intendant.verify.failed: no lease, no session.started, no sandbox
\* (daemon.ts:157-158).
RefusedStartsNothing ==
  \A r \in Run :
    (IdentityOf[r] = "enforce" /\ \E n \in 1..Len(log[r]) : log[r][n] = "verify.failed")
      => /\ log[r] = <<"verify.failed">>
         /\ held[r] = NoLease
         /\ box[r] = "none" /\ harness[r] = "none"

\* No clean end is fabricated: a session's lease reads `released` only if the
\* run it was granted to last journaled session.ended (daemon.ts:468-471).
ReleasedMeansEnded ==
  \A s \in Session : rec[s].status = "released" =>
    latest[s] # NoRun /\ phase[latest[s]] = "returned"

\* "Each reap is journaled" (daemon.ts:188): a lease that reads `reaped` is in the
\* journal under the token it had, unless the process that swept it has yet to
\* write it, or died before it could.
ReapAccounted ==
  \A s \in Session : rec[s].status = "reaped" =>
    \/ <<s, rec[s].token>> \in reapLog
    \/ \E i \in Instance : proc[i] \in {"reaping", "dead"} /\ <<s, rec[s].token>> \in unlogged[i]

\* runMediated leaves no sandbox behind in a living process, whatever threw,
\* unless the teardown itself failed (daemon.ts:467-471).
MediatedLeavesNoSandbox ==
  [][\A r \in Run :
       DriverOf[r] = "mediated" /\ phase'[r] \in Over /\ phase[r] \notin Over
         => box'[r] # "up" \/ phase[r] = "tearing"]_vars

\* A session that began settles, or its process died, or a call of it was left
\* without an answer by an exception in its handler.
RunSettles ==
  \A r \in Run :
    phase[r] \in Awaiting ~>
      \/ phase[r] \in Over
      \/ ~Alive(r)
      \/ \E c \in Taken(r) : Failed(c) /\ told[c] = "nothing"

\* Through their sweeps, drivers and calls, the processes use the store as
\* SessionStore describes it: a run holds its lease until it returns or its
\* process dies, and each step on the record is one operation of the store.
Store == INSTANCE SessionStore WITH
  held <- [r \in Run |->
             IF Alive(r) /\ phase[r] # "returned" THEN held[r] ELSE NoLease],
  up <- {i \in Instance : proc[i] # "dead"},
  MaxToken <- Cardinality(Run)

ImplementsStore == Store!Spec

\* "An old process that wakes up cannot keep acting under a session a new
\* daemon has taken over" (session-lease.ts:9-11).
NoZombieExec ==
  [][\A c \in Call : ~ran[c] /\ ran'[c] =>
       latest[SessionOf[RunOf[c]]] = RunOf[c]]_vars

==============================================================================
