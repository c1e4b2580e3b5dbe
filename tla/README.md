# A TLA+ model of the Agent Governance Plane

The Agent Governance Plane (AGP) stands between a coding agent (an *intendant*) and what the agent
wants to do. For each tool call it evaluates a policy, asks a human when the policy says so, runs the
call in a sandbox or tells the agent's own harness to go ahead, and writes every step to a signed
journal. This directory models the parts of `src/` that have to be right for that to mean anything, from
the hook a harness starts to the exit of `agp run`. Paths below are relative to `src/`, the program's
source directory.

## Inventory

| Component | State | Operations | Talks to | What makes it correct |
|---|---|---|---|---|
| governance loop, `daemon/daemon.ts` `mediate`, `gate` | one suspended handler per call | one per call; four awaits | policy, journal, channel, sandbox, intendant | no effect before its authorisation is journaled; one coherent story per call; every call ends |
| drivers, `daemon.ts` `runLive`, `runMediated`, `runScripted`, `gateIdentity`, `recoverSessions` | the await a driver is at, calls in flight, sandbox, harness, lease handle | start, admit a call, drain, tear down, end, sweep | all of the above, session store | `session.ended` is the truth; nothing starts unverified in enforce mode; nothing leaks; a session ends |
| session store, `daemon/session-store.ts` | sessions → lease | `acquire`, `heartbeat`, `release`, `reapExpired` | JSON file shared by processes | a superseded owner is fenced out for good; a live lease stays with its owner |
| journal, `journal/journal.ts` | file of hash-chained events, signed head file | `append` | file system | a returned append is in the file or its loss is visible |
| verifier, `journal/verify.ts` | none | `verifyJournalFile` | the two files | says ok only of a whole journal |
| outbox, `daemon/outbox-{store,relay}.ts` | obligations | `enqueue`, `attempt`, `drain` | channel, JSON file | delivered at least once, never lost; a start-up does not hang on it |
| Slack channel, `channels/slack/*` | nonces, waiters with timers | post, await, click, timeout | Slack, daemon | one human click decides, once, in time |
| gateway and hook bridge, `gateway/*`, `intendants/claude-code/*`, `intendants/codex/*` | sockets, decode buffer, pending calls | frame, dispatch, reply, stop | harness hooks, daemon | one answer per request; fail closed |
| sandbox, `sandbox/docker/*` | containers, network, proxy | spawn with preflight, exec, teardown | docker | no unverified or leftover container |
| policy, credentials | rules, vault | `evaluate`, linter; resolve, redact, screen | daemon, journal | most restrictive rule wins; no secret survives redaction or reaches the journal |
| CLI, `cli/commands/*`, `cli/probe.ts`, `config.ts` | the files of `$AGP_HOME` | `run`, `init`, `keygen`, `verify`, `doctor` | everything | refuses before it has touched anything; keys, journal and outbox survive deaths |
| cross-chain, tenants, contracts, crypto, reference adapters | none | pure functions | | |

Hard behaviour: calls interleave at awaits; any append may throw with its line written or not; a prompt
may wait as long as the lease lives; hooks, timers, `stop` and the daemon's verdict race on a socket; a
process may die between any two file operations; a docker command may fail in the middle of a cleanup;
promises reject with nobody watching. `PROJECT.json` lists these hazards at their lines.

## Modules

| Module | Models | How state and actions correspond |
|---|---|---|
| `Lease` | the lease algebra of `BaseSessionStore` | one operator per test and per written lease; a missing key is `NoLease` (token 0) |
| `SessionStore` | the store as its users see it; **the abstract specification of session ownership** | `rec` is the record, `held[r]` a driver's local `lease`, `latest` a history of acquires; one action per operation, plus process death and the clock |
| `Mediation` | `mediate` and `gate` | `pc[c]` is the await a call is suspended at; an action is the synchronous stretch up to the next await, its appends included; `trail[c]` is the journal's projection on the call |
| `SessionDriver` | the three drivers, `gateIdentity`, `recoverSessions`, process death | composes `Mediation` (`M == INSTANCE Mediation`) and `Lease`; `phase[r]` is the driver's await; `Emit`, `Handle`, `Finish` conjoin a `Mediation` action with the driver's part; `Store == INSTANCE SessionStore WITH ...` is the refinement |
| `Journal` | `append`, `writeHead`, the verifier | `lines` and `head` are the two files; `Seal`, `Write`, `WriteHead` are `append`'s file operations, with `TearLine`, `TearHead`, `Stop` where they break; `Verifies` is `verifyJournalFile(...).ok`; `Log == INSTANCE AppendOnlyLog WITH ...` is the refinement |
| `AppendOnlyLog` | the journal as its readers and writers see it; **the abstract specification of a journal** | `log` is what `readEvents` returns, `readable` whether it throws instead, `acked` the events whose append returned; it grows at its end, or is refused for good |
| `SlackApproval` | `SlackChannel`, `NonceStore`, `SocketModeInteractionSource` under the loop | composes `Mediation`; `expiry`, `used` are the nonce store's entry of the call's nonce, `waiter`, `deadline` the receiver's promise and timer, `shown`, `wire` Slack's side; a frame, the consumption of the nonce and the loop's next stretch are one action, since only microtasks run in between |
| `Gateway` | hook process, client, framing, server, harness process object, `deliver` | `up`, `down` are the two directions of a connection as whole frames, `buffer` the decoder's; `processed`, `pending`, `asker` are the server's replay guard and the promises `respond` resolves; `OnData` takes a chunk of any number of frames and decodes the buffer with it, `Stop` is `stop` up to the closed server |
| `Sandbox` | `DockerSandbox.spawn`, `teardown`, Topology C, both preflights, the doctor's container | `at` is the docker command awaited, `world` what docker holds for the session, `todo` the removals left, `mishap` a history of why a resource is left: its id is unknown, docker kept it, a throw stranded it; one action per docker command with its outcomes, `RunnerThrows` for no answer at all, `Dies` for the end of the process |
| `GuardedExec` | `evaluate`, the linter, placeholders, redaction, the journal's screen, inside `mediate` | the pure functions under the code's names; the scenario is chosen in `Init`, the four actions are the stretches of `mediate`; `delivered`, `journal` and `argv` are where a text may end up |
| `RunCommand` | `agp run` from start to exit, the outbox, `init`, `keygen`, `verify`'s key | files are `private`, `public`, `policy`, `outbox`; `pc[p]` is where run `p` is suspended; run `p` projects obligation `p`; `Crash`, `TornCommit` cut it short |
| `MC*` | instances for TLC | |
| `SessionStoreProofs`, `MediationProofs`, `SessionDriverProofs`, `SlackApprovalProofs`, `JournalProofs`, `SandboxProofs`, `RunCommandProofs` | theorems about the module of that name, checked by TLAPS | |
| `GateProofs` | theorems about `GuardedExec` and `Gateway` | `Gateway` names its specification `GatewaySpec` so that one module can extend both |

Operators named "Mutant of X" in a comment are deliberately wrong versions of X, not part of the model;
`PROJECT.json` pairs each with the property that notices it.

How they fit: `SessionDriver` and `SlackApproval` are compositions around `Mediation`, one with the
lease store, one with the channel. `Gateway` sits before `gate` and keeps of it only the decision;
`Sandbox` sits behind `exec`, of which the other modules only see that it resolves or rejects;
`GuardedExec` follows one call of `mediate` with the texts `Mediation` abstracts; `RunCommand` is the
process around one session, of which it only sees that it returns or does not.

### What is abstracted

* In `Mediation` and what composes it the policy's decision, the operator's answer and the verifier's
  verdict are nondeterministic. So is where an append throws (the screen, a torn line, a full disk), with
  the line written or not.
* In `Mediation` and `SessionDriver` the journal is its projection on a call or a run; the file itself is
  `Journal`'s subject. Events of different calls interleave freely, which projections do not restrict.
* `Begin` and `Ended` each merge adjacent synchronous writes. An append that throws ends them early, in
  branches of their own; a process that dies between the writes leaves the same store and journal as
  such a branch followed by `Crash`.
* Store operations are atomic, and no write of the store file is cut off. That is right for the in-memory
  store; what the file store does otherwise is described below.
* A hash is the serial number of a sealed event: no collisions, and nobody without the key signs. So the
  verifier's hash and signature checks hold of every line, and its verdict rests on links, parse and head.
* A process drives one session, as `agp run` does. The CLI gives each session a fresh id; two runs share
  one through `opts.sessionId`, the case the lease is there for. An in-process restart is a new instance.
* `heartbeatAt` is written and never read; `assertTenantContext` throws before anything happens: left out.
* In `SlackApproval` a nonce is named by its call (a fresh uuid each), and the report of a click nobody
  awaits (`approval.rejected`), the update of the prompt and frames that are not AGP clicks are left out.
* In `Gateway` frames are whole: the part of one that a chunk ends with waits like a frame not yet read.
  What is malformed (not JSON, not a message of the schema) is one kind of frame; the limit on a frame's size
  is left out. A connection the server ended stays `ended` until it is closed, whatever is written to it; in
  Node a write after `end` may destroy it sooner, which the client learns in the same way.
  `live-codex-process.ts` is the code of
  `bun-claude-process.ts` under other names, and both intendants' `deliver` map verdicts alike.
* In `Sandbox` argument vectors are abstracted to what they create; whether docker really confined a
  container is decided when it starts (`open`), and a probe of it may fail in silence or find no `nc` either
  way. A run that fails may leave a container that was created and not started, a run that succeeds may print
  no id, a removal may fail. A mishap excuses the resource it is about and nothing else. `exec`, a single
  forwarded command, is not in it.
* In `GuardedExec` a text is a short sequence of characters in which a placeholder, and the redaction mark,
  is one character; no secret contains the mark.
* In `RunCommand` runs follow one another, and a key file is written whole or not at all.
* A promise that rejects while nobody has a handler on it may end the process. `Crash` may happen at any
  moment, and covers it.

## Runs

| Run | Shows | States, time |
|---|---|---|
| `session_store` | fence and live lease, runs that sleep and wake | 15,072, 1 s |
| `mediation` | write-ahead, one story, told what is journaled, every call settles | 47,952, 6 s |
| `session_solo` | one daemon, each driver and identity mode, every await may reject | 106,679, 45 s |
| `session_duo` | two daemons on one session; refinement of `SessionStore` | 891,157, 50 s |
| `journal` | two writers that may die inside each file operation, damage at rest | 131,137, 2 s |
| `slack` | two prompts, two clicks by people or bots, early, late or repeated | 945,354, 70 s |
| `gateway` | two hooks and a stranger on one socket, timers, stop, death of the server | 520,151, 29 s |
| `sandbox` | every configuration, every docker failure, two spawns of one session | 99,032, 8 s |
| `guarded_exec` | rule sets and vaults, whatever a tool prints | 185,889, 7 s |
| `run_command` | three runs over one home, rotations, deaths, Slack that loses answers | 825,108, 80 s |
| `session_zombie`, `sandbox_probe` | each a disagreement between the code and what it says of itself (below) | a violation |

Properties, by run (the type invariant is checked in `session_store` and `session_solo`, there with that of
`Mediation` in it):

* `session_store`. `SupersededIsFenced`: whoever is not the last acquirer cannot heartbeat.
  `FencedForever`: once out, always out. `LiveLeaseKept`: an unexpired lease is ended or shortened by its
  owner only.
* `mediation`. `WriteAhead`: the authorising event precedes the effect. `OneStory`: a call's events are a
  prefix of one of the legal stories. `ToldMatchesJournal`: the intendant hears what was journaled.
  `EveryCallSettles`: a prompt nobody answers still ends.
* `session_solo`. `EndedIsComplete`: `session.ended` means that every awaited call succeeded and harness
  and sandbox are down. `RefusedStartsNothing`. `MediatedLeavesNoSandbox`: the finally block does its work
  in a living process. `RunSettles`: a session ends, or its process died, or a handler's exception left a
  call without an answer, so that the harness may hang.
* `session_duo`. `ReleasedMeansEnded`: `released` in the store is never a fabricated clean end.
  `ReapAccounted`: a lease that a sweep reaped is journaled, or about to be, while the process lives.
  `ImplementsStore`: every step of sweeps, drivers and calls is one operation of `SessionStore` or none.
* `journal`. `NothingLostSilently`: a returned append is in the file, or the file is unreadable and no
  further append succeeds. `VerifiedMeansKept`: a journal that verifies holds every returned append.
  `AppendHeals`: an append repairs a head left behind by a crash. `ImplementsLog`: every step of the
  writers grows the log at its end, returns an event that is in it, makes it unreadable for good, or shows
  nothing.
* `slack`. `GrantedByHuman`: behind every `approval.granted` is a human's Approve on that prompt, in time,
  that consumed the nonce. `AwaitIsHeld`: the daemon's await and the receiver's map agree, so that a click,
  the timer or the close settles each prompt, and one of them only. `EveryPromptEnds`: with nobody
  clicking, and a socket that closes and is not reopened.
* `gateway`. `AllowedByGate`: a hook exits 0 only on the gate's own allow for the request that very hook
  sent. `MediatedOnce`: an id reaches the gate once, on whatever connection it comes back.
  `LinksApart`: whatever others write, and whatever of a rejected chunk is still in a decoder, no hook's link
  is ended and nothing but its own request is handled for it. `StopUnblocks`: after
  `stop` nobody waits on a link still held open. `EveryHookAnswers`: each hook exits, by its timer at worst.
* `sandbox`. `HandleIsProbed`: a handle that was to be checked stands on a probe of its own container that
  read as blocked. That this proves isolation is what `sandbox_probe` refutes. `FailedSpawnCleansUp`: what a
  rejected spawn leaves has no id the code knows, or docker failed to remove it, or the runner threw where no
  `try` is (see 5 below). `HarnessBehindProxy`: nothing, a second spawn, a teardown and a death
  included, takes proxy or network from under a harness whose id is known and which docker has not failed to
  remove; without those two exceptions it is false (see 4 below). `SpawnSettles`: also when the cleanup
  fails.
* `guarded_exec`. `StrictestWins`: no matching rule is stricter than the verdict, whatever the order of the
  rules. `LintSeesDangerousAllow`: what runs unasked was warned of. `JournalHoldsNoSecret`: not even in a
  tool's name. `DeliveredHoldsNoUsedSecret`: with secrets that overlap or contain each other, and of
  whole secrets: a part of a longer one that a shorter one left behind is not spoken of.
* `run_command`. `OutboxKeeps`: an obligation is in the file from the return of its session on while the run
  lives, from its first post on whoever dies, and marked only once shown. `RepeatIsExcused`:
  each repetition is paid for by a death, a lost answer or a failed mark.
  `VerifiesWithItsKey`: the key `agp verify` picks is the one that signs. `DrainEnds`: before the session.

### Bounds

* `session_store`: three runs are two rivals of one instance and one of another, so that a token is
  superseded twice; `MaxTime` 5 with `TTL` 2 leaves time to expire, be reaped, be granted and expire again.
* `mediation`: calls share only the journal, so three (one proxied, two gated) hold every interaction; the
  proofs cover any number.
* `session_solo`: two calls per session are the least with one failing while another succeeds or is late;
  the clock is stopped because expiry needs a second owner.
* `session_duo`, `session_zombie`: a lease of one instant and two instants to live through, enough for it
  to expire under a waiting call, be swept and be taken over; one call per session.
* `journal`: four seals by two writers make a fork of two branches with an append on top. `Resume` is
  `FALSE`: nobody appends to a file that was damaged at rest (see 7 below).
* `slack`: prompts are asked, and clicks made, at instants 0 and 1 with nonces and timers of one instant: a
  prompt posted late outlasts its nonce, a click may precede the post's return, come late or come twice.
* `gateway`: two hooks may ask about the same id or different ones, and one stranger writes up to
  `MaxStream` 2 frames of any kind: a malformed frame before or behind a good one, in one chunk or in two,
  and a copy of a hook's request.
* `sandbox`: `MaxSpawns` 2, a spawn that meets what the last one left; the proof covers any number. One spawn
  is enough for `sandbox_probe`.
* `guarded_exec`: pairs of rules cover every tie of effect and priority, three rules a winner between two
  others; two secrets overlap, nest or are equal; a tool prints up to `MaxOutput` 3 characters of its own, or
  its whole command line. The scenario sets are in `MCGuardedExec`; the proofs cover any policy and vault.
* `run_command`: the environments lack at most one of the things a run may need, which reaches every
  refusal; three runs, three keypairs, two interrupted keygens and two mishaps let an obligation be left
  pending twice and a key be rotated twice; the proofs cover any number.
* `Tick`, `Seal` and the crash actions are bounded in their guards; `MaxToken` is no lower than the number
  of runs, so it cuts nothing off.

`CHECK_DEADLOCK FALSE` everywhere: sessions end, writers stop, hooks exit.

### Fairness

Weak fairness only. `Mediation`: what the daemon awaits settles. The prompt is an HTTP request, the
channel's await has a timer (`awaitTimeoutMs`, rejecting), the command and `deliver` end. No fairness on
`Answered`: nobody has to click. `SessionDriver`: the same while the process lives; `start`, `spawn`,
`teardown` and `stop` settle; and `intendant.run` resolves once the harness has an answer to each call it
made (a harness that spins forever is outside the daemon). No fairness on `Enter`, `Emit`, `RunRejects`,
`Crash`. `SlackApproval`: time passes, a due timer fires, a rejection is handled, an HTTP request ends; none
on clicks, frames or the socket. `Gateway`: a hook's own 30 s timer fires and it reads what its socket holds;
none on the gate, the server or the stranger. `Sandbox`: a docker command that was started returns, since the
runner has no timeout of its own. `RunCommand`: the steps of a run between drain and session, and a request
to Slack comes to an end. The scheduling of two processes is fair to both, as the operating system's is.

## Where the code and its words differ

Found by a run:

1. **Exec by a superseded run** (`session_zombie`). The lease is refreshed after a call and not looked at
   before `exec`. `session-lease.ts:9-11`.
2. **A probe that cannot connect** (`sandbox_probe`). The isolation preflight dials 192.0.2.1, which nothing
   answers, and reads a timeout, or a failure without a word, as isolated; so a container whose network came
   up open is handed out. `network-preflight.ts:1-7`, `:31`, `:54-55`, `:77-86`.

Met while modelling. The modules do what the code does here, or leave it out where they say so; no property
claims otherwise, and no run is spent on them:

3. `FrameDecoder.push` loses the frames before a malformed one and leaves those behind it in its buffer. The server
   reads on after `sock.end()`, so the next chunk dispatches them: a request of a rejected chunk is mediated over a
   link that was to be dropped (`protocol.ts:8-9`, `:51`, `:60-63`, `server.ts:63-77`).
4. A harness whose `docker run` printed no id is left running while its proxy and network are removed
   (`topology-c.ts:180-181`, `:250-254`), and so is one that docker did not remove (`:270-275`).
5. The isolation probe of a plain container is outside any `try`: a runner that throws there leaves the container
   it was to check (`docker-sandbox.ts:185-188`). A throw in a docker command of the build does the same.
6. `teardown` removes the harness container and not the proxy and network of Topology C, so a second Topology C
   spawn of the session fails at `network create` (`docker-sandbox.ts:279-281`).
7. `append` re-signs the head over the tail it finds, so the next append covers a truncation
   (`journal.ts:7-9`); hence `Resume = FALSE`.
8. `FileSessionStore.load` and `FileOutboxStore.load` read a torn file as empty. In the session store, tokens
   restart at 1 and a superseded run's heartbeat passes (`session-store.ts:37`); no run cuts its writes off. In
   the outbox, pending obligations are gone; `OutboxKeeps` excepts it by `torn`.
9. `postApprovalRequest` is awaited outside the `try`: nothing runs, but no denial is journaled or delivered
   (`slack-channel.ts:52-53`).
10. The sweep is committed first and journaled after: a death in between leaves a reap nobody journals
   (`daemon.ts:188`). `ReapAccounted` is about a living process.
11. A bot's click leaves the nonce alone but settles the await, so no human can act on the request any more
   (`slack-channel.ts:75-76`).
12. A `docker run -d` whose start fails leaves a created container that neither spawn path removes, for want of
   an id (`docker-sandbox.ts:164-168`, `topology-c.ts:246-249`); `FailedSpawnCleansUp` excepts it as unnamed.
   Topology C ignores `mounts` and `limits`, and its model probe does not go through the proxy.
13. `agp run` builds `DockerSandbox` without an egress policy and `Daemon` without a vault.
14. The hook gives up after 30 s; a later approval is journaled as `gate.allow` of a call the harness refused.
15. `OutboxRelay` "never throws", but `enqueue` and `recordAttempt` are outside its `try`.
16. Two interrupted rotations in a row leave a public key of another pair; `VerifiesWithItsKey` stops at one.
17. A placeholder whose variable is set but empty resolves to nothing, rather than throwing.

## Proofs

Proved by TLAPS for all values of the constants, from the named assumptions of the modules, which only type
the constants (commands and vaults as texts), require `TTL > 0` and finitely many runs, keep the null values
and the hooks apart, and say that the redaction mark occurs in no secret.

* `SessionStoreProofs`: `TypeOK`, `SupersededIsFenced`, `FencedForever`, `LiveLeaseKept` for
  `SessionStore!Spec`. `SupersededIsFenced` is not inductive: a superseded run is fenced because its token
  is *strictly behind* the slot's, and that survives an acquire only if no handle is ever ahead. So
  `IInv == TypeOK /\ HandleBehind /\ SupersededStrictlyBehind /\ ExpiryWithinTTL`; the last part carries
  `LiveLeaseKept` (a refresh never shortens an expiry). `FencedForever` follows from what a step can do to
  a slot: keep token and activity, deactivate, or raise the token.
* `MediationProofs`: `TypeOK`, `WriteAhead`, `OneStory`, `ToldMatchesJournal` for `Mediation!Spec`. A call
  sees only its own projection of the journal, so the invariant is one predicate of a call: `Local(c)`
  enumerates its situations, relating `pc`, verdict, answer, trail, effect and message. `OneStory` alone is
  not inductive, since which story goes on depends on where the handler is suspended. One lemma per
  action; the sequences are short and written out, and `Tuples`, `IsPair`, `Concat`, `Prefixes` state what
  is used of them.
* `RunCommandProofs`: `OutboxKeeps`, `RepeatIsExcused`, `VerifiesWithItsKey` for `RunCommand!Spec`. What a
  run has read of the outbox must stay true while it acts on it, which holds because runs follow one
  another: `OneAtATime`, `TodoPending`, `TargetPending`, `Unborn`. `PostsPaid` is the strengthening of
  `RepeatIsExcused` that survives a mark; `KeysPaired` says what an interrupted keygen can leave.
* `SandboxProofs`: `HandleIsProbed`, `FailedSpawnCleansUp`, `HarnessBehindProxy` for `Sandbox!Spec`, with no
  assumption about docker but that it keeps a network a container runs on. They need the whole path:
  `Situation` says, at each awaited docker command, what the spawn has made (`Mine`), which harnesses of this
  and earlier spawns no mishap accounts for (`Live`), and what the cleanup has yet to remove (`Cleaning`). Its
  core is that a spawn that gets past `network create` met no such harness: one of an earlier spawn would still have its
  network, and the name be taken.
* `GateProofs`, `GuardedExec` part: `StrictestWins`, `LintSeesDangerousAllow`, `JournalHoldsNoSecret` for
  `GuardedExec!Spec`, for policies of any length and any priorities. The invariant only says that the verdict
  is `evaluate`'s of the call; the work is in `EvaluateStrictest`, that the three sort keys always leave a
  first element. Without induction, `Greatest` gets it from cardinality: an element with the fewest elements
  above it has none. `JournalHoldsNoSecret` says that both appends pass the screen of the vault the call uses.
* `GateProofs`, redaction: `DeliveredHoldsNoUsedSecret`, for any vault, command and output of a tool. Both
  folds, over the placeholders of a command and over the values to redact, are turned into a sequence of
  states (`FoldsByExists`); `MaskedExists` does the same for `Masked`, a recursive function of positions,
  downwards from the end of the text. What one replacement leaves is described by where it comes
  from: a stretch of the result that does not hold the mark stood in the text before, and the replaced value begins
  nowhere in it (`MaskedHides`). So a replacement removes its value, and none that follows can bring a
  removed one back, since a secret never holds the mark. `UsedSecretsFound` says that the values redacted
  include every secret a placeholder of the command was resolved to; `CommandResolved`, in the invariant,
  that the text delivered was redacted for the very command that ran.
* `GateProofs`, `Gateway` part: `AllowedByGate`, `StopUnblocks`, `MediatedOnce`, `LinksApart` for
  `GatewaySpec`, under `ConnsAssumption`, for chunks of any length. `AllowedByGate` is about a hook, but what a
  hook will do is decided by what is still on its connection, so `ServerOK` says of every unread verdict that
  allows that it is the gate's and written to the one who asked (`Honest`). `LinksApart` rests on `LinkHeld`: a
  hook's decoder is empty and its connection carries nothing but its one request. A chunk is a fold over its frames:
  `FoldSteps` shows that the fold of the community modules, which recurses over index sets, is the last of
  a sequence of states of which each is the `Dispatch` of the one before; from there on `UpTo` (induction up
  to a bound, from the least counterexample) lifts what one frame keeps to what a chunk keeps.
* `SessionDriverProofs`: `TypeOK`, `EndedIsComplete`, `RefusedStartsNothing`, `ReleasedMeansEnded`,
  `ReapAccounted`, `MediatedLeavesNoSandbox`, and the refinement `ImplementsStore`, for any number of runs,
  processes, sessions and calls. `Local(r)` enumerates the awaits a driver can be suspended at, with what
  its log, its lease, its sandbox, its harness and its calls then look like; the rest of the invariant is
  between runs. `ReleasedMeansEnded` needs `ReturnedIsFenced`, that a run that returned
  cannot refresh its lease any more, and `TokenOrder` (no handle ahead of its slot, equal only for the latest
  grantee); a sweep needs `ProcOrder` (a process that has not come up has no runs).
  `TokenCounts` bounds a slot's token by the runs it was granted to, so the store's `MaxToken` cuts nothing
  off; that is a count, hence `IsFiniteSet(Run)` in `DriverAssumption`. In the refinement, `Boot` is
  the store's reap, `Begin` its acquire, `Finish` its heartbeat, `Ended` its release, `Crash` and `Tick` its own, and
  every other step leaves the store alone. With the theorems of `SessionStoreProofs`, `SpecStorePromises` then
  says that a superseded run is fenced for good and a live lease kept, in the sessions the drivers run.
  `SpecMediates` is the other side of the composition: the calls of all sessions are a behaviour of
  `Mediation!Spec`, so that `WriteAhead`, `OneStory` and `ToldMatchesJournal` hold there too, a process's death
  included.
* `SlackApprovalProofs`: `GrantedByHuman`, `AwaitIsHeld`, and `SpecMediates`, that the loop with Slack as its
  channel is a behaviour of `Mediation!Spec`, so that `WriteAhead`, `OneStory` and `ToldMatchesJournal` hold of
  it. `AwaitIsHeld` is nearly inductive: it needs that a prompt that is shown has a nonce (`ShownIsMinted`) and
  that nothing is decided of a call up to the end of its await (`Undecided`). `GrantedByHuman` is carried by the trail, which
  only ever grows, and by the decider, which the step that settles a call writes once.
* `JournalProofs`: `NothingLostSilently`, `VerifiedMeansKept`, `AppendHeals`, and the refinement
  `ImplementsLog`. A line, once written, is only ever
  joined to a torn rest, which no longer parses (`Kept`), so nothing is lost silently however many write. While
  one process writes and nothing was damaged (`Orderly`) more is true: one append is under way at a time
  (`Alone`), only the last line can be unreadable (`Chain`), a returned event stands at its sequence number
  (`Placed`), and a head that parses is not behind any of them (`Pinned`). A file damaged at rest that still
  links up is a prefix of what it was (`DamagedPrefix`), and the head tells a proper one. `VerifiedMeansKept` has
  the hypothesis `~Resume`, the setting of the run: with an append to the damaged file it is false, see 7 above. `ImplementsLog` needs
  no such hypothesis: an append shows as `Grow` when it completes a line, as `Refuse` when it tears one or is
  joined to a torn one, and as `Acknowledge` when it returns, and then `Kept` has its event in the file.

The inductive invariants were checked by TLC before they were proved, on the instances of the runs, that
of `Journal` with `Resume` both ways.

Only model-checked: the liveness properties, since TLAPS does not reason about fairness with ENABLED. Every
safety invariant and action property of a passing run is a theorem.

## Not modelled

* `journal/cross-chain.ts`, a pure predicate over two journals that no other code drives; `tenants`, one
  guard against a constant; `contracts`, schemas; `runtime` reference adapters; Node's crypto.
* The file store's load and commit as two steps of overlapping processes: the code has no lock, so the lost
  update is immediate and there is no promise left to check. One home is driven by one process at a time.
* `agp doctor`'s report and `agp sessions`, which print; the settings file and containment arguments of the
  Claude Code process; the normalisation of Codex events; the parsing of Slack frames.

Worth doing next: the settings file of the Claude Code process; the parsing of Slack frames.
