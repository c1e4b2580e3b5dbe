-------------------------------- MODULE Sandbox --------------------------------
(****************************************************************************)
(* src/sandbox/docker/: DockerSandbox.spawn and teardown, one docker        *)
(* command at a time, for the single container (networks none and bridge)   *)
(* and for Topology C (an internal network, an egress proxy, the harness),  *)
(* the two egress preflights, and the doctor's throwaway container          *)
(* (src/cli/probe.ts sandbox).                                              *)
(*                                                                          *)
(* Every docker command is an await, and each has its outcomes: success, a  *)
(* non-zero exit, a runner that throws (no docker binary), or the death of  *)
(* the process that waits.  The argument vectors are abstracted to what     *)
(* they create; what the daemon really gave the container is "open",        *)
(* decided when it starts.                                                  *)
(****************************************************************************)
EXTENDS Naturals, Sequences

CONSTANT MaxSpawns   \* bound: spawns with one session id

ASSUME SandboxAssumption == MaxSpawns \in Nat \ {0}

\* The options and environment one spawn depends on.  origin: the egress policy
\* comes from resolveEgressPolicy or is built by the caller.
Config ==
  {o \in [caller : {"spawn", "doctor"}, origin : {"env", "code"},
          egress : {"absent", "none", "full", "allowlist", "unknown"},
          hosts : {"empty", "bad", "ok"}, networkEnabled : BOOLEAN,
          image : {"digest", "version", "moving", "untagged"}, mountAllowed : BOOLEAN,
          verifyIsolation : BOOLEAN, skip : BOOLEAN, e2e : BOOLEAN] :
     /\ o.egress = "unknown" => o.origin = "env"
     /\ o.egress \notin {"absent", "unknown"} \/ o.hosts = "empty"
     /\ o.egress = "allowlist" \/ ~o.e2e
     /\ o.egress = "absent" \/ ~o.networkEnabled
     /\ o.caller = "doctor" =>
          o.egress = "none" /\ o.image = "version" /\ o.mountAllowed /\ o.verifyIsolation}

\* The resources of the session: containers <<kind, spawn>>, "created" being one
\* that was made and never started; proxy and network are named after the
\* session, whichever spawn made them.
Proxy == <<"proxy", 0>>
Net == <<"net", 0>>
Container == {"plain", "topo", "created"} \X (1..MaxSpawns)

\* How a probe is read: it connected; it failed, with nothing on stderr or a
\* network's error; there was no nc; it failed in another way.
ProbeResult == {"reached", "blocked", "absent", "odd"}

VARIABLES at,      \* the docker command awaited, or idle, up, failed
          opts,    \* of the spawn under way
          n,       \* spawns so far
          world,   \* what docker holds for the session
          base,    \* world when the spawn was called
          open,    \* the container reaches what it should not
          probe,   \* the probe for what must not be reached, or "none" yet
          todo,    \* removals left of the cleanup under way
          mishap   \* <<why, resource>> of what is left: "unnamed", nobody has
                   \* its id; "kept", docker failed to remove it; "stranded",
                   \* the runner threw where nothing catches it

vars == <<at, opts, n, world, base, open, probe, todo, mishap>>

Working == {"run", "probe", "net", "proxy", "connect", "harness", "probeNon", "probeModel"}

Default == CHOOSE o \in Config : o.caller = "doctor"

Init ==
  /\ at = "idle" /\ opts = Default /\ n = 0
  /\ world = {} /\ base = {} /\ open = FALSE
  /\ probe = "none" /\ todo = <<>> /\ mishap = {}

\* The resources left for one of some reasons.
Excused(whys) == {m[2] : m \in {k \in mishap : k[1] \in whys}}

------------------------------------------------------------------------------
(* What spawn refuses before it calls docker.                               *)

\* resolveEgressPolicy: throws on an unknown mode, any malformed host, and
\* allowlist without hosts.
Resolves(o) ==
  o.egress # "unknown" /\ o.hosts # "bad" /\ (o.egress = "allowlist" => o.hosts # "empty")

\* assertPinnedImage: a digest, or a tag other than the moving one.
Pinned(image) == image \in {"digest", "version"}

\* spawnTopologyC checks the hosts again: a policy can be built in code.
HostsValid(o) == o.hosts = "ok"

Accepted(o) ==
  /\ o.origin = "env" => Resolves(o)
  /\ Pinned(o.image) /\ o.mountAllowed
  /\ o.egress = "allowlist" => o.e2e /\ HostsValid(o)
  /\ ~(o.caller = "doctor" /\ o.skip)

\* An egress policy overrides spec.networkEnabled.
NetworkEnabled(o) == IF o.egress = "absent" THEN o.networkEnabled ELSE o.egress = "full"

\* The spawn is followed by a preflight.
Checked(o) ==
  ~o.skip /\ (o.egress = "allowlist" \/ (~NetworkEnabled(o) /\ o.verifyIsolation))

Spawn(o) ==
  /\ at = "idle" /\ n < MaxSpawns
  /\ n' = n + 1 /\ opts' = o /\ base' = world
  /\ at' = IF ~Accepted(o) THEN "failed" ELSE IF o.egress = "allowlist" THEN "net" ELSE "run"
  /\ UNCHANGED <<world, open, probe, todo, mishap>>

------------------------------------------------------------------------------
(* Docker's part.                                                           *)

Harness == <<IF opts.egress = "allowlist" THEN "topo" ELSE "plain", n>>

Goto(l) == at' = l /\ UNCHANGED todo

Cleanup(rs) == at' = "cleaning" /\ todo' = rs

\* Mutant of teardownTopologyC: the network is forgotten.
TeardownWithoutNet(h) == h \o <<Proxy>>

\* Mutant of teardownTopologyC: the proxy goes first.
TeardownProxyFirst(h) == <<Proxy>> \o h \o <<Net>>

\* teardownTopologyC: the harness, if its id is known, the proxy, the network.
teardownTopologyC(h) == h \o <<Proxy, Net>>

\* What a docker run whose start failed leaves of the harness.
Created == <<"created", n>>

\* docker run -d of the harness.  One that exits non-zero leaves nothing, or, if
\* only the start failed, a created container; its id, and that of a run that
\* prints none, is unknown to the spawn.  "none" and the internal network may
\* turn out open all the same: a misconfigured daemon, a stale image.
RunHarness(confined, ok, onFailure) ==
  \/ onFailure /\ UNCHANGED <<world, open, mishap>>
  \/ \E r \in {Created, Harness} :
       /\ world' = world \cup {r} /\ mishap' = mishap \cup {<<"unnamed", r>>}
       /\ onFailure /\ UNCHANGED open
  \/ /\ world' = world \cup {Harness} /\ UNCHANGED mishap
     /\ open' \in IF confined THEN BOOLEAN ELSE {TRUE}
     /\ Goto(ok)

RunPlain ==
  /\ at = "run"
  /\ RunHarness(~NetworkEnabled(opts), IF Checked(opts) THEN "probe" ELSE "up", Goto("failed"))
  /\ UNCHANGED <<opts, n, base, probe>>

\* A probe that finds no nc, fails for a reason it does not name, or fails in
\* silence (killed, timed out, its target away) is possible whatever the network
\* is like: 192.0.2.1 in particular answers nobody.
ProbeOutcomes == {"absent", "odd", "blocked"} \cup IF open THEN {"reached"} ELSE {}

\* Mutant of Isolated: a probe that could not run counts as blocked.
IsolatedUnlessReached(r) == r # "reached"

\* classifyEgressProbe, and the non-model half of classifyAllowlistProbe.
Isolated(r) == r = "blocked"

\* verifyNetworkIsolation; not isolated: teardown, then throw.
ProbePlain ==
  /\ at = "probe"
  /\ probe' \in ProbeOutcomes
  /\ IF Isolated(probe') THEN Goto("up") ELSE Cleanup(<<Harness>>)
  /\ UNCHANGED <<opts, n, world, base, open, mishap>>

\* network create: an existing name is an error; nothing to tear down yet.
CreateNet ==
  /\ at = "net"
  /\ \/ Net \notin world /\ world' = world \cup {Net} /\ Goto("proxy")
     \/ Goto("failed") /\ UNCHANGED world
  /\ UNCHANGED <<opts, n, base, open, probe, mishap>>

\* run of the proxy; one that fails may leave its container behind by name.
RunProxy ==
  /\ at = "proxy"
  /\ \/ Proxy \notin world /\ world' = world \cup {Proxy} /\ Goto("connect")
     \/ world' \in {world, world \cup {Proxy}} /\ Cleanup(teardownTopologyC(<<>>))
  /\ UNCHANGED <<opts, n, base, open, probe, mishap>>

ConnectProxy ==
  /\ at = "connect"
  /\ Goto("harness") \/ Cleanup(teardownTopologyC(<<>>))
  /\ UNCHANGED <<opts, n, world, base, open, probe, mishap>>

RunTopologyHarness ==
  /\ at = "harness"
  /\ RunHarness(TRUE, IF Checked(opts) THEN "probeNon" ELSE "up", Cleanup(teardownTopologyC(<<>>)))
  /\ UNCHANGED <<opts, n, base, probe>>

\* verifyEgressAllowlist, first exec: a host that is not the model's.
ProbeNonModel ==
  /\ at = "probeNon"
  /\ probe' \in ProbeOutcomes
  /\ Goto("probeModel")
  /\ UNCHANGED <<opts, n, world, base, open, mishap>>

\* Second exec: the model host.  Enforced only if it is reached and the other
\* host is blocked; else everything is torn down and the spawn throws.
ProbeModel ==
  /\ at = "probeModel"
  /\ \E reached \in BOOLEAN :
       IF reached /\ Isolated(probe) THEN Goto("up") ELSE Cleanup(teardownTopologyC(<<Harness>>))
  /\ UNCHANGED <<opts, n, world, base, open, probe, mishap>>

\* The runner throws.  Only the allowlist preflight and the doctor's probe are
\* inside a try: elsewhere the spawn rejects with what exists left in place.
RunnerThrows ==
  /\ at \in Working \cup {"cleaning"}
  /\ IF at \in {"probeNon", "probeModel"} THEN Cleanup(teardownTopologyC(<<Harness>>)) /\ UNCHANGED mishap
     ELSE IF at = "probe" /\ opts.caller = "doctor" THEN Cleanup(<<Harness>>) /\ UNCHANGED mishap
     ELSE at' = "failed" /\ todo' = <<>> /\ mishap' = mishap \cup ({"stranded"} \X (world \ base))
  /\ UNCHANGED <<opts, n, world, base, open, probe>>

\* A network a harness runs on cannot be removed.  The proxy holds it only once
\* connected: while the proxy is there both outcomes are possible.
Removable(r) == r = Net => \A c \in Container : c[1] = "topo" => c \notin world

\* Mutant of Remove: a removal that fails is tried again.
RemoveRetried ==
  /\ at = "cleaning" /\ Removable(Head(todo))
  /\ world' = world \ {Head(todo)}
  /\ todo' = Tail(todo) /\ at' = IF Tail(todo) = <<>> THEN "failed" ELSE at
  /\ UNCHANGED <<opts, n, base, open, probe, mishap>>

\* docker rm -f, or network rm, of r: what is gone is nobody's fault any more.
Gone(r) == world' = world \ {r} /\ mishap' = {m \in mishap : m[2] # r}

Kept(r) == r \in world /\ mishap' = mishap \cup {<<"kept", r>>} /\ UNCHANGED world

\* One removal of a cleanup: best effort, its result is not looked at.  After the
\* last the spawn throws.
Remove ==
  /\ at = "cleaning"
  /\ (Removable(Head(todo)) /\ Gone(Head(todo))) \/ Kept(Head(todo))
  /\ todo' = Tail(todo)
  /\ at' = IF Tail(todo) = <<>> THEN "failed" ELSE at
  /\ UNCHANGED <<opts, n, base, open, probe>>

\* The caller is done with the outcome of the spawn.
Rest == at' = "idle" /\ opts' = Default /\ open' = FALSE /\ probe' = "none" /\ base' = {}

\* teardown of a handle, and the doctor's finally: rm -f of the container alone.
\* The proxy and the network of Topology C stay.
Teardown ==
  /\ at = "up"
  /\ Gone(Harness) \/ Kept(Harness)
  /\ Rest /\ UNCHANGED <<n, todo>>

SeesFailure == at = "failed" /\ Rest /\ UNCHANGED <<n, world, todo, mishap>>

\* The process dies, or its session throws on a path that has no teardown
\* (runLive has no finally): docker keeps what there is.
Dies ==
  /\ at \notin {"idle", "failed"}
  /\ Rest /\ todo' = <<>>
  /\ UNCHANGED <<n, world, mishap>>

------------------------------------------------------------------------------
DockerAnswers ==
  \/ RunPlain \/ ProbePlain \/ CreateNet \/ RunProxy \/ ConnectProxy
  \/ RunTopologyHarness \/ ProbeNonModel \/ ProbeModel \/ Remove

Next ==
  \/ DockerAnswers \/ RunnerThrows \/ Teardown \/ SeesFailure \/ Dies
  \/ \E o \in Config : Spawn(o)

Spec == Init /\ [][Next]_vars

\* Docker commands return; the runner sets no timeout of its own.
FairSpec == Spec /\ WF_vars(DockerAnswers)

------------------------------------------------------------------------------
(* What the sandbox promises.                                               *)

\* A handle that was to be checked (and the doctor's "verified") stands on a
\* probe of this very container that read as blocked: no failed command, cleanup,
\* second probe or death lets one through whose probe did not run or connected
\* (network-preflight.ts "FAILS CLOSED").
HandleIsProbed == at = "up" /\ Checked(opts) => probe = "blocked"

\* A spawn that rejects has removed what it made, whichever command failed: what
\* is left has no id the code knows, or docker failed to remove that very
\* resource, or the runner threw (topology-c.ts "tear down what was created").
FailedSpawnCleansUp ==
  at = "failed" => world \ base \subseteq Excused({"unnamed", "kept", "stranded"})

\* No spawn, cleanup, teardown or death, of this spawn or of another with the
\* session's names, takes the proxy or the network from under a harness whose id
\* is known, unless docker itself failed to remove that harness.
HarnessBehindProxy ==
  \A k \in 1..MaxSpawns :
    <<"topo", k>> \in world \ Excused({"unnamed", "kept"}) => {Proxy, Net} \subseteq world

\* A spawn resolves or rejects if docker answers, cleanup included, or its
\* process died.
SpawnSettles == at \in Working \cup {"cleaning"} ~> at \in {"up", "failed", "idle"}

------------------------------------------------------------------------------
(* What the comments say and the code does not do.                          *)

\* "Actively PROVE a sandbox cannot egress" (network-preflight.ts): a checked
\* handle stands for a container that cannot reach what it should not.
HandleIsConfined == at = "up" /\ open => NetworkEnabled(opts) \/ ~Checked(opts)
================================================================================
