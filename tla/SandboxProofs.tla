------------------------------ MODULE SandboxProofs ------------------------------
(****************************************************************************)
(* Theorems about Sandbox, for any number of spawns with one session id.    *)
(*                                                                          *)
(* What a failure leaves, and what stands behind a harness, are invariant   *)
(* only together with the path of the spawn.  Mine is what the spawn under  *)
(* way has created and no mishap accounts for; Situation bounds it at each  *)
(* awaited command by what the cleanup of that command's failure removes.   *)
(* Live is the harnesses of Topology C, of this spawn or an earlier one,    *)
(* that no mishap accounts for: while there is one its proxy and network    *)
(* exist, so a spawn that gets past `network create` found none, and the    *)
(* cleanups that remove the two come where there is none, or its own first. *)
(****************************************************************************)
EXTENDS Sandbox, SequenceTheorems, TLAPS

Place == {"idle", "up", "failed", "cleaning"} \cup Working

TypeOK == at \in Place /\ n \in Nat

Plain == <<"plain", n>>
Topo == <<"topo", n>>

\* What the spawn created and has to account for.
Mine == (world \ base) \ Excused({"unnamed", "kept", "stranded"})

\* The harnesses HarnessBehindProxy speaks of.
Live == (world \cap ({"topo"} \X (1..MaxSpawns))) \ Excused({"unnamed", "kept"})

\* A cleanup: what it has yet to remove covers what is to be accounted for, and
\* by the time the proxy's turn comes no harness is live.
Cleaning ==
  \/ todo = <<Plain>> /\ Mine \subseteq {Plain}
  \/ todo = <<Topo, Proxy, Net>> /\ Mine \subseteq {Topo, Proxy, Net} /\ Live \subseteq {Topo}
  \/ todo = <<Proxy, Net>> /\ Mine \subseteq {Proxy, Net} /\ Live = {}
  \/ todo = <<Net>> /\ Mine \subseteq {Net} /\ Live = {}

Situation ==
  /\ Live # {} => {Proxy, Net} \subseteq world
  /\ at \in {"run", "probe"} => opts.egress # "allowlist"
  /\ at \in {"net", "proxy", "connect", "harness", "probeNon", "probeModel"} =>
       opts.egress = "allowlist"
  /\ at \in {"run", "net", "failed"} => Mine = {}
  /\ at = "probe" => Mine \subseteq {Plain}
  /\ at = "proxy" => Mine \subseteq {Net} /\ Net \in world /\ Live = {}
  /\ at \in {"connect", "harness"} =>
       Mine \subseteq {Proxy, Net} /\ {Proxy, Net} \subseteq world /\ Live = {}
  /\ at \in {"probeNon", "probeModel"} =>
       Mine \subseteq {Topo, Proxy, Net} /\ {Proxy, Net} \subseteq world /\ Live \subseteq {Topo}
  /\ at = "cleaning" => Cleaning

IInv == TypeOK /\ Situation /\ HandleIsProbed
------------------------------------------------------------------------------
(* Names and cleanups.                                                      *)

\* The resources of a session are different things.
LEMMA Distinct ==
  /\ Proxy # Net /\ Plain # Topo
  /\ Plain \notin {Proxy, Net} /\ Topo \notin {Proxy, Net}
BY DEF Proxy, Net, Plain, Topo

\* The harness of the spawn under way.
LEMMA HarnessIs ==
  /\ opts.egress = "allowlist" => Harness = Topo
  /\ opts.egress # "allowlist" => Harness = Plain
BY DEF Harness, Plain, Topo

\* The short sequences a cleanup goes through.
LEMMA Tuples ==
  ASSUME NEW a, NEW b, NEW c
  PROVE  /\ Head(<<a>>) = a /\ Tail(<<a>>) = <<>>
         /\ Head(<<a, b>>) = a /\ Tail(<<a, b>>) = <<b>> /\ <<b>> # <<>>
         /\ Head(<<a, b, c>>) = a /\ Tail(<<a, b, c>>) = <<b, c>> /\ <<b, c>> # <<>>
OBVIOUS

\* What is removed after a failure before, and after, the harness is known.
LEMMA Teardowns ==
  ASSUME NEW a
  PROVE  /\ teardownTopologyC(<<>>) = <<Proxy, Net>>
         /\ teardownTopologyC(<<a>>) = <<a, Proxy, Net>>
<1> DEFINE S == {a, Proxy, Net}
           u == <<a>>
           s == <<Proxy, Net>>
           w == <<a, Proxy, Net>>
<1>1. /\ u \in Seq(S) /\ Len(u) = 1 /\ u[1] = a
      /\ s \in Seq(S) /\ Len(s) = 2 /\ s[1] = Proxy /\ s[2] = Net
      /\ w \in Seq(S) /\ Len(w) = 3 /\ w[1] = a /\ w[2] = Proxy /\ w[3] = Net
  OBVIOUS
<1>2. teardownTopologyC(<<>>) = <<>> \o s /\ teardownTopologyC(u) = u \o s
  BY DEF teardownTopologyC
<1> HIDE DEF S, u, s, w
<1>3. <<>> \o s = s
  BY <1>1, ConcatEmptySeq
<1>4. u \o s = w
  <2> DEFINE z == u \o s
  <2>1. /\ z \in Seq(S)
        /\ Len(z) = Len(u) + Len(s)
        /\ \A i \in 1..(Len(u) + Len(s)) : z[i] = IF i <= Len(u) THEN u[i] ELSE s[i - Len(u)]
    BY <1>1, ConcatProperties
  <2>2. Len(z) = 3 /\ z[1] = u[1] /\ z[2] = s[1] /\ z[3] = s[2]
    BY <1>1, <2>1
  <2> HIDE DEF z
  <2>3. \A i \in 1..3 : z[i] = w[i]
    BY <1>1, <2>2
  <2>4. z = w
    BY <1>1, <2>1, <2>2, <2>3, SeqEqual
  <2> QED BY <2>4 DEF z
<1> QED BY <1>2, <1>3, <1>4 DEF u, s, w

------------------------------------------------------------------------------
(* The effect of docker's answers on Mine and Live.                         *)

\* A removal, made or refused: nobody has to account for r any more, and nothing
\* else is touched.
LEMMA Removal ==
  ASSUME NEW r, Gone(r) \/ Kept(r)
  PROVE  /\ Live' \subseteq Live \ {r} /\ (UNCHANGED base => Mine' \subseteq Mine \ {r})
         /\ world' \subseteq world /\ world \ {r} \subseteq world'
<1> DEFINE E(ms, whys) == {m[2] : m \in {k \in ms : k[1] \in whys}}
<1>1. ASSUME NEW whys, "kept" \in whys
      PROVE  E(mishap, whys) \ {r} \subseteq E(mishap', whys) /\ (r \in world' => r \in E(mishap', whys))
  <2>1. CASE Gone(r)
    BY <2>1 DEF Gone
  <2>2. CASE Kept(r)
    <3>1. <<"kept", r>> \in mishap' /\ mishap \subseteq mishap'
      BY <2>2 DEF Kept
    <3>2. <<"kept", r>>[1] = "kept" /\ <<"kept", r>>[2] = r
      OBVIOUS
    <3> QED BY <1>1, <3>1, <3>2
  <2> QED BY <2>1, <2>2
<1>2. world' \subseteq world /\ world \ {r} \subseteq world'
  BY DEF Gone, Kept
<1>3. \A whys : Excused(whys) = E(mishap, whys) /\ Excused(whys)' = E(mishap', whys)
  BY DEF Excused
<1> HIDE DEF E
<1> QED BY <1>1, <1>2, <1>3 DEF Mine, Live

\* A container whose id nobody has is accounted for.
LEMMA Unnamed ==
  ASSUME NEW r, world' = world \cup {r}, mishap' = mishap \cup {<<"unnamed", r>>}, UNCHANGED base
  PROVE  Mine' \subseteq Mine /\ Live' \subseteq Live
<1>1. <<"unnamed", r>>[1] = "unnamed" /\ <<"unnamed", r>>[2] = r /\ <<"unnamed", r>> \in mishap'
  OBVIOUS
<1>2. ASSUME NEW whys, "unnamed" \in whys
      PROVE  Excused(whys) \subseteq Excused(whys)' /\ r \in Excused(whys)'
  BY <1>1, <1>2 DEF Excused
<1> QED BY <1>2 DEF Mine, Live

\* Any other resource has to be.
LEMMA Grows ==
  ASSUME NEW r, world' = world \cup {r}, UNCHANGED <<mishap, base>>
  PROVE  /\ Mine' \subseteq Mine \cup {r}
         /\ Live' \subseteq Live \cup {r}
         /\ r \in {Proxy, Net, Plain} => Live' = Live
<1>1. Excused({"unnamed", "kept"})' = Excused({"unnamed", "kept"})
  BY DEF Excused
<1>2. Excused({"unnamed", "kept", "stranded"})' = Excused({"unnamed", "kept", "stranded"})
  BY DEF Excused
<1>3. r \in {Proxy, Net, Plain} => r \notin {"topo"} \X (1..MaxSpawns)
  BY DEF Proxy, Net, Plain
<1> QED BY <1>1, <1>2, <1>3 DEF Mine, Live

\* What the runner's throw leaves is all accounted for.
LEMMA Stranding ==
  ASSUME mishap' = mishap \cup ({"stranded"} \X (world \ base)), UNCHANGED <<world, base>>
  PROVE  Mine' = {} /\ Live' = Live
<1>1. ASSUME NEW r \in world \ base PROVE r \in Excused({"unnamed", "kept", "stranded"})'
  <2>1. <<"stranded", r>> \in mishap' /\ <<"stranded", r>>[1] = "stranded" /\ <<"stranded", r>>[2] = r
    OBVIOUS
  <2> QED BY <2>1 DEF Excused
<1>2. Excused({"unnamed", "kept"})' = Excused({"unnamed", "kept"})
  <2>1. {k \in mishap' : k[1] \in {"unnamed", "kept"}} = {k \in mishap : k[1] \in {"unnamed", "kept"}}
    OBVIOUS
  <2> QED BY <2>1 DEF Excused
<1> QED BY <1>1, <1>2 DEF Mine, Live

\* Steps that neither create nor remove.
LEMMA Unmoved ==
  ASSUME UNCHANGED <<world, mishap>>
  PROVE  Live' = Live /\ (base' = base => Mine' = Mine) /\ (base' = world => Mine' = {})
BY DEF Mine, Live, Excused

------------------------------------------------------------------------------
(* Every step keeps the invariant.                                          *)

\* Nothing exists before the first spawn.
LEMMA InitInv == Init => IInv
<1> SUFFICES ASSUME Init PROVE IInv
  OBVIOUS
<1>1. at = "idle" /\ n = 0 /\ world = {}
  BY DEF Init
<1> QED BY <1>1 DEF IInv, TypeOK, Place, Situation, Live, HandleIsProbed

\* Every step goes from one awaited command to another.
LEMMA TypeStep ==
  ASSUME TypeOK, [Next]_vars PROVE TypeOK'
<1> USE DEF TypeOK, Place, Working
<1>1. CASE UNCHANGED vars
  BY <1>1 DEF vars
<1>2. ASSUME NEW o \in Config, Spawn(o) PROVE TypeOK'
  BY <1>2 DEF Spawn
<1>3. CASE RunPlain \/ RunTopologyHarness
  BY <1>3 DEF RunPlain, RunTopologyHarness, RunHarness, Goto, Cleanup
<1>4. CASE ProbePlain \/ ProbeModel \/ ProbeNonModel
  BY <1>4 DEF ProbePlain, ProbeModel, ProbeNonModel, Goto, Cleanup
<1>5. CASE CreateNet \/ RunProxy \/ ConnectProxy
  BY <1>5 DEF CreateNet, RunProxy, ConnectProxy, Goto, Cleanup
<1>6. CASE Remove
  BY <1>6 DEF Remove
<1>7. CASE RunnerThrows
  BY <1>7 DEF RunnerThrows, Cleanup
<1>8. CASE Teardown \/ SeesFailure \/ Dies
  BY <1>8 DEF Teardown, SeesFailure, Dies, Rest
<1> QED BY <1>1, <1>2, <1>3, <1>4, <1>5, <1>6, <1>7, <1>8 DEF Next, DockerAnswers

\* A spawn resolves right after docker run, if nobody asked for a check, or on a
\* probe that read as blocked.
LEMMA ProbedStep ==
  ASSUME HandleIsProbed, [Next]_vars PROVE HandleIsProbed'
<1> USE DEF HandleIsProbed
<1>1. CASE UNCHANGED vars
  BY <1>1 DEF vars, Checked, NetworkEnabled
<1>2. ASSUME NEW o \in Config, Spawn(o) PROVE HandleIsProbed'
  BY <1>2 DEF Spawn
<1>3. CASE RunPlain
  <2>1. at' \in {"probe", "up", "failed"} /\ UNCHANGED opts /\ (at' = "up" => ~Checked(opts))
    BY <1>3 DEF RunPlain, RunHarness, Goto
  <2> QED BY <2>1 DEF Checked, NetworkEnabled
<1>4. CASE ProbePlain
  BY <1>4 DEF ProbePlain, Isolated, Goto, Cleanup
<1>5. CASE CreateNet \/ RunProxy \/ ConnectProxy
  BY <1>5 DEF CreateNet, RunProxy, ConnectProxy, Goto, Cleanup
<1>6. CASE RunTopologyHarness
  <2>1. at' \in {"probeNon", "up", "cleaning"} /\ UNCHANGED opts /\ (at' = "up" => ~Checked(opts))
    BY <1>6 DEF RunTopologyHarness, RunHarness, Goto, Cleanup
  <2> QED BY <2>1 DEF Checked, NetworkEnabled
<1>7. CASE ProbeNonModel
  BY <1>7 DEF ProbeNonModel, Goto
<1>8. CASE ProbeModel
  BY <1>8 DEF ProbeModel, Isolated, Goto, Cleanup
<1>9. CASE Remove
  BY <1>9 DEF Remove
<1>10. CASE RunnerThrows
  BY <1>10 DEF RunnerThrows, Cleanup
<1>11. CASE Teardown \/ SeesFailure \/ Dies
  BY <1>11 DEF Teardown, SeesFailure, Dies, Rest
<1> QED BY <1>1, <1>2, <1>3, <1>4, <1>5, <1>6, <1>7, <1>8, <1>9, <1>10, <1>11
        DEF Next, DockerAnswers

\* A spawn has created nothing when it begins.
LEMMA SpawnStep ==
  ASSUME Situation, NEW o \in Config, Spawn(o) PROVE Situation'
<1>1. /\ base' = world /\ world' = world /\ opts' = o /\ at' \in {"failed", "net", "run"}
      /\ at' = "run" => o.egress # "allowlist"
      /\ at' = "net" => o.egress = "allowlist"
  BY DEF Spawn
<1>2. Mine' = {} /\ Live' = Live
  BY <1>1, Unmoved DEF Spawn
<1> QED BY <1>1, <1>2 DEF Situation

\* docker run of the single container, and its probe.
LEMMA PlainStep ==
  ASSUME Situation, RunPlain \/ ProbePlain PROVE Situation'
<1>1. CASE RunPlain
  <2>1. at = "run" /\ opts.egress # "allowlist" /\ Mine = {} /\ Harness = Plain
    BY <1>1, HarnessIs DEF RunPlain, Situation
  <2>2. UNCHANGED <<opts, n, base>> /\ Plain' = Plain
    BY <1>1 DEF RunPlain, Plain
  <2>3. /\ world \subseteq world' /\ Live' \subseteq Live
        /\ \/ at' = "failed" /\ Mine' = {}
           \/ at' \in {"probe", "up"} /\ Mine' \subseteq {Plain}
    <3>1. CASE Goto("failed") /\ UNCHANGED <<world, open, mishap>>
      BY <2>1, <2>2, <3>1, Unmoved DEF Goto
    <3>2. ASSUME NEW r \in {Created, Harness}, Goto("failed"),
                 world' = world \cup {r}, mishap' = mishap \cup {<<"unnamed", r>>}
          PROVE  /\ world \subseteq world' /\ Live' \subseteq Live
                 /\ at' = "failed" /\ Mine' = {}
      BY <2>1, <2>2, <3>2, Unnamed DEF Goto
    <3>3. CASE /\ world' = world \cup {Harness} /\ UNCHANGED mishap
               /\ Goto(IF Checked(opts) THEN "probe" ELSE "up")
      BY <2>1, <2>2, <3>3, Grows DEF Goto
    <3> QED BY <1>1, <3>1, <3>2, <3>3 DEF RunPlain, RunHarness
  <2> QED BY <2>1, <2>2, <2>3 DEF Situation
<1>2. CASE ProbePlain
  <2>1. at = "probe" /\ opts.egress # "allowlist" /\ Mine \subseteq {Plain} /\ Harness = Plain
    BY <1>2, HarnessIs DEF ProbePlain, Situation
  <2>2. UNCHANGED <<opts, n, base, world, mishap>> /\ Plain' = Plain
    BY <1>2 DEF ProbePlain, Plain
  <2>3. at' = "up" \/ (at' = "cleaning" /\ todo' = <<Plain>>)
    BY <1>2, <2>1 DEF ProbePlain, Goto, Cleanup
  <2>4. Mine' = Mine /\ Live' = Live
    BY <2>2, Unmoved
  <2> QED BY <2>1, <2>2, <2>3, <2>4 DEF Situation, Cleaning
<1> QED BY <1>1, <1>2

\* A spawn that creates the network found none, hence no live harness.
LEMMA CreateNetStep ==
  ASSUME Situation, CreateNet PROVE Situation'
<1>1. at = "net" /\ opts.egress = "allowlist" /\ Mine = {} /\ UNCHANGED <<opts, base, mishap>>
  BY DEF CreateNet, Situation
<1>2. CASE Net \notin world /\ world' = world \cup {Net} /\ Goto("proxy")
  <2>1. Live' = Live /\ Mine' \subseteq {Net}
    BY <1>1, <1>2, Grows
  <2>2. Live = {}
    BY <1>2 DEF Situation
  <2> QED BY <1>1, <1>2, <2>1, <2>2 DEF Situation, Goto
<1>3. CASE Goto("failed") /\ UNCHANGED world
  BY <1>1, <1>3, Unmoved DEF Situation, Goto
<1> QED BY <1>2, <1>3 DEF CreateNet

\* The proxy's run and its connection, or their cleanup.
LEMMA ProxyStep ==
  ASSUME Situation, RunProxy \/ ConnectProxy PROVE Situation'
<1>1. CASE RunProxy
  <2>1. /\ at = "proxy" /\ opts.egress = "allowlist" /\ Mine \subseteq {Net} /\ Net \in world /\ Live = {}
        /\ UNCHANGED <<opts, base, mishap>>
    BY <1>1 DEF RunProxy, Situation
  <2>2. Live' = {} /\ Mine' \subseteq {Proxy, Net} /\ Net \in world'
    <3>1. CASE world' = world
      BY <2>1, <3>1, Unmoved
    <3>2. CASE world' = world \cup {Proxy}
      BY <2>1, <3>2, Grows
    <3> QED BY <1>1, <3>1, <3>2 DEF RunProxy
  <2>3. \/ at' = "connect" /\ Proxy \in world'
        \/ at' = "cleaning" /\ todo' = <<Proxy, Net>>
    BY <1>1, Teardowns DEF RunProxy, Goto, Cleanup
  <2> QED BY <2>1, <2>2, <2>3 DEF Situation, Cleaning
<1>2. CASE ConnectProxy
  <2>1. /\ at = "connect" /\ opts.egress = "allowlist" /\ Mine \subseteq {Proxy, Net}
        /\ {Proxy, Net} \subseteq world /\ Live = {} /\ UNCHANGED <<opts, base, world, mishap>>
    BY <1>2 DEF ConnectProxy, Situation
  <2>2. Live' = {} /\ Mine' \subseteq {Proxy, Net}
    BY <2>1, Unmoved
  <2>3. at' = "harness" \/ (at' = "cleaning" /\ todo' = <<Proxy, Net>>)
    BY <1>2, Teardowns DEF ConnectProxy, Goto, Cleanup
  <2> QED BY <2>1, <2>2, <2>3 DEF Situation, Cleaning
<1> QED BY <1>1, <1>2

\* The harness joins its network and is live, or the cleanup begins with none.
LEMMA HarnessStep ==
  ASSUME Situation, RunTopologyHarness PROVE Situation'
<1> DEFINE ok == IF Checked(opts) THEN "probeNon" ELSE "up"
<1>1. /\ at = "harness" /\ opts.egress = "allowlist" /\ Mine \subseteq {Proxy, Net}
      /\ {Proxy, Net} \subseteq world /\ Live = {} /\ Harness = Topo
  BY HarnessIs DEF RunTopologyHarness, Situation
<1>2. UNCHANGED <<opts, n, base>> /\ Topo' = Topo
  BY DEF RunTopologyHarness, Topo
<1>3. \/ at' = "cleaning" /\ todo' = <<Proxy, Net>> /\ Mine' \subseteq {Proxy, Net} /\ Live' = {}
      \/ /\ at' \in {"probeNon", "up"} /\ world \subseteq world'
         /\ Mine' \subseteq {Topo, Proxy, Net} /\ Live' \subseteq {Topo}
  <2>1. CASE Cleanup(teardownTopologyC(<<>>)) /\ UNCHANGED <<world, open, mishap>>
    BY <1>1, <1>2, <2>1, Unmoved, Teardowns DEF Cleanup
  <2>2. ASSUME NEW r \in {Created, Harness}, Cleanup(teardownTopologyC(<<>>)),
               world' = world \cup {r}, mishap' = mishap \cup {<<"unnamed", r>>}
        PROVE  at' = "cleaning" /\ todo' = <<Proxy, Net>> /\ Mine' \subseteq {Proxy, Net} /\ Live' = {}
    <3>1. Mine' \subseteq Mine /\ Live' \subseteq Live
      BY <1>2, <2>2, Unnamed
    <3> QED BY <1>1, <2>2, <3>1, Teardowns DEF Cleanup
  <2>3. CASE world' = world \cup {Harness} /\ UNCHANGED mishap /\ Goto(ok)
    BY <1>1, <1>2, <2>3, Grows DEF Goto
  <2> QED BY <2>1, <2>2, <2>3 DEF RunTopologyHarness, RunHarness
<1> QED BY <1>1, <1>2, <1>3 DEF Situation, Cleaning

\* The two probes of the allowlist preflight.
LEMMA AllowlistStep ==
  ASSUME Situation, ProbeNonModel \/ ProbeModel PROVE Situation'
<1>1. /\ at \in {"probeNon", "probeModel"} /\ opts.egress = "allowlist"
      /\ Mine \subseteq {Topo, Proxy, Net} /\ {Proxy, Net} \subseteq world /\ Live \subseteq {Topo}
  BY DEF ProbeNonModel, ProbeModel, Situation
<1>2. UNCHANGED <<opts, n, base, world, mishap>> /\ Topo' = Topo
  BY DEF ProbeNonModel, ProbeModel, Topo
<1>3. at' \in {"probeModel", "up"} \/ (at' = "cleaning" /\ todo' = <<Topo, Proxy, Net>>)
  BY <1>1, HarnessIs, Teardowns DEF ProbeNonModel, ProbeModel, Goto, Cleanup
<1>4. Mine' = Mine /\ Live' = Live
  BY <1>2, Unmoved
<1> QED BY <1>1, <1>2, <1>3, <1>4 DEF Situation, Cleaning

\* A runner that throws: a cleanup where the code has a try around it.
LEMMA ThrowStep ==
  ASSUME Situation, RunnerThrows PROVE Situation'
<1>1. UNCHANGED <<opts, n, base, world>> /\ Topo' = Topo /\ Plain' = Plain
  BY DEF RunnerThrows, Topo, Plain
<1>2. CASE at \in {"probeNon", "probeModel"}
  <2>1. opts.egress = "allowlist" /\ Mine \subseteq {Topo, Proxy, Net} /\ Live \subseteq {Topo}
    BY <1>2 DEF Situation
  <2>2. at' = "cleaning" /\ todo' = <<Topo, Proxy, Net>> /\ UNCHANGED mishap
    BY <1>2, <2>1, HarnessIs, Teardowns DEF RunnerThrows, Cleanup
  <2>3. Mine' = Mine /\ Live' = Live
    BY <1>1, <2>2, Unmoved
  <2> QED BY <1>1, <2>1, <2>2, <2>3 DEF Situation, Cleaning
<1>3. CASE at = "probe" /\ opts.caller = "doctor"
  <2>1. opts.egress # "allowlist" /\ Mine \subseteq {Plain}
    BY <1>3 DEF Situation
  <2>2. at' = "cleaning" /\ todo' = <<Plain>> /\ UNCHANGED mishap
    BY <1>3, <2>1, HarnessIs DEF RunnerThrows, Cleanup
  <2>3. Mine' = Mine /\ Live' = Live
    BY <1>1, <2>2, Unmoved
  <2> QED BY <1>1, <2>1, <2>2, <2>3 DEF Situation, Cleaning
<1>4. CASE ~(at \in {"probeNon", "probeModel"}) /\ ~(at = "probe" /\ opts.caller = "doctor")
  <2>1. at' = "failed" /\ mishap' = mishap \cup ({"stranded"} \X (world \ base))
    BY <1>4 DEF RunnerThrows
  <2>2. Mine' = {} /\ Live' = Live
    BY <1>1, <2>1, Stranding
  <2> QED BY <1>1, <2>1, <2>2 DEF Situation
<1> QED BY <1>2, <1>3, <1>4

\* One removal of a cleanup; the proxy and the network go when no harness is live.
LEMMA RemoveStep ==
  ASSUME Situation, Remove PROVE Situation'
<1>1. /\ at = "cleaning" /\ (Gone(Head(todo)) \/ Kept(Head(todo))) /\ todo' = Tail(todo)
      /\ at' = IF Tail(todo) = <<>> THEN "failed" ELSE at
      /\ UNCHANGED <<opts, n, base>>
  BY DEF Remove
<1>2. Cleaning /\ Topo' = Topo /\ Plain' = Plain
  BY <1>1 DEF Situation, Topo, Plain
<1>3. /\ Mine' \subseteq Mine \ {Head(todo)} /\ Live' \subseteq Live \ {Head(todo)}
      /\ world \ {Head(todo)} \subseteq world'
  BY <1>1, Removal
<1>4. CASE todo = <<Plain>> /\ Mine \subseteq {Plain}
  <2>1. at' = "failed" /\ Mine' = {} /\ Live' \subseteq Live /\ world \ {Plain} \subseteq world'
    BY <1>1, <1>3, <1>4, Tuples
  <2> QED BY <1>1, <2>1, Distinct DEF Situation
<1>5. CASE todo = <<Topo, Proxy, Net>> /\ Mine \subseteq {Topo, Proxy, Net} /\ Live \subseteq {Topo}
  <2>1. at' = "cleaning" /\ todo' = <<Proxy, Net>> /\ Mine' \subseteq {Proxy, Net} /\ Live' = {}
    BY <1>1, <1>3, <1>5, Tuples
  <2> QED BY <1>1, <1>2, <2>1 DEF Situation, Cleaning
<1>6. CASE todo = <<Proxy, Net>> /\ Mine \subseteq {Proxy, Net} /\ Live = {}
  <2>1. at' = "cleaning" /\ todo' = <<Net>> /\ Mine' \subseteq {Net} /\ Live' = {}
    BY <1>1, <1>3, <1>6, Tuples
  <2> QED BY <1>1, <1>2, <2>1 DEF Situation, Cleaning
<1>7. CASE todo = <<Net>> /\ Mine \subseteq {Net} /\ Live = {}
  <2>1. at' = "failed" /\ Mine' = {} /\ Live' = {}
    BY <1>1, <1>3, <1>7, Tuples
  <2> QED BY <1>1, <2>1 DEF Situation
<1> QED BY <1>2, <1>4, <1>5, <1>6, <1>7 DEF Cleaning

\* The caller lets go of the handle, or learns of the failure, or its process dies.
LEMMA RestStep ==
  ASSUME Situation, Teardown \/ SeesFailure \/ Dies PROVE Situation'
<1>1. at' = "idle"
  BY DEF Teardown, SeesFailure, Dies, Rest
<1>2. Live' # {} => {Proxy, Net} \subseteq world'
  <2>1. CASE Teardown
    <3>1. Harness \in {Topo, Plain} /\ Harness \notin {Proxy, Net}
      BY HarnessIs, Distinct
    <3>2. Live' \subseteq Live /\ world \ {Harness} \subseteq world'
      BY <2>1, Removal DEF Teardown
    <3> QED BY <3>1, <3>2 DEF Situation
  <2>2. CASE SeesFailure \/ Dies
    BY <2>2, Unmoved DEF SeesFailure, Dies, Situation
  <2> QED BY <2>1, <2>2
<1> QED BY <1>1, <1>2 DEF Situation

\* Every step keeps the invariant.
LEMMA StepInv == IInv /\ [Next]_vars => IInv'
<1> SUFFICES ASSUME IInv, [Next]_vars PROVE IInv'
  OBVIOUS
<1>1. TypeOK' /\ HandleIsProbed'
  BY TypeStep, ProbedStep DEF IInv
<1>2. Situation'
  <2>1. Situation
    BY DEF IInv
  <2>2. CASE UNCHANGED vars
    <3>1. Mine' = Mine /\ Live' = Live /\ Plain' = Plain /\ Topo' = Topo
      BY <2>2, Unmoved DEF vars, Plain, Topo
    <3> QED BY <2>1, <2>2, <3>1 DEF vars, Situation, Cleaning
  <2>3. CASE Next
    BY <2>1, <2>3, SpawnStep, PlainStep, CreateNetStep, ProxyStep, HarnessStep,
       AllowlistStep, ThrowStep, RemoveStep, RestStep DEF Next, DockerAnswers
  <2> QED BY <2>2, <2>3
<1> QED BY <1>1, <1>2 DEF IInv

\* At each awaited command what the spawn has created is covered by the cleanup
\* its failure would start (docker-sandbox.ts spawn, topology-c.ts).
THEOREM SpecInv == Spec => []IInv
<1> QED BY InitInv, StepInv, PTL DEF Spec

\* A handle that was to be checked stands on a probe of its container that read
\* as blocked (verifyNetworkIsolation, verifyEgressAllowlist).
THEOREM SpecHandleIsProbed == Spec => []HandleIsProbed
<1>1. IInv => HandleIsProbed
  BY DEF IInv
<1> QED BY <1>1, SpecInv, PTL

\* A spawn that rejects has removed what it made, except what has no known id,
\* what docker failed to remove, and what a throwing runner left.
THEOREM SpecFailedSpawnCleansUp == Spec => []FailedSpawnCleansUp
<1>1. IInv => FailedSpawnCleansUp
  BY DEF IInv, Situation, Mine, FailedSpawnCleansUp
<1> QED BY <1>1, SpecInv, PTL

\* The proxy and the network stay while there is a harness of Topology C with a
\* known id that docker has not failed to remove, through every failure, cleanup,
\* teardown and death of any number of spawns (topology-c.ts teardownTopologyC).
THEOREM SpecHarnessBehindProxy == Spec => []HarnessBehindProxy
<1>1. IInv => HarnessBehindProxy
  <2> SUFFICES ASSUME IInv, NEW k \in 1..MaxSpawns,
                      <<"topo", k>> \in world \ Excused({"unnamed", "kept"})
               PROVE  {Proxy, Net} \subseteq world
    BY DEF HarnessBehindProxy
  <2>1. <<"topo", k>> \in Live
    BY DEF Live
  <2> QED BY <2>1 DEF IInv, Situation
<1> QED BY <1>1, SpecInv, PTL
================================================================================
