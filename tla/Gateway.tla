-------------------------------- MODULE Gateway --------------------------------
(****************************************************************************)
(* The path of one hook event through a live session: the hook process      *)
(* (cli/commands/bridge.ts, intendants/claude-code/hook-bridge.ts with      *)
(* gateway/client.ts), the Unix socket and its framing (gateway/protocol.ts *)
(* and server.ts), the harness process object that owns the server          *)
(* (bun-claude-process.ts; live-codex-process.ts is the same code under     *)
(* other names), the intendant's deliver, and the daemon's gate, of which   *)
(* only the decision is kept (Mediation models it).                         *)
(*                                                                          *)
(* The control plane is one thread: the stretch from a data event to the    *)
(* first await, and stop up to its await, are single actions.  Up and down  *)
(* are the two directions of a connection, as whole frames: the part of a   *)
(* frame a chunk ends with waits in the decoder like a frame not yet read.  *)
(****************************************************************************)
EXTENDS Naturals, Sequences, SequencesExt

CONSTANTS Hooks,       \* hook processes, each with its own connection
          Peers,       \* other processes that connect to the session socket
          Calls,       \* tool_use_ids; two hooks may carry the same one
          NoCall,      \* the id "unknown" of a protocol error
          MaxStream    \* bound: frames a peer writes

Conns == Hooks \cup Peers

ASSUME ConnsAssumption == Hooks \cap Peers = {} /\ NoCall \notin Calls

\* The frames a connection can carry to the server.  "bad": not JSON, or not a
\* GatewayMessage; "other": a message that is not a request.
Frame == [kind : {"request", "other"}, id : Calls] \cup [kind : {"bad"}, id : {NoCall}]

Request(c) == [kind |-> "request", id |-> c]

\* Replies: a verdict of the gate, or an error.
Reply == [kind : {"verdict", "error"}, id : Calls \cup {NoCall}, allow : BOOLEAN]

VerdictMessage(c, allow) == [kind |-> "verdict", id |-> c, allow |-> allow]

errorMessage(c) == [kind |-> "error", id |-> c, allow |-> FALSE]

VARIABLES phase,      \* of the session's server
          conn,       \* connection: none, open, ended by the server, left by
                      \* the client, or destroyed by the server
          up, down,   \* frames written and not yet read
          buffer,     \* FrameDecoder.buffer: whole frames read and not decoded
          hook,       \* the hook process: waiting, or its exit (allowed = 0)
          toolUseId,  \* the id the hook asks about
          processed,  \* GatewayServer.processed
          pending,    \* ids whose promise respond can still resolve
          asker,      \* the connection each promise replies to
          gate        \* what the daemon made of each id

serverVars == <<processed, pending, asker, gate>>
hookVars == <<hook, toolUseId>>
gatewayVars == <<phase, conn, up, down, buffer, hookVars, serverVars>>

GatewayInit ==
  /\ phase = "idle"
  /\ conn = [x \in Conns |-> "none"]
  /\ up = [x \in Conns |-> <<>>] /\ down = [x \in Conns |-> <<>>]
  /\ buffer = [x \in Conns |-> <<>>]
  /\ hook = [h \in Hooks |-> "idle"]
  /\ toolUseId = [h \in Hooks |-> NoCall]
  /\ processed = {} /\ pending = {}
  /\ asker = [c \in Calls |-> NoCall]
  /\ gate = [c \in Calls |-> "none"]

Serving == phase \in {"listening", "wired"}

------------------------------------------------------------------------------
(* The server and the process object around it.                             *)

\* start: a stale socket file is cleared, the server listens.
Listen ==
  /\ phase = "idle"
  /\ phase' = "listening"
  /\ UNCHANGED <<conn, up, down, buffer, hookVars, serverVars>>

\* runLive registers onToolCall after the sandbox is up; only then run()
\* spawns the harness, whose settings route every tool call to a hook.
Wire ==
  /\ phase = "listening"
  /\ phase' = "wired"
  /\ UNCHANGED <<conn, up, down, buffer, hookVars, serverVars>>

\* sock.write on a connection the server has not ended and still has.
Written(d, x, m) == IF conn[x] = "open" THEN [d EXCEPT ![x] = Append(@, m)] ELSE d

\* The handler of start: the promise is registered and the intendant asked,
\* which throws while no tool-call handler is there: the server replies error.
Handle(s, x, c) ==
  LET t == [s EXCEPT !.processed = @ \cup {c}, !.pending = @ \cup {c}, !.asker[c] = x]
  IN IF phase = "wired" THEN [t EXCEPT !.gate[c] = "asked"]
                        ELSE [t EXCEPT !.down = Written(@, x, errorMessage(c))]

\* Mutant of Dispatch: the replay guard sees its own connection only.
DispatchPerConnection(s, x, f) ==
  IF f.kind # "request" \/ (f.id \in s.processed /\ s.asker[f.id] = x)
  THEN [s EXCEPT !.down = Written(@, x, errorMessage(f.id))]
  ELSE Handle(s, x, f.id)

\* dispatch, up to its await: anything but a request, and an id already
\* processed on any connection, is answered with an error.
Dispatch(s, x, f) ==
  IF f.kind # "request" \/ f.id \in s.processed
  THEN [s EXCEPT !.down = Written(@, x, errorMessage(f.id))]
  ELSE Handle(s, x, f.id)

\* The frames of a chunk, in order.
DispatchAll(s0, x, fs) == FoldLeft(LAMBDA s, f : Dispatch(s, x, f), s0, fs)

Malformed(fs) == \E i \in 1..Len(fs) : fs[i].kind = "bad"

\* FrameDecoder.push throws at the first malformed frame: what it decoded before
\* is lost with it,
Accepted(fs) == IF Malformed(fs) THEN <<>> ELSE fs

\* and what is behind it stays in the buffer, for the next chunk.
Leftover(fs) ==
  IF Malformed(fs) THEN SubSeq(fs, SelectInSeq(fs, LAMBDA f : f.kind = "bad") + 1, Len(fs)) ELSE <<>>

\* Mutant of Buffer: one decoder for all connections.
SharedBuffer(x, fs) == buffer' = [y \in Conns |-> fs]

Buffer(x, fs) == buffer' = [buffer EXCEPT ![x] = fs]

\* A data event: a chunk brings the next n frames (none: part of a frame, or a
\* blank line).  The decoded messages are dispatched in order; a malformed frame
\* is answered "unknown" and the server's side of the link ended.  Data still
\* arrives after that, and after the client has left, and is handled the same.
OnData(x, n) ==
  LET got == buffer[x] \o SubSeq(up[x], 1, n)
      s0 == [processed |-> processed, pending |-> pending, asker |-> asker,
             gate |-> gate, down |-> down]
      s1 == DispatchAll(s0, x, Accepted(got))
  IN /\ Serving /\ conn[x] \in {"open", "ended", "left"}
     /\ up' = [up EXCEPT ![x] = SubSeq(@, n + 1, Len(@))]
     /\ Buffer(x, Leftover(got))
     /\ processed' = s1.processed /\ pending' = s1.pending
     /\ asker' = s1.asker /\ gate' = s1.gate
     /\ IF Malformed(got)
        THEN /\ down' = Written(s1.down, x, errorMessage(NoCall))
             /\ conn' = [conn EXCEPT ![x] = IF @ = "open" THEN "ended" ELSE @]
        ELSE down' = s1.down /\ UNCHANGED conn
     /\ UNCHANGED <<phase, hookVars>>

\* respond: resolves the promise of c, if it still is pending; the server's
\* dispatch then writes the reply to the connection that asked.
Respond(c, allow) ==
  /\ pending' = pending \ {c}
  /\ down' = IF c \in pending /\ Serving
             THEN Written(down, asker[c], VerdictMessage(c, allow)) ELSE down

\* Mutant of Deliver: whatever is not an error lets the hook go.
DeliverLoose(c, decision) == Respond(c, TRUE)

\* ClaudeCodeIntendant.deliver and CodexIntendant.deliver: anything but deny allows.
Deliver(c, decision) == Respond(c, decision # "deny")

\* The daemon's gate settles a call with its effective decision.
GateDecides(c, decision) ==
  /\ gate[c] = "asked" /\ phase # "dead"
  /\ gate' = [gate EXCEPT ![c] = decision]
  /\ Deliver(c, decision)
  /\ UNCHANGED <<phase, conn, up, buffer, hookVars, processed, asker>>

\* The gate rejects (an append or the channel failed): nothing is delivered.
GateThrows(c) ==
  /\ gate[c] = "asked" /\ phase # "dead"
  /\ gate' = [gate EXCEPT ![c] = "threw"]
  /\ UNCHANGED <<phase, conn, up, down, buffer, hookVars, processed, pending, asker>>

Destroyed == [x \in Conns |-> IF conn[x] \in {"open", "ended"} THEN "destroyed" ELSE conn[x]]

\* Mutant of Stop: close does not destroy the live connections.
StopGently ==
  /\ Serving
  /\ phase' = "stopped" /\ pending' = {}
  /\ UNCHANGED <<conn, up, down, buffer, hookVars, processed, asker, gate>>

\* stop: the harness is killed, every pending hook denied, the server closed.
\* close destroys the sockets before the resolved promises get to write, so a
\* hook learns of its denial by losing the connection.
Stop ==
  /\ Serving
  /\ phase' = "stopped" /\ pending' = {}
  /\ conn' = Destroyed
  /\ UNCHANGED <<up, down, buffer, hookVars, processed, asker, gate>>

\* The control plane dies; the kernel closes its sockets.
Crash ==
  /\ Serving
  /\ phase' = "dead"
  /\ conn' = Destroyed
  /\ UNCHANGED <<up, down, buffer, hookVars, serverVars>>

------------------------------------------------------------------------------
(* The hook process.                                                        *)

\* Exits: the client's close leaves the connection, whatever is in flight.
Exit(h, outcome) ==
  /\ hook' = [hook EXCEPT ![h] = outcome]
  /\ conn' = [conn EXCEPT ![h] = IF @ \in {"open", "ended"} THEN "left" ELSE @]

\* The hook parsed its event and connected: the request is written.
HookAsks(h, c) ==
  /\ hook[h] = "idle" /\ phase = "wired"
  /\ hook' = [hook EXCEPT ![h] = "waiting"]
  /\ toolUseId' = [toolUseId EXCEPT ![h] = c]
  /\ conn' = [conn EXCEPT ![h] = "open"]
  /\ up' = [up EXCEPT ![h] = <<Request(c)>>]
  /\ UNCHANGED <<phase, down, buffer, serverVars>>

\* No socket argument, an unusable event, or nobody listening: exit 2.
HookRefuses(h) ==
  /\ hook[h] = "idle" /\ phase # "idle"
  /\ hook' = [hook EXCEPT ![h] = "denied"]
  /\ UNCHANGED <<phase, conn, up, down, buffer, toolUseId, serverVars>>

\* bridgeHookEvent: only a policy_verdict that says allow is exit 0.
Verdict(m) == IF m.kind = "verdict" /\ m.allow THEN "allowed" ELSE "denied"

\* onData of the client: a reply with another id is ignored.  Data written
\* before a destroy may still arrive.
HookReads(h) ==
  /\ hook[h] = "waiting" /\ down[h] # <<>>
  /\ down' = [down EXCEPT ![h] = Tail(@)]
  /\ LET m == Head(down[h])
     IN IF m.id = toolUseId[h] THEN Exit(h, Verdict(m)) ELSE UNCHANGED <<hook, conn>>
  /\ UNCHANGED <<phase, up, buffer, toolUseId, serverVars>>

\* failAll on close: an ended link closes once it is drained, a destroyed one
\* at once.
HookLosesLink(h) ==
  /\ hook[h] = "waiting"
  /\ conn[h] = "destroyed" \/ (conn[h] = "ended" /\ down[h] = <<>>)
  /\ Exit(h, "denied")
  /\ UNCHANGED <<phase, up, down, buffer, toolUseId, serverVars>>

\* Mutant of HookTimesOut: the timer only covers a request the server has not
\* taken up.
HookTimesOutUnread(h) ==
  /\ hook[h] = "waiting" /\ up[h] # <<>>
  /\ Exit(h, "denied")
  /\ UNCHANGED <<phase, up, down, buffer, toolUseId, serverVars>>

\* The 30 s of request are over.  They may be over before the gate's own wait
\* for an approval is.
HookTimesOut(h) ==
  /\ hook[h] = "waiting"
  /\ Exit(h, "denied")
  /\ UNCHANGED <<phase, up, down, buffer, toolUseId, serverVars>>

\* Another process connects and writes some frames.
PeerWrites(p, fs) ==
  /\ conn[p] = "none" /\ Serving
  /\ conn' = [conn EXCEPT ![p] = "open"]
  /\ up' = [up EXCEPT ![p] = fs]
  /\ UNCHANGED <<phase, down, buffer, hookVars, serverVars>>

------------------------------------------------------------------------------
HookSteps(h) == HookReads(h) \/ HookLosesLink(h) \/ HookTimesOut(h)

GatewayNext ==
  \/ Listen \/ Wire \/ Stop \/ Crash
  \/ \E x \in Conns : \E n \in 0..Len(up[x]) : OnData(x, n)
  \/ \E c \in Calls : GateThrows(c) \/ \E d \in {"allow", "deny"} : GateDecides(c, d)
  \/ \E h \in Hooks : HookSteps(h) \/ HookRefuses(h) \/ \E c \in Calls : HookAsks(h, c)
  \/ \E p \in Peers, fs \in UNION {[1..n -> Frame] : n \in 1..MaxStream} : PeerWrites(p, fs)

GatewaySpec == GatewayInit /\ [][GatewayNext]_gatewayVars

\* Timers fire and a process reads what its socket holds.
GatewayFairSpec ==
  /\ GatewaySpec
  /\ \A h \in Hooks : WF_gatewayVars(HookTimesOut(h)) /\ WF_gatewayVars(HookReads(h))

------------------------------------------------------------------------------
(* What the bridge promises.                                                *)

\* A hook lets its tool run only on the gate's own allow for the request that
\* very hook sent: never on a verdict for another process's copy of the id, an
\* error, a denial (hook-bridge.ts "a missing verdict is never an allow").
AllowedByGate ==
  \A h \in Hooks : hook[h] = "allowed" =>
    gate[toolUseId[h]] = "allow" /\ asker[toolUseId[h]] = h

\* An id is put to the gate at most once in the life of a server, on whatever
\* connection it comes back, while it is undecided and after.
MediatedOnce ==
  [][\A c \in Calls : gate[c] # "none" =>
       /\ asker'[c] = asker[c]
       /\ gate'[c] = "asked" => gate[c] = "asked"]_gatewayVars

\* Whatever other processes write, in whatever chunks, and whatever of a rejected
\* chunk is still in a decoder: no hook's link is ended by a protocol error, and
\* no request is handled for a hook but the one it sent (one FrameDecoder per
\* connection, server.ts onConnection).
LinksApart ==
  \A h \in Hooks : conn[h] # "ended" /\ \A c \in processed : asker[c] = h => toolUseId[h] = c

\* Once the server is stopped nobody waits on a link it still holds open: a
\* hook blocked there would keep the killed harness's tool call undecided.
StopUnblocks ==
  phase \in {"stopped", "dead"} => \A h \in Hooks : hook[h] = "waiting" => conn[h] = "destroyed"

\* A hook that asked exits, whatever becomes of the gate, the link, the server.
EveryHookAnswers ==
  \A h \in Hooks : hook[h] = "waiting" ~> hook[h] \in {"allowed", "denied"}
================================================================================
