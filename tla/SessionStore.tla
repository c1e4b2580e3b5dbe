----------------------------- MODULE SessionStore -----------------------------
(****************************************************************************)
(* The session store (src/daemon/session-store.ts) as its users see it: a   *)
(* record of leases, shared by daemon instances, on which each operation is *)
(* one atomic read-modify-write (InMemorySessionStore, or FileSessionStore  *)
(* used by one process at a time, whose commits are not cut off).           *)
(*                                                                          *)
(* A Run is one call of Daemon.runLive, runMediated or runScripted: it acts *)
(* for the session SessionOf[r] in the process InstanceOf[r] and keeps the  *)
(* lease it was given in a local variable, held[r].  Nothing makes a run    *)
(* act in time: it may be suspended for as long as it likes and wake up     *)
(* after its lease has expired, been reaped or been granted to another.     *)
(****************************************************************************)
EXTENDS Lease

CONSTANTS Session, Run, NoRun, SessionOf, InstanceOf,
          MaxTime,    \* bound: the clock stops there
          MaxToken    \* bound: no slot is granted a higher token

ASSUME StoreAssumption ==
  /\ SessionOf \in [Run -> Session]
  /\ InstanceOf \in [Run -> Instance]
  /\ NoRun \notin Run
  /\ MaxTime \in Nat /\ MaxToken \in Nat

VARIABLES now,     \* the clock (epoch ms)
          rec,     \* the store's record: session -> slot
          held,    \* each run's `lease` variable
          up,      \* the instances whose process has not crashed
          latest   \* history: the run whose acquire of the session came last

vars == <<now, rec, held, up, latest>>

TypeOK ==
  /\ now \in Nat
  /\ rec \in [Session -> Slot]
  /\ held \in [Run -> Slot]
  /\ up \subseteq Instance
  /\ latest \in [Session -> Run \cup {NoRun}]

Init ==
  /\ now = 0
  /\ rec = [s \in Session |-> NoLease]
  /\ held = [r \in Run |-> NoLease]
  /\ up = Instance
  /\ latest = [s \in Session |-> NoRun]

Alive(r) == InstanceOf[r] \in up
Holds(r) == held[r] # NoLease

\* acquire(sessionId, ownerInstanceId, nowMs, ttlMs)
Acquire(r) ==
  LET s == SessionOf[r]
      l == Granted(rec[s], InstanceOf[r], now)
  IN /\ Alive(r) /\ ~Holds(r)
     /\ ~Contended(rec[s], InstanceOf[r], now)
     /\ rec[s].token < MaxToken
     /\ rec' = [rec EXCEPT ![s] = l]
     /\ held' = [held EXCEPT ![r] = l]
     /\ latest' = [latest EXCEPT ![s] = r]
     /\ UNCHANGED <<now, up>>

\* heartbeat(lease, nowMs, ttlMs); a fenced caller gets an exception and
\* changes nothing.
Heartbeat(r) ==
  LET s == SessionOf[r]
      l == Refreshed(rec[s], now)
  IN /\ Alive(r) /\ Holds(r)
     /\ ~Fenced(rec[s], held[r])
     /\ rec' = [rec EXCEPT ![s] = l]
     /\ held' = [held EXCEPT ![r] = l]
     /\ UNCHANGED <<now, up, latest>>

\* release(lease): silently nothing when the lease was superseded.
Release(r) ==
  /\ Alive(r) /\ Holds(r)
  /\ rec' = [rec EXCEPT ![SessionOf[r]] =
               IF Releasable(@, held[r]) THEN Released(@) ELSE @]
  /\ held' = [held EXCEPT ![r] = NoLease]
  /\ UNCHANGED <<now, up, latest>>

\* The run ends on an exception: its lease is deliberately not released.
Abandon(r) ==
  /\ Alive(r) /\ Holds(r)
  /\ held' = [held EXCEPT ![r] = NoLease]
  /\ UNCHANGED <<now, rec, up, latest>>

\* reapExpired(nowMs), by any daemon that runs recoverSessions.
ReapExpired(i) ==
  /\ i \in up
  /\ rec' = [s \in Session |->
               IF Expired(rec[s], now) THEN Reaped(rec[s]) ELSE rec[s]]
  /\ UNCHANGED <<now, held, up, latest>>

\* The process dies; its runs never act again.
Crash(i) ==
  /\ i \in up
  /\ up' = up \ {i}
  /\ held' = [r \in Run |-> IF InstanceOf[r] = i THEN NoLease ELSE held[r]]
  /\ UNCHANGED <<now, rec, latest>>

Tick ==
  /\ now < MaxTime
  /\ now' = now + 1
  /\ UNCHANGED <<rec, held, up, latest>>

Next ==
  \/ \E r \in Run : Acquire(r) \/ Heartbeat(r) \/ Release(r) \/ Abandon(r)
  \/ \E i \in Instance : ReapExpired(i) \/ Crash(i)
  \/ Tick

Spec == Init /\ [][Next]_vars

------------------------------------------------------------------------------
(* What the store promises.                                                 *)

\* A run whose session was acquired again after it cannot refresh its lease:
\* the fence is shut for everyone but the last acquirer (session-store.ts:37,
\* session-lease.ts:26).
SupersededIsFenced ==
  \A r \in Run :
    Holds(r) /\ latest[SessionOf[r]] # r => Fenced(rec[SessionOf[r]], held[r])

\* Once the fence is shut for a run it stays shut: no expiry, reap, release or
\* later acquisition by whomever lets the old lease pass again.
FencedForever ==
  [][\A r \in Run :
       /\ Holds(r) /\ Fenced(rec[SessionOf[r]], held[r])
       /\ held'[r] = held[r]
       => Fenced(rec'[SessionOf[r]], held'[r])]_vars

\* A lease that has not expired changes hands or status by its owner only: it
\* stays active with the same owner and no earlier expiry, or the run that
\* acquired it last gives it up.
LiveLeaseKept ==
  [][\A s \in Session :
       rec[s].status = "active" /\ rec[s].exp > now =>
         /\ rec'[s].owner = rec[s].owner
         /\ rec'[s].exp >= rec[s].exp
         /\ \/ rec'[s].status = "active"
            \/ /\ rec'[s].status = "released"
               /\ latest[s] # NoRun
               /\ Holds(latest[s]) /\ held'[latest[s]] = NoLease]_vars

==============================================================================
