-------------------------------- MODULE Lease --------------------------------
(****************************************************************************)
(* The lease algebra of src/daemon/session-store.ts (BaseSessionStore) over *)
(* one slot of the store's record.                                          *)
(*                                                                          *)
(* A slot holds the SessionLease stored under a session id, or NoLease when *)
(* the record has no such key.  NoLease has the shape of a lease, token 0   *)
(* and a status no lease has, so that `existing?.fencingToken ?? 0` is its  *)
(* token and every test `status === "active"` is false of it.  Instants are *)
(* natural numbers.  heartbeatAt is written and never read by the code: it  *)
(* is left out.                                                             *)
(****************************************************************************)
EXTENDS Naturals

CONSTANTS Instance,    \* daemon instance ids (a fresh uuid per process)
          NoInstance,  \* the owner of no lease
          TTL          \* leaseTtlMs

ASSUME LeaseAssumption == TTL \in Nat \ {0} /\ NoInstance \notin Instance

LeaseStatus == {"active", "released", "reaped"}

SessionLease ==
  [owner : Instance, token : Nat \ {0}, exp : Nat, status : LeaseStatus]

NoLease == [owner |-> NoInstance, token |-> 0, exp |-> 0, status |-> "none"]

Slot == SessionLease \cup {NoLease}

\* acquire refuses: a different owner's lease is active and not yet expired.
Contended(l, o, t) == l.status = "active" /\ l.owner # o /\ l.exp > t

\* Mutant of Granted: the fence is not raised.
GrantedSameToken(l, o, t) ==
  [owner |-> o, token |-> IF l.token = 0 THEN 1 ELSE l.token,
   exp |-> t + TTL, status |-> "active"]

\* The lease acquire writes over slot l.
Granted(l, o, t) ==
  [owner |-> o, token |-> l.token + 1, exp |-> t + TTL, status |-> "active"]

\* heartbeat throws FencedError: the session is gone, superseded or not active.
Fenced(l, h) == l.token > h.token \/ l.status # "active"

\* heartbeat writes (and returns) the STORED lease with a new expiry.
Refreshed(l, t) == [l EXCEPT !.exp = t + TTL]

\* release takes effect for the owner of the stored token only.
Releasable(l, h) == l.token = h.token /\ l.status = "active"

\* Mutant of Released: a status the contract does not know.
ReleasedAsEnded(l) == [l EXCEPT !.status = "ended"]

Released(l) == [l EXCEPT !.status = "released"]

\* Mutant of Expired: the expiry is not looked at.
ExpiredAlways(l, t) == l.status = "active"

\* reapExpired takes every active lease whose expiry has passed.
Expired(l, t) == l.status = "active" /\ l.exp <= t

\* Mutant of Reaped: the slot is deleted instead of being marked.
ReapedDeleted(l) == NoLease

Reaped(l) == [l EXCEPT !.status = "reaped"]
==============================================================================
