-------------------------- MODULE SessionStoreProofs --------------------------
(****************************************************************************)
(* Proofs, for any set of sessions, runs and instances and any TTL, of what *)
(* SessionStore promises.  A single invariant carries them all: no handle   *)
(* is ahead of its slot (token order), the handle of a run that is not the  *)
(* last acquirer is strictly behind it, and no expiry is further away than  *)
(* one TTL.                                                                 *)
(****************************************************************************)
EXTENDS SessionStore, TLAPS

HandleBehind ==
  \A r \in Run : Holds(r) => held[r].token <= rec[SessionOf[r]].token

SupersededStrictlyBehind ==
  \A r \in Run : Holds(r) /\ latest[SessionOf[r]] # r
                   => held[r].token < rec[SessionOf[r]].token

ExpiryWithinTTL == \A s \in Session : rec[s].exp <= now + TTL

IInv == /\ TypeOK
        /\ HandleBehind
        /\ SupersededStrictlyBehind
        /\ ExpiryWithinTTL

------------------------------------------------------------------------------
(* The algebra maps slots to slots.                                         *)

LEMMA SlotType ==
  ASSUME NEW l \in Slot
  PROVE  /\ l.token \in Nat /\ l.exp \in Nat
         /\ l.status = "active" => l \in SessionLease
         /\ l # NoLease => l \in SessionLease
  BY DEF Slot, SessionLease, NoLease, LeaseStatus

LEMMA GrantedType ==
  ASSUME NEW l \in Slot, NEW o \in Instance, NEW t \in Nat
  PROVE  /\ Granted(l, o, t) \in SessionLease
         /\ Granted(l, o, t).token = l.token + 1
         /\ Granted(l, o, t).exp = t + TTL
         /\ Granted(l, o, t).owner = o
         /\ Granted(l, o, t).status = "active"
  <1>1. l.token \in Nat
    BY SlotType
  <1>2. TTL \in Nat \ {0}
    BY LeaseAssumption
  <1>3. QED
    BY <1>1, <1>2 DEF Granted, SessionLease, LeaseStatus

LEMMA RefreshedType ==
  ASSUME NEW l \in SessionLease, NEW t \in Nat
  PROVE  /\ Refreshed(l, t) \in SessionLease
         /\ Refreshed(l, t).token = l.token
         /\ Refreshed(l, t).exp = t + TTL
         /\ Refreshed(l, t).owner = l.owner
         /\ Refreshed(l, t).status = l.status
  BY LeaseAssumption DEF Refreshed, SessionLease

LEMMA MarkedType ==
  ASSUME NEW l \in SessionLease
  PROVE  /\ Released(l) \in SessionLease /\ Reaped(l) \in SessionLease
         /\ Released(l).token = l.token /\ Reaped(l).token = l.token
         /\ Released(l).exp = l.exp /\ Reaped(l).exp = l.exp
         /\ Released(l).owner = l.owner /\ Reaped(l).owner = l.owner
         /\ Released(l).status = "released" /\ Reaped(l).status = "reaped"
  BY DEF Released, Reaped, SessionLease, LeaseStatus

------------------------------------------------------------------------------
(* The invariant holds initially and every step preserves it.               *)

LEMMA InitIInv == Init => IInv
  <1> SUFFICES ASSUME Init PROVE IInv
    OBVIOUS
  <1>1. TypeOK
    BY DEF Init, TypeOK, Slot
  <1>2. \A r \in Run : ~Holds(r)
    BY DEF Init, Holds
  <1>3. ExpiryWithinTTL
    BY LeaseAssumption DEF Init, ExpiryWithinTTL, NoLease
  <1>4. QED
    BY <1>1, <1>2, <1>3 DEF IInv, HandleBehind, SupersededStrictlyBehind

\* What every state of the invariant says of one run and its slot.
LEMMA RunFacts ==
  ASSUME TypeOK, NEW r \in Run
  PROVE  /\ SessionOf[r] \in Session /\ InstanceOf[r] \in Instance
         /\ rec[SessionOf[r]] \in Slot
         /\ rec[SessionOf[r]].token \in Nat /\ rec[SessionOf[r]].exp \in Nat
         /\ held[r] \in Slot
         /\ held[r].token \in Nat
  BY StoreAssumption, SlotType DEF TypeOK

LEMMA AcquireIInv ==
  ASSUME IInv, NEW r \in Run, Acquire(r)
  PROVE  IInv'
  <1> DEFINE s == SessionOf[r]
             l == Granted(rec[s], InstanceOf[r], now)
  <1>1. /\ s \in Session /\ rec[s] \in Slot /\ rec[s].token \in Nat
        /\ InstanceOf[r] \in Instance /\ now \in Nat
    BY RunFacts DEF IInv, TypeOK
  <1>2. /\ l \in SessionLease /\ l.token = rec[s].token + 1
        /\ l.exp = now + TTL
    BY <1>1, GrantedType
  <1>3. /\ rec' = [rec EXCEPT ![s] = l] /\ held' = [held EXCEPT ![r] = l]
        /\ latest' = [latest EXCEPT ![s] = r]
        /\ now' = now /\ up' = up
    BY DEF Acquire
  <1> HIDE DEF l, s
  <1>4. TypeOK'
    BY <1>1, <1>2, <1>3 DEF IInv, TypeOK, Slot
  <1>5. HandleBehind'
    <2> SUFFICES ASSUME NEW q \in Run, Holds(q)'
                 PROVE  held'[q].token <= rec'[SessionOf[q]].token
      BY DEF HandleBehind
    <2>1. CASE q = r
      BY <2>1, <1>1, <1>2, <1>3 DEF IInv, TypeOK, s
    <2>2. CASE q # r
      <3>1. held'[q] = held[q] /\ Holds(q)
        BY <2>2, <1>3 DEF IInv, TypeOK, Holds
      <3>2. held[q].token <= rec[SessionOf[q]].token
        BY <3>1 DEF IInv, HandleBehind
      <3>3. held[q].token \in Nat /\ rec[SessionOf[q]].token \in Nat /\ SessionOf[q] \in Session
        BY RunFacts DEF IInv
      <3>4. CASE SessionOf[q] = s
        BY <3>1, <3>2, <3>3, <3>4, <1>1, <1>2, <1>3 DEF IInv, TypeOK
      <3>5. CASE SessionOf[q] # s
        BY <3>1, <3>2, <3>3, <3>5, <1>1, <1>3 DEF IInv, TypeOK
      <3>6. QED
        BY <3>4, <3>5
    <2>3. QED
      BY <2>1, <2>2
  <1>6. SupersededStrictlyBehind'
    <2> SUFFICES ASSUME NEW q \in Run, Holds(q)', latest'[SessionOf[q]] # q
                 PROVE  held'[q].token < rec'[SessionOf[q]].token
      BY DEF SupersededStrictlyBehind
    <2>1. q # r
      BY <1>1, <1>3 DEF IInv, TypeOK, s
    <2>2. held'[q] = held[q] /\ Holds(q)
      BY <2>1, <1>3 DEF IInv, TypeOK, Holds
    <2>3. held[q].token \in Nat /\ rec[SessionOf[q]].token \in Nat /\ SessionOf[q] \in Session
      BY RunFacts DEF IInv
    <2>4. CASE SessionOf[q] = s
      <3>1. held[q].token <= rec[SessionOf[q]].token
        BY <2>2 DEF IInv, HandleBehind
      <3>2. QED
        BY <2>2, <2>3, <2>4, <3>1, <1>1, <1>2, <1>3 DEF IInv, TypeOK
    <2>5. CASE SessionOf[q] # s
      <3>1. latest[SessionOf[q]] # q /\ rec'[SessionOf[q]] = rec[SessionOf[q]]
        BY <2>3, <2>5, <1>1, <1>3 DEF IInv, TypeOK
      <3>2. QED
        BY <2>2, <3>1 DEF IInv, SupersededStrictlyBehind
    <2>6. QED
      BY <2>4, <2>5
  <1>7. ExpiryWithinTTL'
    BY <1>1, <1>2, <1>3, LeaseAssumption DEF IInv, TypeOK, ExpiryWithinTTL
  <1>8. QED
    BY <1>4, <1>5, <1>6, <1>7 DEF IInv

LEMMA HeartbeatIInv ==
  ASSUME IInv, NEW r \in Run, Heartbeat(r)
  PROVE  IInv'
  <1> DEFINE s == SessionOf[r]
             l == Refreshed(rec[s], now)
  <1>1. /\ s \in Session /\ rec[s] \in Slot /\ rec[s].token \in Nat
        /\ held[r].token \in Nat /\ now \in Nat
    BY RunFacts DEF IInv, TypeOK
  <1>2. rec[s].status = "active" /\ rec[s].token <= held[r].token
    BY <1>1 DEF Heartbeat, Fenced
  <1>3. /\ l \in SessionLease /\ l.token = rec[s].token /\ l.exp = now + TTL
    BY <1>1, <1>2, SlotType, RefreshedType
  <1>4. /\ rec' = [rec EXCEPT ![s] = l] /\ held' = [held EXCEPT ![r] = l]
        /\ latest' = latest /\ now' = now /\ up' = up
        /\ Holds(r)
    BY DEF Heartbeat
  <1>5. latest[s] = r
    BY <1>1, <1>2, <1>4 DEF IInv, SupersededStrictlyBehind
  <1> HIDE DEF l, s
  <1>6. TypeOK'
    BY <1>1, <1>3, <1>4 DEF IInv, TypeOK, Slot
  <1>7. \A q \in Run : rec'[SessionOf[q]].token = rec[SessionOf[q]].token
    BY <1>1, <1>3, <1>4, RunFacts DEF IInv, TypeOK
  <1>8. \A q \in Run : q # r => held'[q] = held[q]
    BY <1>4 DEF IInv, TypeOK
  <1>9. held'[r].token = rec'[s].token
    BY <1>1, <1>4 DEF IInv, TypeOK
  <1>10. HandleBehind'
    BY <1>1, <1>3, <1>4, <1>7, <1>8, <1>9 DEF IInv, HandleBehind, Holds, s
  <1>11. SupersededStrictlyBehind'
    BY <1>4, <1>5, <1>7, <1>8 DEF IInv, SupersededStrictlyBehind, Holds, s
  <1>12. ExpiryWithinTTL'
    BY <1>1, <1>3, <1>4, LeaseAssumption DEF IInv, TypeOK, ExpiryWithinTTL
  <1>13. QED
    BY <1>6, <1>10, <1>11, <1>12 DEF IInv

\* Steps that change no token, expiry, acquirer or clock, and take handles
\* away at most: release, abandon, reap, crash.
LEMMA NoNewHandle ==
  ASSUME IInv, TypeOK',
         now' = now, latest' = latest,
         \A q \in Run : held'[q] = held[q] \/ held'[q] = NoLease,
         \A t \in Session : rec'[t].token = rec[t].token /\ rec'[t].exp = rec[t].exp
  PROVE  IInv'
  <1>1. HandleBehind'
    BY RunFacts DEF IInv, HandleBehind, Holds
  <1>2. SupersededStrictlyBehind'
    BY RunFacts DEF IInv, SupersededStrictlyBehind, Holds
  <1>3. ExpiryWithinTTL'
    BY DEF IInv, ExpiryWithinTTL
  <1>4. QED
    BY <1>1, <1>2, <1>3 DEF IInv

LEMMA ReleaseIInv ==
  ASSUME IInv, NEW r \in Run, Release(r)
  PROVE  IInv'
  <1> DEFINE s == SessionOf[r]
             l == IF Releasable(rec[s], held[r]) THEN Released(rec[s]) ELSE rec[s]
  <1>1. s \in Session /\ rec[s] \in Slot
    BY RunFacts DEF IInv
  <1>2. l \in Slot /\ l.token = rec[s].token /\ l.exp = rec[s].exp
    BY <1>1, SlotType, MarkedType DEF Releasable, Slot
  <1>3. /\ rec' = [rec EXCEPT ![s] = l] /\ held' = [held EXCEPT ![r] = NoLease]
        /\ now' = now /\ latest' = latest /\ up' = up
    BY <1>1 DEF Release, IInv, TypeOK
  <1> HIDE DEF l, s
  <1>4. TypeOK'
    BY <1>1, <1>2, <1>3 DEF IInv, TypeOK, Slot
  <1>5. \A t \in Session : rec'[t].token = rec[t].token /\ rec'[t].exp = rec[t].exp
    BY <1>1, <1>2, <1>3 DEF IInv, TypeOK
  <1>6. \A q \in Run : held'[q] = held[q] \/ held'[q] = NoLease
    BY <1>3 DEF IInv, TypeOK
  <1>7. QED
    BY <1>3, <1>4, <1>5, <1>6, NoNewHandle

LEMMA AbandonIInv ==
  ASSUME IInv, NEW r \in Run, Abandon(r)
  PROVE  IInv'
  <1>1. TypeOK'
    BY DEF IInv, TypeOK, Abandon, Slot
  <1>2. \A q \in Run : held'[q] = held[q] \/ held'[q] = NoLease
    BY DEF IInv, TypeOK, Abandon
  <1>3. QED
    BY <1>1, <1>2, NoNewHandle DEF Abandon

LEMMA ReapIInv ==
  ASSUME IInv, NEW i \in Instance, ReapExpired(i)
  PROVE  IInv'
  <1>1. \A t \in Session : /\ rec'[t] \in Slot
                           /\ rec'[t].token = rec[t].token
                           /\ rec'[t].exp = rec[t].exp
    <2> TAKE t \in Session
    <2>1. rec[t] \in Slot
      BY DEF IInv, TypeOK
    <2>2. CASE Expired(rec[t], now)
      BY <2>1, <2>2, SlotType, MarkedType DEF ReapExpired, Expired, Slot
    <2>3. CASE ~Expired(rec[t], now)
      BY <2>1, <2>3 DEF ReapExpired
    <2>4. QED
      BY <2>2, <2>3
  <1>2. TypeOK'
    BY <1>1 DEF IInv, TypeOK, ReapExpired
  <1>3. QED
    BY <1>1, <1>2, NoNewHandle DEF ReapExpired

LEMMA CrashIInv ==
  ASSUME IInv, NEW i \in Instance, Crash(i)
  PROVE  IInv'
  <1>1. TypeOK'
    BY DEF IInv, TypeOK, Crash, Slot
  <1>2. \A q \in Run : held'[q] = held[q] \/ held'[q] = NoLease
    BY DEF IInv, TypeOK, Crash
  <1>3. QED
    BY <1>1, <1>2, NoNewHandle DEF Crash

LEMMA TickIInv ==
  ASSUME IInv, Tick
  PROVE  IInv'
  <1>1. TypeOK'
    BY DEF IInv, TypeOK, Tick
  <1>2. ExpiryWithinTTL'
    BY LeaseAssumption, SlotType DEF IInv, TypeOK, ExpiryWithinTTL, Tick
  <1>3. HandleBehind' /\ SupersededStrictlyBehind'
    BY DEF IInv, HandleBehind, SupersededStrictlyBehind, Holds, Tick
  <1>4. QED
    BY <1>1, <1>2, <1>3 DEF IInv

LEMMA NextIInv == IInv /\ [Next]_vars => IInv'
  <1> SUFFICES ASSUME IInv, [Next]_vars PROVE IInv'
    OBVIOUS
  <1>1. ASSUME NEW r \in Run, Acquire(r) PROVE IInv'
    BY <1>1, AcquireIInv
  <1>2. ASSUME NEW r \in Run, Heartbeat(r) PROVE IInv'
    BY <1>2, HeartbeatIInv
  <1>3. ASSUME NEW r \in Run, Release(r) PROVE IInv'
    BY <1>3, ReleaseIInv
  <1>4. ASSUME NEW r \in Run, Abandon(r) PROVE IInv'
    BY <1>4, AbandonIInv
  <1>5. ASSUME NEW i \in Instance, ReapExpired(i) PROVE IInv'
    BY <1>5, ReapIInv
  <1>6. ASSUME NEW i \in Instance, Crash(i) PROVE IInv'
    BY <1>6, CrashIInv
  <1>7. CASE Tick
    BY <1>7, TickIInv
  <1>8. CASE UNCHANGED vars
    BY <1>8 DEF vars, IInv, TypeOK, HandleBehind, SupersededStrictlyBehind,
                ExpiryWithinTTL, Holds
  <1>9. QED
    BY <1>1, <1>2, <1>3, <1>4, <1>5, <1>6, <1>7, <1>8 DEF Next

LEMMA SpecIInv == Spec => []IInv
  BY InitIInv, NextIInv, PTL DEF Spec

------------------------------------------------------------------------------
(* The promises.                                                            *)

\* The variables keep their types in every reachable state of the store.
THEOREM SpecTypeOK == Spec => []TypeOK
  BY SpecIInv, PTL DEF IInv

\* In every reachable state the store's fence is shut for every run that holds
\* a lease of a session acquired again since.
THEOREM SpecSupersededIsFenced == Spec => []SupersededIsFenced
  <1>1. IInv => SupersededIsFenced
    BY RunFacts DEF IInv, SupersededIsFenced, SupersededStrictlyBehind, Fenced
  <1>2. QED
    BY <1>1, SpecIInv, PTL

\* What a step may do to one slot: keep token and activity, deactivate it, or
\* raise its token.
LEMMA SlotStep ==
  ASSUME IInv, [Next]_vars, NEW s \in Session
  PROVE  \/ rec'[s].token > rec[s].token
         \/ /\ rec'[s].token = rec[s].token
            /\ rec'[s].status = rec[s].status \/ rec'[s].status # "active"
  <1> DEFINE Goal == \/ rec'[s].token > rec[s].token
                     \/ /\ rec'[s].token = rec[s].token
                        /\ rec'[s].status = rec[s].status \/ rec'[s].status # "active"
  <1>1. rec[s] \in Slot /\ rec[s].token \in Nat /\ now \in Nat
    BY SlotType DEF IInv, TypeOK
  <1>2. ASSUME NEW r \in Run, Acquire(r) PROVE Goal
    <2>1. CASE s = SessionOf[r]
      <3>1. rec'[s] = Granted(rec[s], InstanceOf[r], now)
        BY <1>2, <2>1 DEF Acquire, IInv, TypeOK
      <3>2. QED
        BY <3>1, <1>1, GrantedType, StoreAssumption
    <2>2. CASE s # SessionOf[r]
      BY <1>2, <2>2 DEF Acquire, IInv, TypeOK
    <2>3. QED
      BY <2>1, <2>2
  <1>3. ASSUME NEW r \in Run, Heartbeat(r) PROVE Goal
    <2>1. CASE s = SessionOf[r]
      <3>1. rec'[s] = Refreshed(rec[s], now) /\ rec[s].status = "active"
        BY <1>3, <2>1 DEF Heartbeat, Fenced, IInv, TypeOK
      <3>2. QED
        BY <3>1, <1>1, SlotType, RefreshedType
    <2>2. CASE s # SessionOf[r]
      BY <1>3, <2>2 DEF Heartbeat, IInv, TypeOK
    <2>3. QED
      BY <2>1, <2>2
  <1>4. ASSUME NEW r \in Run, Release(r) PROVE Goal
    <2>1. rec'[s] = rec[s] \/ (rec'[s] = Released(rec[s]) /\ rec[s].status = "active")
      BY <1>4 DEF Release, Releasable, IInv, TypeOK
    <2>2. QED
      BY <2>1, <1>1, SlotType, MarkedType
  <1>5. ASSUME NEW i \in Instance, ReapExpired(i) PROVE Goal
    <2>1. rec'[s] = rec[s] \/ (rec'[s] = Reaped(rec[s]) /\ rec[s].status = "active")
      BY <1>5 DEF ReapExpired, Expired
    <2>2. QED
      BY <2>1, <1>1, SlotType, MarkedType
  <1>6. CASE rec' = rec
    BY <1>6, <1>1
  <1>7. QED
    BY <1>2, <1>3, <1>4, <1>5, <1>6 DEF Next, Abandon, Crash, Tick, vars

\* Whatever happens afterwards, a fenced handle never passes the fence again.
THEOREM SpecFencedForever == Spec => FencedForever
  <1>1. IInv /\ [Next]_vars =>
          [\A r \in Run :
             /\ Holds(r) /\ Fenced(rec[SessionOf[r]], held[r])
             /\ held'[r] = held[r]
             => Fenced(rec'[SessionOf[r]], held'[r])]_vars
    <2> SUFFICES ASSUME IInv, [Next]_vars, NEW r \in Run,
                        Holds(r), Fenced(rec[SessionOf[r]], held[r]), held'[r] = held[r]
                 PROVE  Fenced(rec'[SessionOf[r]], held'[r])
      OBVIOUS
    <2> DEFINE s == SessionOf[r]
    <2>1. /\ s \in Session /\ rec[s].token \in Nat /\ held[r].token \in Nat
          /\ held[r].token <= rec[s].token
      BY RunFacts DEF IInv, HandleBehind
    <2>2. IInv'
      BY NextIInv
    <2>3. rec'[s].token \in Nat
      BY <2>1, <2>2, SlotType DEF IInv, TypeOK
    <2>4. CASE rec'[s].token > rec[s].token
      BY <2>1, <2>3, <2>4 DEF Fenced
    <2>5. CASE /\ rec'[s].token = rec[s].token
               /\ rec'[s].status = rec[s].status \/ rec'[s].status # "active"
      BY <2>5 DEF Fenced
    <2>6. QED
      BY <2>1, <2>4, <2>5, SlotStep
  <1>2. QED
    BY <1>1, SpecIInv, PTL DEF Spec, FencedForever

\* A lease that has not expired stays with its owner until the run that
\* acquired it last gives it up.
THEOREM SpecLiveLeaseKept == Spec => LiveLeaseKept
  <1> DEFINE Live(s) == rec[s].status = "active" /\ rec[s].exp > now
             Kept(s) == /\ rec'[s].owner = rec[s].owner
                        /\ rec'[s].exp >= rec[s].exp
                        /\ \/ rec'[s].status = "active"
                           \/ /\ rec'[s].status = "released"
                              /\ latest[s] # NoRun
                              /\ Holds(latest[s]) /\ held'[latest[s]] = NoLease
  <1>1. IInv /\ [Next]_vars => [\A s \in Session : Live(s) => Kept(s)]_vars
    <2> SUFFICES ASSUME IInv, [Next]_vars, NEW s \in Session, Live(s)
                 PROVE  Kept(s)
      OBVIOUS
    <2>1. /\ rec[s] \in SessionLease /\ rec[s].exp \in Nat /\ now \in Nat
          /\ rec[s].exp <= now + TTL
      BY SlotType DEF IInv, TypeOK, ExpiryWithinTTL
    <2>2. ASSUME NEW r \in Run, Acquire(r) PROVE Kept(s)
      <3>1. CASE s = SessionOf[r]
        <4>1. /\ rec'[s] = Granted(rec[s], InstanceOf[r], now)
              /\ rec[s].owner = InstanceOf[r]
          BY <2>2, <3>1 DEF Acquire, Contended, IInv, TypeOK
        <4>2. rec'[s].owner = InstanceOf[r] /\ rec'[s].exp = now + TTL
              /\ rec'[s].status = "active"
          BY <4>1, <2>1, GrantedType, StoreAssumption DEF Slot
        <4>3. QED
          BY <4>1, <4>2, <2>1, LeaseAssumption
      <3>2. CASE s # SessionOf[r]
        BY <2>1, <2>2, <3>2 DEF Acquire, IInv, TypeOK
      <3>3. QED
        BY <3>1, <3>2
    <2>3. ASSUME NEW r \in Run, Heartbeat(r) PROVE Kept(s)
      <3>1. CASE s = SessionOf[r]
        <4>1. rec'[s] = Refreshed(rec[s], now)
          BY <2>3, <3>1 DEF Heartbeat, IInv, TypeOK
        <4>2. QED
          BY <4>1, <2>1, RefreshedType, LeaseAssumption
      <3>2. CASE s # SessionOf[r]
        BY <2>1, <2>3, <3>2 DEF Heartbeat, IInv, TypeOK
      <3>3. QED
        BY <3>1, <3>2
    <2>4. ASSUME NEW r \in Run, Release(r) PROVE Kept(s)
      <3>1. CASE s = SessionOf[r] /\ Releasable(rec[s], held[r])
        <4>1. rec'[s] = Released(rec[s]) /\ held'[r] = NoLease /\ Holds(r)
          BY <2>4, <3>1 DEF Release, IInv, TypeOK
        <4>2. latest[s] = r
          BY <4>1, <3>1, RunFacts DEF IInv, SupersededStrictlyBehind, Releasable
        <4>3. r # NoRun
          BY StoreAssumption
        <4>4. QED
          BY <4>1, <4>2, <4>3, <2>1, MarkedType
      <3>2. CASE ~(s = SessionOf[r] /\ Releasable(rec[s], held[r]))
        <4>1. rec'[s] = rec[s]
          BY <2>4, <3>2 DEF Release, IInv, TypeOK
        <4>2. QED
          BY <4>1, <2>1
      <3>3. QED
        BY <3>1, <3>2
    <2>5. ASSUME NEW i \in Instance, ReapExpired(i) PROVE Kept(s)
      BY <2>1, <2>5 DEF ReapExpired, Expired
    <2>6. CASE rec' = rec
      BY <2>1, <2>6
    <2>7. QED
      BY <2>2, <2>3, <2>4, <2>5, <2>6 DEF Next, Abandon, Crash, Tick, vars
  <1>2. QED
    BY <1>1, SpecIInv, PTL DEF Spec, LiveLeaseKept

==============================================================================
