-------------------------- MODULE SessionDriverProofs --------------------------
(****************************************************************************)
(* Theorems about SessionDriver, for any sessions, runs, processes and      *)
(* calls, any mix of drivers and identity modes, and any lease time: what   *)
(* its journal says of a session's end is true, leases are released and     *)
(* reaped only as the journal tells, no mediated run leaves its sandbox     *)
(* behind, and the processes use the store as SessionStore describes it.    *)
(*                                                                          *)
(* The calls are Mediation's, and so is their invariant.  A run adds one    *)
(* predicate, Local, that lists what its journal, lease, sandbox, intendant *)
(* and calls look like at each await; the store adds the order of tokens.   *)
(****************************************************************************)
EXTENDS SessionDriver, FiniteSetTheorems, SequenceTheorems, TLAPS

MP == INSTANCE MediationProofs

\* The store's own proofs, of the store as the drivers use it.
SP == INSTANCE SessionStoreProofs WITH
  held <- [r \in Run |->
             IF Alive(r) /\ phase[r] # "returned" THEN held[r] ELSE NoLease],
  up <- {i \in Instance : proc[i] # "dead"},
  MaxToken <- Cardinality(Run)

------------------------------------------------------------------------------
(* The situations of a run.                                                 *)

\* What the run has journaled: nothing but its identity check; up to
\* session.started; up to session.ended.
OpenLog(r) == \E es \in Admitted(r) : log[r] = Append(es, "session.started")

ClosedLog(r) ==
  \E es \in Admitted(r) :
    log[r] = Append(Append(es, "session.started"), "session.ended")

Leased(r) == held[r] # NoLease

Things(r, b, h) == box[r] = b /\ harness[r] = h

\* Nothing has been started, and nobody has called.
Blank(r) == ~Leased(r) /\ Things(r, "none", "none") /\ Taken(r) = {}

\* The calls the driver waits for have succeeded.
AllGood(r) == \A c \in IF DriverOf[r] = "live" THEN barrier[r] ELSE Taken(r) : Succeeded(c)

\* session.ended is written when all is over.
Closed(r) ==
  ClosedLog(r) /\ Leased(r) /\ Things(r, "down", "down") /\ AllGood(r)

Local(r) ==
  \/ phase[r] \in {"idle", "gating"} /\ log[r] = <<>> /\ Blank(r)
  \/ phase[r] = "refused" /\ log[r] = <<"verify.failed">> /\ Blank(r)
  \/ phase[r] = "starting" /\ OpenLog(r) /\ Leased(r) /\ Things(r, "none", "none")
  \/ phase[r] = "spawning" /\ OpenLog(r) /\ Leased(r) /\ Things(r, "none", "up")
  \/ phase[r] = "running" /\ OpenLog(r) /\ Leased(r) /\ Things(r, "up", "up")
  \/ /\ phase[r] = "draining" /\ OpenLog(r) /\ Leased(r) /\ Things(r, "up", "up")
     /\ DriverOf[r] # "scripted"
     /\ DriverOf[r] # "live" => barrier[r] = Taken(r)
  \/ /\ phase[r] = "tearing" /\ OpenLog(r) /\ Leased(r) /\ Things(r, "up", "up")
     /\ failing[r] \/ AllGood(r)
  \/ /\ phase[r] = "stopping" /\ OpenLog(r) /\ Leased(r) /\ Things(r, "down", "up")
     /\ failing[r] \/ AllGood(r)
  \/ phase[r] = "returned" /\ Closed(r)
  \/ /\ phase[r] = "rejected"
     /\ \/ log[r] \in {<<>>, <<"verify.failed">>} /\ Blank(r)
        \/ log[r] \in Admitted(r) /\ Leased(r) /\ Things(r, "none", "none")
        \/ OpenLog(r) /\ Leased(r)
        \/ Closed(r)

\* A failing run is in runMediated's finally block, or has left it.
FailingMeans ==
  \A r \in Run : failing[r] => phase[r] \in {"tearing", "stopping", "rejected"}

\* A process that has not come up has no runs.
ProcOrder ==
  \A r \in Run : proc[InstanceOf[r]] \in {"off", "reaping"} => phase[r] = "idle"

------------------------------------------------------------------------------
(* The store.                                                               *)

\* No lease variable is ahead of its slot; that of a run which is not the last
\* acquirer is strictly behind it.
TokenOrder ==
  \A r \in Run : Leased(r) =>
    /\ held[r].token <= rec[SessionOf[r]].token
    /\ latest[SessionOf[r]] # r => held[r].token < rec[SessionOf[r]].token

\* A run that returned cannot refresh its lease any more, so that a late call
\* of a live harness does not bring the session back.
ReturnedIsFenced ==
  \A r \in Run : phase[r] = "returned" => Fenced(rec[SessionOf[r]], held[r])

\* A session's token counts the runs that were granted it.
Grantees(s) == {r \in Run : SessionOf[r] = s /\ Leased(r)}

TokenCounts == \A s \in Session : rec[s].token <= Cardinality(Grantees(s))

IInv ==
  /\ TypeOK /\ MP!IInv
  /\ \A r \in Run : Local(r)
  /\ FailingMeans /\ ProcOrder
  /\ TokenOrder /\ ReturnedIsFenced /\ TokenCounts
  /\ ReleasedMeansEnded /\ ReapAccounted

------------------------------------------------------------------------------
(* Constants, types and frames.                                             *)

StoreTypes ==
  /\ now \in Nat
  /\ rec \in [Session -> Slot]
  /\ held \in [Run -> Slot]
  /\ latest \in [Session -> Run \cup {NoRun}]
  /\ proc \in [Instance -> {"off", "reaping", "up", "dead"}]
  /\ unlogged \in [Instance -> SUBSET (Session \X Nat)]
  /\ reapLog \subseteq Session \X Nat

RunTypes ==
  /\ phase \in [Run -> {"idle"} \cup Awaiting \cup Over]
  /\ failing \in [Run -> BOOLEAN]
  /\ barrier \in [Run -> SUBSET Call]
  /\ fenced \subseteq Call
  /\ box \in [Run -> {"none", "up", "down"}]
  /\ harness \in [Run -> {"none", "up", "down"}]
  /\ log \in [Run -> Seq(RunEvent)]

LEMMA SplitTypes == TypeOK <=> M!TypeOK /\ StoreTypes /\ RunTypes
  BY DEF TypeOK, StoreTypes, RunTypes

LEMMA RunFacts ==
  ASSUME NEW r \in Run
  PROVE  /\ SessionOf[r] \in Session /\ InstanceOf[r] \in Instance
         /\ DriverOf[r] \in {"live", "mediated", "scripted"}
         /\ IdentityOf[r] \in {"off", "warn", "enforce"}
         /\ r # NoRun
  BY DriverAssumption

LEMMA ModeType == ModeOf \in [Call -> {"mediate", "gate"}]
  BY DEF ModeOf

\* The calls' invariant types their variables.
LEMMA CallTypes == MP!IInv => M!TypeOK
  BY DEF MP!IInv, MP!TypeOK, M!TypeOK, MP!Suspended, M!Suspended, MP!Settled, M!Settled,
         MP!Rejected, M!Rejected, MP!Decision, M!Decision, MP!Kind, M!Kind,
         MP!Message, M!Message

LEMMA CallsKept ==
  ASSUME IInv, UNCHANGED callVars
  PROVE  MP!IInv' /\ M!TypeOK'
  <1>1. UNCHANGED MP!callVars
    BY DEF callVars, MP!callVars
  <1>2. MP!IInv'
    BY <1>1, ModeType, MP!NextIInv DEF IInv
  <1>3. QED
    BY <1>2, CallTypes, PTL

\* What does not touch a run, or only lets its calls go on, leaves it in its
\* situation.
LEMMA Undisturbed ==
  ASSUME NEW r \in Run, Local(r), barrier[r] \subseteq Call,
         phase'[r] = phase[r], failing'[r] = failing[r], barrier'[r] = barrier[r],
         box'[r] = box[r], harness'[r] = harness[r], log'[r] = log[r],
         (held'[r] # NoLease) <=> Leased(r),
         Taken(r)' = Taken(r),
         \A c \in Call : Succeeded(c) => Succeeded(c)'
  PROVE  Local(r)'
  <1>1. /\ OpenLog(r)' <=> OpenLog(r)
        /\ ClosedLog(r)' <=> ClosedLog(r)
    BY DEF OpenLog, ClosedLog, Admitted
  <1>2. /\ Leased(r)' <=> Leased(r)
        /\ Blank(r)' <=> Blank(r)
        /\ \A b, h : Things(r, b, h)' <=> Things(r, b, h)
    BY DEF Leased, Blank, Things
  <1>3. AllGood(r) => AllGood(r)'
    BY DEF AllGood, Taken, CallsOf
  <1>4. Admitted(r)' = Admitted(r)
    BY DEF Admitted
  <1>5. QED
    BY <1>1, <1>2, <1>3, <1>4 DEF Local, Closed

\* While no call moves, the calls of a run stay as they are.
LEMMA CallsAsTheyAre ==
  ASSUME NEW r \in Run, UNCHANGED <<callVars, fenced>>
  PROVE  /\ Taken(r)' = Taken(r)
         /\ \A c : Succeeded(c)' <=> Succeeded(c)
  BY DEF callVars, Taken, CallsOf, Succeeded
------------------------------------------------------------------------------
(* Steps of a driver that leave the store alone.                            *)

\* Such a step changes the variables of one run, which neither was back nor is.
LEMMA RunMoves ==
  ASSUME IInv, NEW r \in Run, Alive(r),
         UNCHANGED <<callVars, storeVars, procVars, fenced>>,
         RunTypes',
         \A q \in Run \ {r} :
           /\ phase'[q] = phase[q] /\ failing'[q] = failing[q] /\ barrier'[q] = barrier[q]
           /\ box'[q] = box[q] /\ harness'[q] = harness[q] /\ log'[q] = log[q],
         Local(r)',
         failing'[r] => phase'[r] \in {"tearing", "stopping", "rejected"},
         phase[r] # "returned", phase'[r] # "returned"
  PROVE  IInv'
  <1>1. MP!IInv' /\ M!TypeOK'
    BY CallsKept
  <1>2. StoreTypes'
    BY SplitTypes DEF IInv, StoreTypes, storeVars, procVars
  <1>3. TypeOK'
    BY <1>1, <1>2, SplitTypes, PTL
  <1>4. ASSUME NEW q \in Run PROVE Local(q)'
    <2>1. CASE q # r
      <3>1. barrier[q] \subseteq Call
        BY SplitTypes DEF IInv, RunTypes
      <3>2. held'[q] = held[q] /\ Local(q)
        BY DEF IInv, storeVars
      <3>3. QED
        BY <2>1, <3>1, <3>2, CallsAsTheyAre, Undisturbed DEF Leased
    <2>2. QED
      BY <2>1
  <1>5. FailingMeans'
    BY DEF IInv, FailingMeans
  <1>6. ProcOrder'
    BY DEF IInv, ProcOrder, procVars, Alive
  <1>7. TokenOrder' /\ TokenCounts'
    <2>1. TokenOrder'
      BY DEF IInv, TokenOrder, storeVars, Leased
    <2>2. \A s : Grantees(s)' = Grantees(s)
      BY DEF Grantees, Leased, storeVars
    <2>3. QED
      BY <2>1, <2>2 DEF IInv, TokenCounts, storeVars
  <1>8. ReturnedIsFenced'
    BY DEF IInv, ReturnedIsFenced, storeVars
  <1>9. ReleasedMeansEnded'
    <2> SUFFICES ASSUME NEW s \in Session, rec'[s].status = "released"
                 PROVE  latest'[s] # NoRun /\ phase'[latest'[s]] = "returned"
      BY DEF ReleasedMeansEnded
    <2>1. latest'[s] = latest[s] /\ latest[s] # NoRun /\ phase[latest[s]] = "returned"
      BY DEF IInv, ReleasedMeansEnded, storeVars
    <2>2. latest[s] \in Run \ {r}
      BY <2>1, SplitTypes DEF IInv, StoreTypes
    <2>3. QED
      BY <2>1, <2>2
  <1>10. ReapAccounted'
    BY DEF IInv, ReapAccounted, storeVars, procVars
  <1>11. QED
    BY <1>1, <1>3, <1>4, <1>5, <1>6, <1>7, <1>8, <1>9, <1>10 DEF IInv

------------------------------------------------------------------------------
(* The driver steps of that kind.                                           *)

\* What such a step may keep of a run's situation.
LEMMA Views ==
  ASSUME NEW r \in Run, UNCHANGED <<callVars, held, fenced>>
  PROVE  /\ Taken(r)' = Taken(r)
         /\ Leased(r)' <=> Leased(r)
         /\ barrier'[r] = barrier[r] => (AllGood(r)' <=> AllGood(r))
         /\ log'[r] = log[r] =>
              (OpenLog(r)' <=> OpenLog(r)) /\ (ClosedLog(r)' <=> ClosedLog(r))
         /\ \A b, h : Things(r, b, h)' <=> box'[r] = b /\ harness'[r] = h
         /\ Admitted(r)' = Admitted(r)
  <1>1. Taken(r)' = Taken(r) /\ \A c : Succeeded(c)' <=> Succeeded(c)
    BY CallsAsTheyAre
  <1>2. barrier'[r] = barrier[r] => (AllGood(r)' <=> AllGood(r))
    BY <1>1 DEF AllGood
  <1>3. QED
    BY <1>1, <1>2 DEF Leased, OpenLog, ClosedLog, Things, Admitted

\* What journal an unadmitted run may leave.
LEMMA AdmittedType ==
  ASSUME NEW r \in Run
  PROVE  /\ Admitted(r) \subseteq {<<>>, <<"verify.failed">>}
         /\ Admitted(r) \subseteq Seq(RunEvent)
         /\ <<>> \in Admitted(r)
         /\ <<>> \in Seq(RunEvent) /\ <<"verify.failed">> \in Seq(RunEvent)
  <1>1. <<>> \in Seq(RunEvent) /\ <<"verify.failed">> \in Seq(RunEvent)
    BY MP!Tuples DEF RunEvent
  <1>2. QED
    BY <1>1 DEF Admitted

LEMMA EnterIInv ==
  ASSUME IInv, NEW r \in Run, Enter(r)
  PROVE  IInv'
  <1>1. /\ phase[r] = "idle" /\ RunTypes
        /\ phase' = [phase EXCEPT ![r] = "gating"]
        /\ UNCHANGED <<callVars, storeVars, procVars, failing, barrier, fenced, box,
                       harness, log>>
    BY SplitTypes DEF IInv, Enter, Fresh, Goto
  <1>2. phase'[r] = "gating" /\ \A q \in Run \ {r} : phase'[q] = phase[q]
    BY <1>1 DEF RunTypes
  <1>3. RunTypes'
    BY <1>1 DEF RunTypes, Awaiting
  <1>4. Local(r)'
    <2>1. Local(r)
      BY DEF IInv
    <2>2. Blank(r) /\ log[r] = <<>>
      BY <1>1, <2>1 DEF Local
    <2>3. Blank(r)'
      BY <1>1, <2>2, Views DEF Blank, storeVars, Things
    <2>4. QED
      BY <1>1, <1>2, <2>2, <2>3 DEF Local
  <1>5. ~failing'[r]
    BY <1>1 DEF IInv, FailingMeans
  <1>6. QED
    BY <1>1, <1>2, <1>3, <1>4, <1>5, RunMoves DEF Enter

LEMMA Here ==
  ASSUME IInv, NEW r \in Run
  PROVE  /\ Local(r) /\ RunTypes
         /\ failing[r] => phase[r] \in {"tearing", "stopping", "rejected"}
  BY SplitTypes DEF IInv, FailingMeans

LEMMA RefuseIInv ==
  ASSUME IInv, NEW r \in Run, Refuse(r)
  PROVE  IInv'
  <1>1. PICK p \in {"refused", "rejected"}, es \in {<<>>, <<"verify.failed">>} :
          /\ p = "refused" => es = <<"verify.failed">>
          /\ phase' = [phase EXCEPT ![r] = p]
          /\ log' = [log EXCEPT ![r] = es]
    BY DEF Refuse, Goto
  <1>2. /\ Alive(r) /\ phase[r] = "gating"
        /\ UNCHANGED <<callVars, storeVars, procVars, failing, barrier, fenced, box, harness>>
    BY DEF Refuse
  <1>3. es \in Seq(RunEvent)
    BY AdmittedType
  <1>4. /\ phase'[r] = p /\ log'[r] = es
        /\ \A q \in Run \ {r} : phase'[q] = phase[q] /\ log'[q] = log[q]
    BY <1>1, Here DEF RunTypes
  <1>5. RunTypes'
    BY <1>1, <1>2, <1>3, Here DEF RunTypes, Over
  <1>6. Blank(r)
    BY <1>2, Here DEF Local
  <1>7. Blank(r)'
    BY <1>2, <1>6, Views DEF Blank, storeVars, Things
  <1>8. Local(r)'
    BY <1>1, <1>4, <1>7 DEF Local
  <1>9. ~failing'[r]
    BY <1>2, Here
  <1>10. QED
    BY <1>2, <1>4, <1>5, <1>8, <1>9, RunMoves

LEMMA ContendIInv ==
  ASSUME IInv, NEW r \in Run, Contend(r)
  PROVE  IInv'
  <1>1. PICK es \in Admitted(r) :
          /\ phase' = [phase EXCEPT ![r] = "rejected"]
          /\ log' = [log EXCEPT ![r] = es]
    BY DEF Contend, Goto
  <1>2. /\ Alive(r) /\ phase[r] = "gating"
        /\ UNCHANGED <<callVars, storeVars, procVars, failing, barrier, fenced, box, harness>>
    BY DEF Contend
  <1>3. es \in Seq(RunEvent) /\ es \in {<<>>, <<"verify.failed">>}
    BY AdmittedType
  <1>4. /\ phase'[r] = "rejected" /\ log'[r] = es
        /\ \A q \in Run \ {r} : phase'[q] = phase[q] /\ log'[q] = log[q]
    BY <1>1, Here DEF RunTypes
  <1>5. RunTypes'
    BY <1>1, <1>2, <1>3, Here DEF RunTypes, Over
  <1>6. Blank(r)
    BY <1>2, Here DEF Local
  <1>7. Blank(r)'
    BY <1>2, <1>6, Views DEF Blank, storeVars, Things
  <1>8. Local(r)'
    BY <1>3, <1>4, <1>7 DEF Local
  <1>9. ~failing'[r]
    BY <1>2, Here
  <1>10. QED
    BY <1>2, <1>4, <1>5, <1>8, <1>9, RunMoves

LEMMA StartedIInv ==
  ASSUME IInv, NEW r \in Run, Started(r)
  PROVE  IInv'
  <1>1. PICK p \in {"spawning", "rejected"}, h \in {"none", "up"} :
          /\ p = "spawning" <=> h = "up"
          /\ phase' = [phase EXCEPT ![r] = p]
          /\ harness' = [harness EXCEPT ![r] = h]
    <2>1. harness[r] = "none" /\ harness \in [Run -> {"none", "up", "down"}]
      BY Here DEF Started, Local, Things, RunTypes
    <2>2. harness = [harness EXCEPT ![r] = "none"]
      BY <2>1
    <2>3. QED
      BY <2>2 DEF Started, Goto
  <1>2. /\ Alive(r) /\ phase[r] = "starting"
        /\ UNCHANGED <<callVars, storeVars, procVars, failing, barrier, fenced, box, log>>
    BY DEF Started
  <1>3. /\ phase'[r] = p /\ harness'[r] = h
        /\ \A q \in Run \ {r} : phase'[q] = phase[q] /\ harness'[q] = harness[q]
    BY <1>1, Here DEF RunTypes
  <1>4. RunTypes'
    BY <1>1, <1>2, Here DEF RunTypes, Awaiting, Over
  <1>5. OpenLog(r) /\ Leased(r) /\ Things(r, "none", "none")
    BY <1>2, Here DEF Local
  <1>6. OpenLog(r)' /\ Leased(r)' /\ Things(r, "none", h)'
    BY <1>2, <1>3, <1>5, Views DEF storeVars, Things
  <1>7. Local(r)'
    BY <1>1, <1>3, <1>6 DEF Local
  <1>8. ~failing'[r]
    BY <1>2, Here
  <1>9. QED
    BY <1>1, <1>2, <1>3, <1>4, <1>7, <1>8, RunMoves

LEMMA SpawnedIInv ==
  ASSUME IInv, NEW r \in Run, Spawned(r)
  PROVE  IInv'
  <1>1. PICK p \in {"running", "rejected"}, b \in {"none", "up"} :
          /\ p = "running" <=> b = "up"
          /\ phase' = [phase EXCEPT ![r] = p]
          /\ box' = [box EXCEPT ![r] = b]
    <2>1. box[r] = "none" /\ box \in [Run -> {"none", "up", "down"}]
      BY Here DEF Spawned, Local, Things, RunTypes
    <2>2. box = [box EXCEPT ![r] = "none"]
      BY <2>1
    <2>3. QED
      BY <2>2 DEF Spawned, Goto
  <1>2. /\ Alive(r) /\ phase[r] = "spawning"
        /\ UNCHANGED <<callVars, storeVars, procVars, failing, barrier, fenced, harness, log>>
    BY DEF Spawned
  <1>3. /\ phase'[r] = p /\ box'[r] = b
        /\ \A q \in Run \ {r} : phase'[q] = phase[q] /\ box'[q] = box[q]
    BY <1>1, Here DEF RunTypes
  <1>4. RunTypes'
    BY <1>1, <1>2, Here DEF RunTypes, Awaiting, Over
  <1>5. OpenLog(r) /\ Leased(r) /\ Things(r, "none", "up")
    BY <1>2, Here DEF Local
  <1>6. OpenLog(r)' /\ Leased(r)' /\ Things(r, b, "up")'
    BY <1>2, <1>3, <1>5, Views DEF storeVars, Things
  <1>7. Local(r)'
    BY <1>1, <1>3, <1>6 DEF Local
  <1>8. ~failing'[r]
    BY <1>2, Here
  <1>9. QED
    BY <1>1, <1>2, <1>3, <1>4, <1>7, <1>8, RunMoves

LEMMA RunResolvesIInv ==
  ASSUME IInv, NEW r \in Run, RunResolves(r)
  PROVE  IInv'
  <1>1. /\ Alive(r) /\ phase[r] = "running" /\ DriverOf[r] # "scripted"
        /\ phase' = [phase EXCEPT ![r] = "draining"]
        /\ barrier' = [barrier EXCEPT ![r] = Taken(r)]
        /\ UNCHANGED <<callVars, storeVars, procVars, failing, fenced, box, harness, log>>
    BY DEF RunResolves, Goto
  <1>2. Taken(r) \subseteq Call
    BY DEF Taken, CallsOf
  <1>3. /\ phase'[r] = "draining" /\ barrier'[r] = Taken(r)
        /\ \A q \in Run \ {r} : phase'[q] = phase[q] /\ barrier'[q] = barrier[q]
    BY <1>1, Here DEF RunTypes
  <1>4. RunTypes'
    BY <1>1, <1>2, Here DEF RunTypes, Awaiting
  <1>5. OpenLog(r) /\ Leased(r) /\ Things(r, "up", "up")
    BY <1>1, Here DEF Local
  <1>6. /\ OpenLog(r)' /\ Leased(r)' /\ Things(r, "up", "up")'
        /\ Taken(r)' = Taken(r)
    BY <1>1, <1>5, Views DEF storeVars, Things
  <1>7. Local(r)'
    BY <1>1, <1>3, <1>6 DEF Local
  <1>8. ~failing'[r]
    BY <1>1, Here
  <1>9. QED
    BY <1>1, <1>3, <1>4, <1>7, <1>8, RunMoves

LEMMA ThrowIInv ==
  ASSUME IInv, NEW r \in Run, Alive(r), phase[r] \in {"running", "draining"}, Throw(r),
         UNCHANGED <<callVars, storeVars, procVars, barrier, fenced, box, harness, log>>
  PROVE  IInv'
  <1>1. PICK p \in {"tearing", "rejected"}, f \in BOOLEAN :
          /\ p = "tearing" <=> f
          /\ phase' = [phase EXCEPT ![r] = p]
          /\ failing' = [failing EXCEPT ![r] = f]
    <2>1. failing = [failing EXCEPT ![r] = FALSE]
      BY Here DEF RunTypes
    <2>2. QED
      BY <2>1 DEF Throw, Goto
  <1>2. /\ phase'[r] = p /\ failing'[r] = f
        /\ \A q \in Run \ {r} : phase'[q] = phase[q] /\ failing'[q] = failing[q]
    BY <1>1, Here DEF RunTypes
  <1>3. RunTypes'
    BY <1>1, Here DEF RunTypes, Awaiting, Over
  <1>4. OpenLog(r) /\ Leased(r) /\ Things(r, "up", "up")
    BY Here DEF Local
  <1>5. OpenLog(r)' /\ Leased(r)' /\ Things(r, "up", "up")'
    BY <1>4, Views DEF storeVars, Things
  <1>6. Local(r)'
    BY <1>1, <1>2, <1>5 DEF Local
  <1>7. QED
    BY <1>1, <1>2, <1>3, <1>6, RunMoves

LEMMA RunRejectsIInv ==
  ASSUME IInv, NEW r \in Run, RunRejects(r)
  PROVE  IInv'
  BY ThrowIInv DEF RunRejects

LEMMA DrainRejectsIInv ==
  ASSUME IInv, NEW r \in Run, DrainRejects(r)
  PROVE  IInv'
  BY ThrowIInv DEF DrainRejects

LEMMA DrainedIInv ==
  ASSUME IInv, NEW r \in Run, Drained(r)
  PROVE  IInv'
  <1>1. /\ Alive(r) /\ phase[r] \in {"running", "draining"}
        /\ phase' = [phase EXCEPT ![r] = "tearing"]
        /\ UNCHANGED <<callVars, storeVars, procVars, failing, barrier, fenced, box,
                       harness, log>>
    BY DEF Drained, Goto
  <1>2. /\ phase'[r] = "tearing"
        /\ \A q \in Run \ {r} : phase'[q] = phase[q]
    BY <1>1, Here DEF RunTypes
  <1>3. RunTypes'
    BY <1>1, Here DEF RunTypes, Awaiting
  <1>4. OpenLog(r) /\ Leased(r) /\ Things(r, "up", "up")
    BY <1>1, Here DEF Local
  <1>5. AllGood(r)
    <2>1. CASE phase[r] = "running"
      BY <2>1 DEF Drained, AllGood
    <2>2. CASE phase[r] = "draining"
      <3>1. DriverOf[r] # "live" => barrier[r] = Taken(r)
        BY <2>2, Here DEF Local
      <3>2. QED
        BY <2>2, <3>1 DEF Drained, AllGood
    <2>3. QED
      BY <1>1, <2>1, <2>2
  <1>6. OpenLog(r)' /\ Leased(r)' /\ Things(r, "up", "up")' /\ AllGood(r)'
    BY <1>1, <1>4, <1>5, Views DEF storeVars, Things
  <1>7. Local(r)'
    BY <1>2, <1>6 DEF Local
  <1>8. QED
    BY <1>1, <1>2, <1>3, <1>7, RunMoves

LEMMA TornDownIInv ==
  ASSUME IInv, NEW r \in Run, TornDown(r)
  PROVE  IInv'
  <1>1. PICK p \in {"stopping", "rejected"}, b \in {"up", "down"} :
          /\ p = "stopping" <=> b = "down"
          /\ phase' = [phase EXCEPT ![r] = p]
          /\ box' = [box EXCEPT ![r] = b]
    <2>1. box[r] = "up" /\ box \in [Run -> {"none", "up", "down"}]
      BY Here DEF TornDown, Local, Things, RunTypes
    <2>2. box = [box EXCEPT ![r] = "up"]
      BY <2>1
    <2>3. QED
      BY <2>2 DEF TornDown, Goto
  <1>2. /\ Alive(r) /\ phase[r] = "tearing"
        /\ UNCHANGED <<callVars, storeVars, procVars, failing, barrier, fenced, harness, log>>
    BY DEF TornDown
  <1>3. /\ phase'[r] = p /\ box'[r] = b
        /\ \A q \in Run \ {r} : phase'[q] = phase[q] /\ box'[q] = box[q]
    BY <1>1, Here DEF RunTypes
  <1>4. RunTypes'
    BY <1>1, <1>2, Here DEF RunTypes, Awaiting, Over
  <1>5. OpenLog(r) /\ Leased(r) /\ Things(r, "up", "up") /\ (failing[r] \/ AllGood(r))
    BY <1>2, Here DEF Local
  <1>6. /\ OpenLog(r)' /\ Leased(r)' /\ Things(r, b, "up")'
        /\ failing'[r] \/ AllGood(r)'
    BY <1>2, <1>3, <1>5, Views DEF storeVars, Things
  <1>7. Local(r)'
    BY <1>1, <1>3, <1>6 DEF Local
  <1>8. QED
    BY <1>1, <1>2, <1>3, <1>4, <1>7, RunMoves

LEMMA StopRejectsIInv ==
  ASSUME IInv, NEW r \in Run, StopRejects(r)
  PROVE  IInv'
  <1>1. PICK h \in {"up", "down"} :
          /\ phase' = [phase EXCEPT ![r] = "rejected"]
          /\ harness' = [harness EXCEPT ![r] = h]
    <2>1. harness[r] = "up" /\ harness \in [Run -> {"none", "up", "down"}]
      BY Here DEF StopRejects, Local, Things, RunTypes
    <2>2. harness = [harness EXCEPT ![r] = "up"]
      BY <2>1
    <2>3. QED
      BY <2>2 DEF StopRejects, Goto
  <1>2. /\ Alive(r) /\ phase[r] = "stopping"
        /\ UNCHANGED <<callVars, storeVars, procVars, failing, barrier, fenced, box, log>>
    BY DEF StopRejects
  <1>3. /\ phase'[r] = "rejected" /\ harness'[r] = h
        /\ \A q \in Run \ {r} : phase'[q] = phase[q] /\ harness'[q] = harness[q]
    BY <1>1, Here DEF RunTypes
  <1>4. RunTypes'
    BY <1>1, <1>2, Here DEF RunTypes, Over
  <1>5. OpenLog(r) /\ Leased(r)
    BY <1>2, Here DEF Local
  <1>6. OpenLog(r)' /\ Leased(r)'
    BY <1>2, <1>5, Views DEF storeVars
  <1>7. Local(r)'
    BY <1>3, <1>6 DEF Local
  <1>8. QED
    BY <1>2, <1>3, <1>4, <1>7, RunMoves

------------------------------------------------------------------------------
(* Steps of a driver on the store.                                          *)

\* What the lease algebra does to a slot.
LEMMA Slots ==
  ASSUME NEW l \in Slot
  PROVE  /\ l.token \in Nat /\ l.exp \in Nat
         /\ l.status = "active" => l \in SessionLease
         /\ l # NoLease => l \in SessionLease
  BY DEF Slot, SessionLease, NoLease, LeaseStatus

LEMMA SlotSteps ==
  ASSUME NEW l \in Slot, NEW o \in Instance, NEW t \in Nat
  PROVE  /\ Granted(l, o, t) \in Slot /\ Granted(l, o, t) # NoLease
         /\ Granted(l, o, t).token = l.token + 1
         /\ Granted(l, o, t).status = "active"
         /\ l.status = "active" =>
              /\ Refreshed(l, t) \in Slot /\ Refreshed(l, t) # NoLease
              /\ Refreshed(l, t).token = l.token /\ Refreshed(l, t).status = "active"
              /\ Released(l) \in Slot
              /\ Released(l).token = l.token /\ Released(l).status = "released"
              /\ Reaped(l) \in Slot
              /\ Reaped(l).token = l.token /\ Reaped(l).status = "reaped"
  <1>1. /\ Granted(l, o, t) \in SessionLease
        /\ Granted(l, o, t).token = l.token + 1
        /\ Granted(l, o, t).status = "active"
    <2>1. l.token \in Nat /\ TTL \in Nat \ {0}
      BY Slots, LeaseAssumption
    <2>2. QED
      BY <2>1 DEF Granted, SessionLease, LeaseStatus
  <1>2. NoLease.status = "none"
    BY DEF NoLease
  <1>3. ASSUME l \in SessionLease, l.status = "active"
        PROVE  /\ Refreshed(l, t) \in SessionLease
               /\ Refreshed(l, t).token = l.token /\ Refreshed(l, t).status = "active"
    BY <1>3, LeaseAssumption DEF Refreshed, SessionLease
  <1>4. ASSUME l \in SessionLease
        PROVE  /\ Released(l) \in SessionLease /\ Reaped(l) \in SessionLease
               /\ Released(l).token = l.token /\ Reaped(l).token = l.token
               /\ Released(l).status = "released" /\ Reaped(l).status = "reaped"
    BY <1>4 DEF Released, Reaped, SessionLease, LeaseStatus
  <1>5. SessionLease \subseteq Slot
    BY DEF Slot
  <1>6. l.status = "active" => l \in SessionLease
    BY Slots
  <1>7. QED
    BY <1>1, <1>2, <1>3, <1>4, <1>5, <1>6

\* What the store and one run's variables are.
LEMMA StoreFacts ==
  ASSUME IInv, NEW r \in Run
  PROVE  /\ StoreTypes
         /\ SessionOf[r] \in Session /\ InstanceOf[r] \in Instance /\ r # NoRun
         /\ rec[SessionOf[r]] \in Slot /\ held[r] \in Slot
         /\ rec[SessionOf[r]].token \in Nat /\ held[r].token \in Nat
         /\ Leased(r) => held[r].token <= rec[SessionOf[r]].token
         /\ Leased(r) /\ latest[SessionOf[r]] # r
              => held[r].token < rec[SessionOf[r]].token
  <1>1. StoreTypes /\ SessionOf[r] \in Session /\ InstanceOf[r] \in Instance /\ r # NoRun
    BY SplitTypes, RunFacts DEF IInv
  <1>2. rec[SessionOf[r]] \in Slot /\ held[r] \in Slot
    BY <1>1 DEF StoreTypes
  <1>3. QED
    BY <1>1, <1>2, Slots DEF IInv, TokenOrder

\* A run that a step does not mention stays in its situation.
LEMMA OtherRun ==
  ASSUME IInv, NEW q \in Run, UNCHANGED <<callVars, fenced>>,
         phase'[q] = phase[q], failing'[q] = failing[q], barrier'[q] = barrier[q],
         box'[q] = box[q], harness'[q] = harness[q], log'[q] = log[q],
         held'[q] = held[q]
  PROVE  Local(q)'
  <1>1. barrier[q] \subseteq Call /\ Local(q)
    BY Here DEF RunTypes
  <1>2. Leased(q) <=> held'[q] # NoLease
    BY DEF Leased
  <1>3. QED
    BY <1>1, <1>2, CallsAsTheyAre, Undisturbed


LEMMA BeginIInv ==
  ASSUME IInv, NEW r \in Run, Begin(r)
  PROVE  IInv'
  <1> DEFINE s == SessionOf[r]
             l == Granted(rec[s], InstanceOf[r], now)
  <1>1. PICK p \in {"starting", "rejected"}, es \in Admitted(r) :
          /\ phase' = [phase EXCEPT ![r] = p]
          /\ \/ log' = [log EXCEPT ![r] = Append(es, "session.started")]
             \/ p = "rejected" /\ log' = [log EXCEPT ![r] = es]
    BY DEF Begin, Goto
  <1>2. /\ Alive(r) /\ phase[r] = "gating"
        /\ rec' = [rec EXCEPT ![s] = l]
        /\ held' = [held EXCEPT ![r] = l]
        /\ latest' = [latest EXCEPT ![s] = r]
        /\ UNCHANGED <<callVars, now, procVars, failing, barrier, fenced, box, harness>>
    BY DEF Begin
  <1>3. /\ StoreTypes /\ RunTypes /\ s \in Session /\ r # NoRun
        /\ rec[s] \in Slot /\ rec[s].token \in Nat
    BY StoreFacts, Here
  <1>4. /\ l \in Slot /\ l # NoLease /\ l.token = rec[s].token + 1
        /\ l.status = "active"
    <2>1. InstanceOf[r] \in Instance /\ now \in Nat
      BY StoreFacts DEF StoreTypes
    <2>2. QED
      BY <1>3, <2>1, SlotSteps
  <1> HIDE DEF l
  <1>5. Blank(r)
    BY <1>2, Here DEF Local
  <1>6. /\ phase'[r] = p /\ held'[r] = l /\ rec'[s] = l /\ latest'[s] = r
        /\ \A q \in Run \ {r} :
             phase'[q] = phase[q] /\ held'[q] = held[q] /\ log'[q] = log[q]
        /\ \A u \in Session \ {s} : rec'[u] = rec[u] /\ latest'[u] = latest[u]
    BY <1>1, <1>2, <1>3 DEF StoreTypes, RunTypes
  <1>7. TypeOK'
    <2>1. Append(es, "session.started") \in Seq(RunEvent) /\ es \in Seq(RunEvent)
      <3>1. es \in Seq(RunEvent)
        BY AdmittedType
      <3>2. QED
        BY <3>1, AppendProperties DEF RunEvent
    <2>2. RunTypes'
      <3>1. phase' \in [Run -> {"idle"} \cup Awaiting \cup Over]
        BY <1>1, <1>3 DEF RunTypes, Awaiting, Over
      <3>2. log' \in [Run -> Seq(RunEvent)]
        BY <1>1, <1>3, <2>1 DEF RunTypes
      <3>3. QED
        BY <1>2, <1>3, <3>1, <3>2 DEF RunTypes
    <2>3. StoreTypes'
      BY <1>2, <1>3, <1>4 DEF StoreTypes, procVars
    <2>4. M!TypeOK'
      BY <1>2, CallsKept
    <2>5. QED
      BY <2>2, <2>3, <2>4, SplitTypes, PTL
  <1>8. ASSUME NEW q \in Run PROVE Local(q)'
    <2>1. CASE q # r
      BY <1>2, <1>6, <2>1, OtherRun
    <2>2. CASE q = r
      <3>1. Leased(r)' /\ Things(r, "none", "none")' /\ Admitted(r)' = Admitted(r)
        BY <1>2, <1>4, <1>5, <1>6 DEF Leased, Blank, Things, Admitted
      <3>2. \/ log'[r] = Append(es, "session.started")
            \/ p = "rejected" /\ log'[r] = es
        BY <1>1, <1>3 DEF RunTypes
      <3>3. CASE log'[r] = Append(es, "session.started")
        <4>1. OpenLog(r)'
          BY <3>1, <3>3 DEF OpenLog
        <4>2. QED
          BY <1>6, <2>2, <3>1, <4>1 DEF Local
      <3>4. CASE p = "rejected" /\ log'[r] = es
        BY <1>6, <2>2, <3>1, <3>4 DEF Local
      <3>5. QED
        BY <3>2, <3>3, <3>4
    <2>3. QED
      BY <2>1, <2>2
  <1>9. FailingMeans'
    BY <1>2, <1>6, Here DEF IInv, FailingMeans
  <1>10. ProcOrder'
    BY <1>2, <1>6 DEF IInv, ProcOrder, procVars, Alive
  <1>11. TokenOrder'
    <2> SUFFICES ASSUME NEW q \in Run, Leased(q)'
                 PROVE  /\ held'[q].token <= rec'[SessionOf[q]].token
                        /\ latest'[SessionOf[q]] # q =>
                             held'[q].token < rec'[SessionOf[q]].token
      BY DEF TokenOrder
    <2>1. CASE q = r
      BY <1>3, <1>4, <1>6, <2>1 DEF s
    <2>2. CASE q # r
      <3>1. held'[q] = held[q] /\ Leased(q)
        BY <1>6, <2>2 DEF Leased
      <3>2. /\ held[q].token <= rec[SessionOf[q]].token
            /\ latest[SessionOf[q]] # q => held[q].token < rec[SessionOf[q]].token
            /\ held[q].token \in Nat /\ rec[SessionOf[q]].token \in Nat
            /\ SessionOf[q] \in Session
        BY <3>1, StoreFacts
      <3>3. CASE SessionOf[q] = s
        BY <1>3, <1>4, <1>6, <3>1, <3>2, <3>3
      <3>4. CASE SessionOf[q] # s
        BY <1>6, <3>1, <3>2, <3>4
      <3>5. QED
        BY <3>3, <3>4
    <2>3. QED
      BY <2>1, <2>2
  <1>12. ReturnedIsFenced'
    <2> SUFFICES ASSUME NEW q \in Run, phase'[q] = "returned"
                 PROVE  Fenced(rec'[SessionOf[q]], held'[q])
      BY DEF ReturnedIsFenced
    <2>1. q # r /\ phase[q] = "returned" /\ held'[q] = held[q]
      BY <1>6
    <2>2. Leased(q) /\ Fenced(rec[SessionOf[q]], held[q])
      BY <2>1, Here DEF IInv, ReturnedIsFenced, Local, Closed
    <2>3. CASE SessionOf[q] = s
      <3>1. held[q].token <= rec[s].token /\ held[q].token \in Nat
        BY <2>2, <2>3, StoreFacts
      <3>2. rec'[s].token > held'[q].token
        BY <1>3, <1>4, <1>6, <2>1, <3>1
      <3>3. QED
        BY <2>3, <3>2 DEF Fenced
    <2>4. CASE SessionOf[q] # s
      BY <1>6, <2>1, <2>2, <2>4, StoreFacts
    <2>5. QED
      BY <2>3, <2>4
  <1>13. TokenCounts'
    <2>1. r \notin Grantees(s)
      BY <1>5 DEF Grantees, Blank
    <2>2. Grantees(s)' = Grantees(s) \cup {r}
      BY <1>4, <1>6 DEF Grantees, Leased
    <2>3. IsFiniteSet(Grantees(s))
      BY DriverAssumption, FS_Subset DEF Grantees
    <2>4. Cardinality(Grantees(s)') = Cardinality(Grantees(s)) + 1
      BY <2>1, <2>2, <2>3, FS_AddElement
    <2>5. Cardinality(Grantees(s)) \in Nat
      BY <2>3, FS_CardinalityType
    <2>6. rec'[s].token <= Cardinality(Grantees(s)')
      BY <1>3, <1>4, <1>6, <2>4, <2>5 DEF IInv, TokenCounts
    <2>7. ASSUME NEW u \in Session \ {s}
          PROVE  rec'[u].token <= Cardinality(Grantees(u)')
      <3>1. Grantees(u)' = Grantees(u)
        BY <1>6 DEF Grantees, Leased
      <3>2. QED
        BY <1>6, <3>1 DEF IInv, TokenCounts
    <2>8. QED
      BY <2>6, <2>7 DEF TokenCounts
  <1>14. ReleasedMeansEnded'
    <2> SUFFICES ASSUME NEW u \in Session, rec'[u].status = "released"
                 PROVE  latest'[u] # NoRun /\ phase'[latest'[u]] = "returned"
      BY DEF ReleasedMeansEnded
    <2>1. u # s /\ rec'[u] = rec[u] /\ latest'[u] = latest[u]
      BY <1>4, <1>6
    <2>2. latest[u] # NoRun /\ phase[latest[u]] = "returned"
      BY <2>1 DEF IInv, ReleasedMeansEnded
    <2>3. latest[u] \in Run \ {r}
      BY <1>2, <1>3, <2>2 DEF StoreTypes
    <2>4. QED
      BY <1>6, <2>1, <2>2, <2>3
  <1>15. ReapAccounted'
    <2> SUFFICES ASSUME NEW u \in Session, rec'[u].status = "reaped"
                 PROVE  \/ <<u, rec'[u].token>> \in reapLog'
                        \/ \E i \in Instance : /\ proc'[i] \in {"reaping", "dead"}
                                               /\ <<u, rec'[u].token>> \in unlogged'[i]
      BY DEF ReapAccounted
    <2>1. rec'[u] = rec[u]
      BY <1>4, <1>6
    <2>2. QED
      BY <1>2, <2>1 DEF IInv, ReapAccounted, procVars
  <1>16. MP!IInv'
    BY <1>2, CallsKept
  <1>17. QED
    BY <1>7, <1>8, <1>9, <1>10, <1>11, <1>12, <1>13, <1>14, <1>15, <1>16 DEF IInv


\* stop resolved and the end could not be journaled, or only just.
LEMMA EndedInVainIInv ==
  ASSUME IInv, NEW r \in Run, Ended(r), phase' = [phase EXCEPT ![r] = "rejected"],
         UNCHANGED rec
  PROVE  IInv'
  <1>1. /\ Alive(r) /\ phase[r] = "stopping" /\ ~failing[r]
        /\ harness' = [harness EXCEPT ![r] = "down"]
        /\ \/ log' = [log EXCEPT ![r] = Append(@, "session.ended")]
           \/ UNCHANGED log
        /\ UNCHANGED <<callVars, storeVars, procVars, failing, barrier, fenced, box>>
    BY DEF Ended, storeVars
  <1>2. RunTypes /\ OpenLog(r) /\ Leased(r) /\ Things(r, "down", "up") /\ AllGood(r)
    BY <1>1, Here DEF Local
  <1>3. /\ phase'[r] = "rejected" /\ harness'[r] = "down"
        /\ \A q \in Run \ {r} :
             phase'[q] = phase[q] /\ harness'[q] = harness[q] /\ log'[q] = log[q]
    BY <1>1, <1>2 DEF RunTypes
  <1>4. RunTypes'
    <2>1. log[r] \in Seq(RunEvent) /\ "session.ended" \in RunEvent
      BY <1>2 DEF RunTypes, RunEvent
    <2>2. Append(log[r], "session.ended") \in Seq(RunEvent)
      BY <2>1, AppendProperties
    <2>3. QED
      BY <1>1, <1>2, <2>2 DEF RunTypes, Over
  <1>5. Local(r)'
    <2>1. /\ Leased(r)' /\ Things(r, "down", "down")' /\ AllGood(r)'
          /\ Admitted(r)' = Admitted(r)
      BY <1>1, <1>2, <1>3, Views DEF storeVars, Things
    <2>2. CASE log'[r] = Append(log[r], "session.ended")
      <3>1. ClosedLog(r)'
        BY <1>2, <2>1, <2>2 DEF OpenLog, ClosedLog
      <3>2. QED
        BY <1>3, <2>1, <3>1 DEF Local, Closed
    <2>3. CASE log'[r] = log[r]
      <3>1. OpenLog(r)'
        BY <1>2, <2>1, <2>3 DEF OpenLog
      <3>2. QED
        BY <1>3, <2>1, <3>1 DEF Local
    <2>4. QED
      BY <1>1, <1>2, <2>2, <2>3 DEF RunTypes
  <1>6. QED
    BY <1>1, <1>3, <1>4, <1>5, RunMoves

\* session.ended is journaled and the lease given back, if it still is the run's.
LEMMA EndedWellIInv ==
  ASSUME IInv, NEW r \in Run, Ended(r), phase' = [phase EXCEPT ![r] = "returned"]
  PROVE  IInv'
  <1> DEFINE s == SessionOf[r]
             ours == Releasable(rec[s], held[r])
  <1>1. RunTypes /\ StoreTypes /\ s \in Session /\ r # NoRun
    BY Here, StoreFacts
  <1>2. /\ Alive(r) /\ phase[r] = "stopping" /\ ~failing[r]
        /\ harness' = [harness EXCEPT ![r] = "down"]
        /\ log' = [log EXCEPT ![r] = Append(@, "session.ended")]
        /\ rec' = [rec EXCEPT ![s] = IF ours THEN Released(@) ELSE @]
        /\ UNCHANGED <<callVars, now, held, latest, procVars, failing, barrier, fenced, box>>
    <2>1. phase'[r] = "returned"
      BY <1>1 DEF RunTypes
    <2>2. phase' # [phase EXCEPT ![r] = "rejected"]
      BY <1>1, <2>1 DEF RunTypes
    <2>3. QED
      BY <2>2 DEF Ended, Goto
  <1>3. OpenLog(r) /\ Leased(r) /\ Things(r, "down", "up") /\ AllGood(r)
    BY <1>2, Here DEF Local
  <1>4. /\ phase'[r] = "returned" /\ harness'[r] = "down"
        /\ log'[r] = Append(log[r], "session.ended")
        /\ \A q \in Run \ {r} :
             phase'[q] = phase[q] /\ harness'[q] = harness[q] /\ log'[q] = log[q]
    BY <1>1, <1>2 DEF RunTypes
  <1>5. /\ rec[s] \in Slot
        /\ ours => rec[s].status = "active"
        /\ rec'[s] = IF ours THEN Released(rec[s]) ELSE rec[s]
        /\ \A u \in Session \ {s} : rec'[u] = rec[u]
    BY <1>1, <1>2 DEF StoreTypes, Releasable
  <1> HIDE DEF ours
  <1>6. /\ rec'[s] \in Slot /\ rec'[s].token = rec[s].token
        /\ ours => rec'[s].status = "released"
        /\ ~ours => rec'[s] = rec[s]
    <2>1. now \in Nat /\ InstanceOf[r] \in Instance
      BY <1>1, StoreFacts DEF StoreTypes
    <2>2. CASE ours
      <3>1. /\ Released(rec[s]) \in Slot /\ Released(rec[s]).token = rec[s].token
            /\ Released(rec[s]).status = "released"
        BY <1>5, <2>1, <2>2, SlotSteps
      <3>2. QED
        BY <1>5, <2>2, <3>1
    <2>3. CASE ~ours
      BY <1>5, <2>3
    <2>4. QED
      BY <2>2, <2>3
  <1>7. TypeOK'
    <2>1. RunTypes'
      <3>1. log[r] \in Seq(RunEvent) /\ "session.ended" \in RunEvent
        BY <1>1 DEF RunTypes, RunEvent
      <3>2. Append(log[r], "session.ended") \in Seq(RunEvent)
        BY <3>1, AppendProperties
      <3>3. QED
        BY <1>1, <1>2, <3>2 DEF RunTypes, Over
    <2>2. StoreTypes'
      <3>1. rec' \in [Session -> Slot]
        <4>1. rec' = [rec EXCEPT ![s] = rec'[s]]
          BY <1>1, <1>2, <1>5 DEF StoreTypes
        <4>2. QED
          BY <1>1, <1>6, <4>1 DEF StoreTypes
      <3>2. QED
        BY <1>1, <1>2, <3>1 DEF StoreTypes, procVars
    <2>3. M!TypeOK'
      BY <1>2, CallsKept
    <2>4. QED
      BY <2>1, <2>2, <2>3, SplitTypes, PTL
  <1>8. ASSUME NEW q \in Run PROVE Local(q)'
    <2>1. CASE q # r
      BY <1>2, <1>4, <2>1, OtherRun
    <2>2. CASE q = r
      <3>1. /\ Leased(r)' /\ Things(r, "down", "down")' /\ AllGood(r)'
            /\ Admitted(r)' = Admitted(r)
        BY <1>2, <1>3, <1>4, Views DEF Things
      <3>2. ClosedLog(r)'
        BY <1>3, <1>4, <3>1 DEF OpenLog, ClosedLog
      <3>3. QED
        BY <1>4, <2>2, <3>1, <3>2 DEF Local, Closed
    <2>3. QED
      BY <2>1, <2>2
  <1>9. FailingMeans'
    BY <1>2, <1>4, Here DEF FailingMeans
  <1>10. ProcOrder'
    BY <1>2, <1>4 DEF IInv, ProcOrder, procVars, Alive
  <1>11. \A u \in Session : rec'[u].token = rec[u].token
    BY <1>5, <1>6
  <1>12. TokenOrder'
    BY <1>2, <1>11, StoreFacts DEF IInv, TokenOrder, Leased
  <1>13. ReturnedIsFenced'
    <2> SUFFICES ASSUME NEW q \in Run, phase'[q] = "returned"
                 PROVE  Fenced(rec'[SessionOf[q]], held[q])
      BY <1>2 DEF ReturnedIsFenced
    <2>1. CASE q = r
      <3>1. CASE ours
        BY <1>6, <2>1, <3>1 DEF Fenced
      <3>2. CASE ~ours
        <4>1. /\ held[r].token <= rec[s].token
              /\ held[r].token \in Nat /\ rec[s].token \in Nat
          BY <1>3, StoreFacts
        <4>2. rec[s].token # held[r].token \/ rec[s].status # "active"
          BY <3>2 DEF ours, Releasable
        <4>3. rec[s].token > held[r].token \/ rec[s].status # "active"
          BY <4>1, <4>2
        <4>4. QED
          BY <1>6, <2>1, <3>2, <4>3 DEF Fenced
      <3>3. QED
        BY <3>1, <3>2
    <2>2. CASE q # r
      <3>1. Fenced(rec[SessionOf[q]], held[q])
        BY <1>4, <2>2 DEF IInv, ReturnedIsFenced
      <3>2. CASE SessionOf[q] = s
        BY <1>6, <3>1, <3>2 DEF Fenced
      <3>3. CASE SessionOf[q] # s
        BY <1>5, <3>1, <3>3, StoreFacts
      <3>4. QED
        BY <3>2, <3>3
    <2>3. QED
      BY <2>1, <2>2
  <1>14. TokenCounts'
    <2>1. \A u : Grantees(u)' = Grantees(u)
      BY <1>2 DEF Grantees, Leased
    <2>2. QED
      BY <1>11, <2>1 DEF IInv, TokenCounts
  <1>15. ReleasedMeansEnded'
    <2> SUFFICES ASSUME NEW u \in Session, rec'[u].status = "released"
                 PROVE  latest[u] # NoRun /\ phase'[latest[u]] = "returned"
      BY <1>2 DEF ReleasedMeansEnded
    <2>1. CASE u = s /\ ours
      <3>1. held[r].token = rec[s].token /\ rec[s].token \in Nat
        BY <2>1, StoreFacts DEF ours, Releasable
      <3>2. latest[s] = r
        BY <1>3, <3>1, StoreFacts
      <3>3. QED
        BY <1>1, <1>4, <2>1, <3>2
    <2>2. CASE ~(u = s /\ ours)
      <3>1. rec'[u] = rec[u]
        BY <1>5, <1>6, <2>2
      <3>2. latest[u] # NoRun /\ phase[latest[u]] = "returned"
        BY <3>1 DEF IInv, ReleasedMeansEnded
      <3>3. latest[u] \in Run \ {r}
        BY <1>1, <1>2, <3>2 DEF StoreTypes
      <3>4. QED
        BY <1>4, <3>2, <3>3
    <2>3. QED
      BY <2>1, <2>2
  <1>16. ReapAccounted'
    <2> SUFFICES ASSUME NEW u \in Session, rec'[u].status = "reaped"
                 PROVE  \/ <<u, rec'[u].token>> \in reapLog'
                        \/ \E i \in Instance : /\ proc'[i] \in {"reaping", "dead"}
                                               /\ <<u, rec'[u].token>> \in unlogged'[i]
      BY DEF ReapAccounted
    <2>1. rec'[u] = rec[u]
      BY <1>5, <1>6
    <2>2. QED
      BY <1>2, <2>1 DEF IInv, ReapAccounted, procVars
  <1>17. MP!IInv'
    BY <1>2, CallsKept
  <1>18. QED
    BY <1>7, <1>8, <1>9, <1>10, <1>12, <1>13, <1>14, <1>15, <1>16, <1>17 DEF IInv

LEMMA EndedIInv ==
  ASSUME IInv, NEW r \in Run, Ended(r)
  PROVE  IInv'
  <1>1. \/ phase' = [phase EXCEPT ![r] = "returned"]
        \/ phase' = [phase EXCEPT ![r] = "rejected"] /\ UNCHANGED rec
    BY DEF Ended, Goto
  <1>2. QED
    BY <1>1, EndedInVainIInv, EndedWellIInv

------------------------------------------------------------------------------
(* Steps of a process, and of the clock.                                    *)

\* Such a step does nothing to the runs, and at most marks leases as reaped.
LEMMA ProcessMoves ==
  ASSUME IInv, UNCHANGED <<callVars, held, latest, runVars>>,
         StoreTypes', ProcOrder', ReapAccounted',
         \A s \in Session : /\ rec'[s].token = rec[s].token
                            /\ rec'[s] = rec[s] \/ rec'[s].status = "reaped"
  PROVE  IInv'
  <1>1. MP!IInv' /\ M!TypeOK'
    BY CallsKept
  <1>2. TypeOK'
    <2>1. RunTypes'
      BY SplitTypes DEF IInv, RunTypes, runVars
    <2>2. QED
      BY <1>1, <2>1, SplitTypes, PTL
  <1>3. ASSUME NEW q \in Run PROVE Local(q)'
    BY OtherRun DEF runVars
  <1>4. FailingMeans'
    BY DEF IInv, FailingMeans, runVars
  <1>5. TokenOrder' /\ TokenCounts'
    <2>1. TokenOrder'
      BY RunFacts DEF IInv, TokenOrder, Leased
    <2>2. \A s : Grantees(s)' = Grantees(s)
      BY DEF Grantees, Leased
    <2>3. TokenCounts'
      BY <2>2 DEF IInv, TokenCounts
    <2>4. QED
      BY <2>1, <2>3
  <1>6. ReturnedIsFenced'
    <2> SUFFICES ASSUME NEW q \in Run, phase'[q] = "returned"
                 PROVE  Fenced(rec'[SessionOf[q]], held[q])
      BY DEF ReturnedIsFenced
    <2>1. Fenced(rec[SessionOf[q]], held[q]) /\ SessionOf[q] \in Session
      BY RunFacts DEF IInv, ReturnedIsFenced, runVars
    <2>2. QED
      BY <2>1 DEF Fenced
  <1>7. ReleasedMeansEnded'
    BY DEF IInv, ReleasedMeansEnded, runVars
  <1>8. QED
    BY <1>1, <1>2, <1>3, <1>4, <1>5, <1>6, <1>7 DEF IInv

LEMMA BootIInv ==
  ASSUME IInv, NEW i \in Instance, Boot(i)
  PROVE  IInv'
  <1> DEFINE gone == {s \in Session : Expired(rec[s], now)}
             up == IF gone = {} THEN "up" ELSE "reaping"
  <1>1. /\ proc[i] = "off"
        /\ rec' = [s \in Session |-> IF s \in gone THEN Reaped(rec[s]) ELSE rec[s]]
        /\ unlogged' = [unlogged EXCEPT ![i] = {<<s, rec[s].token>> : s \in gone}]
        /\ proc' = [proc EXCEPT ![i] = up]
        /\ UNCHANGED <<callVars, now, held, latest, reapLog, runVars>>
    BY DEF Boot
  <1>2. StoreTypes
    BY SplitTypes DEF IInv
  <1>3. ASSUME NEW s \in Session
        PROVE  /\ rec'[s] \in Slot /\ rec'[s].token = rec[s].token /\ rec[s].token \in Nat
               /\ s \in gone => rec'[s].status = "reaped"
               /\ s \notin gone => rec'[s] = rec[s]
    <2>1. rec[s] \in Slot /\ rec[s].token \in Nat /\ now \in Nat
      BY <1>2, Slots DEF StoreTypes
    <2>2. CASE s \in gone
      <3>1. rec[s].status = "active" /\ rec'[s] = Reaped(rec[s])
        BY <1>1, <2>2 DEF Expired
      <3>2. QED
        BY <2>1, <2>2, <3>1, SlotSteps
    <2>3. CASE s \notin gone
      <3>1. rec'[s] = rec[s]
        BY <1>1, <2>3
      <3>2. QED
        BY <2>1, <2>3, <3>1
    <2>4. QED
      BY <2>2, <2>3
  <1>4. proc'[i] = up /\ unlogged'[i] = {<<s, rec[s].token>> : s \in gone}
    BY <1>1, <1>2 DEF StoreTypes
  <1>5. \A j \in Instance \ {i} : proc'[j] = proc[j] /\ unlogged'[j] = unlogged[j]
    BY <1>1, <1>2 DEF StoreTypes
  <1>6. gone \subseteq Session /\ (gone = {} \/ up = "reaping") /\ up \in {"up", "reaping"}
    OBVIOUS
  <1> HIDE DEF gone, up
  <1>7. StoreTypes'
    <2>1. rec' \in [Session -> Slot]
      <3>1. \A s \in Session : rec'[s] \in Slot
        BY <1>3
      <3>2. QED
        BY <1>1, <3>1
    <2>2. {<<s, rec[s].token>> : s \in gone} \subseteq Session \X Nat
      BY <1>3, <1>6
    <2>3. QED
      BY <1>1, <1>2, <1>6, <2>1, <2>2 DEF StoreTypes
  <1>8. ProcOrder'
    <2> SUFFICES ASSUME NEW q \in Run, proc'[InstanceOf[q]] \in {"off", "reaping"}
                 PROVE  phase'[q] = "idle"
      BY DEF ProcOrder
    <2>1. proc[InstanceOf[q]] \in {"off", "reaping"}
      BY <1>1, <1>5, RunFacts
    <2>2. QED
      BY <1>1, <2>1 DEF IInv, ProcOrder, runVars
  <1>9. ReapAccounted'
    <2> SUFFICES ASSUME NEW s \in Session, rec'[s].status = "reaped"
                 PROVE  \/ <<s, rec'[s].token>> \in reapLog'
                        \/ \E j \in Instance : /\ proc'[j] \in {"reaping", "dead"}
                                               /\ <<s, rec'[s].token>> \in unlogged'[j]
      BY DEF ReapAccounted
    <2>1. CASE s \in gone
      <3>1. proc'[i] = "reaping" /\ <<s, rec[s].token>> \in unlogged'[i]
        BY <1>4, <1>6, <2>1
      <3>2. QED
        BY <1>3, <3>1
    <2>2. CASE s \notin gone
      <3>1. rec'[s] = rec[s]
        BY <1>3, <2>2
      <3>2. \/ <<s, rec[s].token>> \in reapLog
            \/ \E j \in Instance : /\ proc[j] \in {"reaping", "dead"}
                                   /\ <<s, rec[s].token>> \in unlogged[j]
        BY <3>1 DEF IInv, ReapAccounted
      <3>3. CASE <<s, rec[s].token>> \in reapLog
        BY <1>1, <3>1, <3>3
      <3>4. ASSUME NEW j \in Instance, proc[j] \in {"reaping", "dead"},
                   <<s, rec[s].token>> \in unlogged[j]
            PROVE  proc'[j] \in {"reaping", "dead"} /\ <<s, rec'[s].token>> \in unlogged'[j]
        BY <1>1, <1>5, <3>1, <3>4
      <3>5. QED
        BY <3>2, <3>3, <3>4
    <2>3. QED
      BY <2>1, <2>2
  <1>10. QED
    BY <1>1, <1>3, <1>7, <1>8, <1>9, ProcessMoves

LEMMA LogReapIInv ==
  ASSUME IInv, NEW i \in Instance, LogReap(i)
  PROVE  IInv'
  <1>1. PICK l \in unlogged[i] :
          /\ proc[i] = "reaping"
          /\ unlogged' = [unlogged EXCEPT ![i] = @ \ {l}]
          /\ reapLog' = reapLog \cup {l}
          /\ proc' = [proc EXCEPT ![i] = IF unlogged'[i] = {} THEN "up" ELSE "reaping"]
          /\ UNCHANGED <<callVars, storeVars, runVars>>
    BY DEF LogReap
  <1>2. StoreTypes
    BY SplitTypes DEF IInv
  <1>3. /\ unlogged'[i] = unlogged[i] \ {l}
        /\ proc'[i] = IF unlogged'[i] = {} THEN "up" ELSE "reaping"
        /\ \A j \in Instance \ {i} : proc'[j] = proc[j] /\ unlogged'[j] = unlogged[j]
    BY <1>1, <1>2 DEF StoreTypes
  <1>4. StoreTypes'
    <2>1. unlogged[i] \subseteq Session \X Nat
      BY <1>2 DEF StoreTypes
    <2>2. unlogged' \in [Instance -> SUBSET (Session \X Nat)]
      BY <1>1, <1>2, <2>1 DEF StoreTypes
    <2>3. proc' \in [Instance -> {"off", "reaping", "up", "dead"}]
      BY <1>1, <1>2 DEF StoreTypes
    <2>4. QED
      BY <1>1, <1>2, <2>1, <2>2, <2>3 DEF StoreTypes, storeVars
  <1>5. ProcOrder'
    <2> SUFFICES ASSUME NEW q \in Run, proc'[InstanceOf[q]] \in {"off", "reaping"}
                 PROVE  phase'[q] = "idle"
      BY DEF ProcOrder
    <2>1. proc[InstanceOf[q]] \in {"off", "reaping"}
      BY <1>1, <1>3, RunFacts
    <2>2. QED
      BY <1>1, <2>1 DEF IInv, ProcOrder, runVars
  <1>6. ReapAccounted'
    <2> SUFFICES ASSUME NEW s \in Session, rec[s].status = "reaped"
                 PROVE  \/ <<s, rec[s].token>> \in reapLog'
                        \/ \E j \in Instance : /\ proc'[j] \in {"reaping", "dead"}
                                               /\ <<s, rec[s].token>> \in unlogged'[j]
      BY <1>1 DEF ReapAccounted, storeVars
    <2> DEFINE e == <<s, rec[s].token>>
    <2>1. \/ e \in reapLog
          \/ \E j \in Instance : proc[j] \in {"reaping", "dead"} /\ e \in unlogged[j]
      BY DEF IInv, ReapAccounted
    <2> HIDE DEF e
    <2>2. CASE e \in reapLog
      BY <1>1, <2>2 DEF e
    <2>3. ASSUME NEW j \in Instance, proc[j] \in {"reaping", "dead"}, e \in unlogged[j]
          PROVE  e \in reapLog' \/ (proc'[j] \in {"reaping", "dead"} /\ e \in unlogged'[j])
      <3>1. CASE j # i
        BY <1>3, <2>3, <3>1
      <3>2. CASE j = i /\ e = l
        BY <1>1, <3>2
      <3>3. CASE j = i /\ e # l
        <4>1. e \in unlogged'[i]
          BY <1>3, <2>3, <3>3
        <4>2. QED
          BY <1>3, <3>3, <4>1
      <3>4. QED
        BY <3>1, <3>2, <3>3
    <2>4. QED
      BY <2>1, <2>2, <2>3 DEF e
  <1>7. QED
    BY <1>1, <1>4, <1>5, <1>6, ProcessMoves DEF storeVars

LEMMA CrashIInv ==
  ASSUME IInv, NEW i \in Instance, Crash(i)
  PROVE  IInv'
  <1>1. /\ proc[i] \in {"reaping", "up"}
        /\ proc' = [proc EXCEPT ![i] = "dead"]
        /\ UNCHANGED <<callVars, storeVars, unlogged, reapLog, runVars>>
    BY DEF Crash
  <1>2. StoreTypes
    BY SplitTypes DEF IInv
  <1>3. proc'[i] = "dead" /\ \A j \in Instance \ {i} : proc'[j] = proc[j]
    BY <1>1, <1>2 DEF StoreTypes
  <1>4. StoreTypes'
    BY <1>1, <1>2 DEF StoreTypes, storeVars
  <1>5. ProcOrder'
    <2> SUFFICES ASSUME NEW q \in Run, proc'[InstanceOf[q]] \in {"off", "reaping"}
                 PROVE  phase'[q] = "idle"
      BY DEF ProcOrder
    <2>1. proc[InstanceOf[q]] \in {"off", "reaping"}
      BY <1>3, RunFacts
    <2>2. QED
      BY <1>1, <2>1 DEF IInv, ProcOrder, runVars
  <1>6. ReapAccounted'
    <2> SUFFICES ASSUME NEW s \in Session, rec[s].status = "reaped"
                 PROVE  \/ <<s, rec[s].token>> \in reapLog
                        \/ \E j \in Instance : /\ proc'[j] \in {"reaping", "dead"}
                                               /\ <<s, rec[s].token>> \in unlogged[j]
      BY <1>1 DEF ReapAccounted, storeVars
    <2>1. \/ <<s, rec[s].token>> \in reapLog
          \/ \E j \in Instance : /\ proc[j] \in {"reaping", "dead"}
                                 /\ <<s, rec[s].token>> \in unlogged[j]
      BY DEF IInv, ReapAccounted
    <2>2. \A j \in Instance : proc[j] \in {"reaping", "dead"} => proc'[j] \in {"reaping", "dead"}
      BY <1>3
    <2>3. QED
      BY <2>1, <2>2
  <1>7. QED
    BY <1>1, <1>4, <1>5, <1>6, ProcessMoves DEF storeVars

LEMMA TickIInv ==
  ASSUME IInv, Tick
  PROVE  IInv'
  <1>1. StoreTypes'
    BY SplitTypes DEF IInv, Tick, StoreTypes, procVars
  <1>2. ProcOrder' /\ ReapAccounted'
    BY DEF IInv, Tick, ProcOrder, ReapAccounted, procVars, runVars
  <1>3. QED
    BY <1>1, <1>2, ProcessMoves DEF Tick

------------------------------------------------------------------------------
(* Steps of a call.                                                         *)

LEMMA EvaluateIsNext ==
  ASSUME NEW c \in Call, NEW v \in M!Decision, M!Evaluate(c, v)
  PROVE  MP!Next
  <1>1. MP!Evaluate(c, v)
    BY DEF M!Evaluate, M!Effective, M!MediateEffective, M!GateEffective, M!JournalThrows,
           M!Journals, M!StartExec, M!Deliver, M!Goto, M!CallKind, M!GateKind,
           MP!Evaluate, MP!Effective, MP!MediateEffective, MP!GateEffective, MP!JournalThrows,
           MP!Journals, MP!StartExec, MP!Deliver, MP!Goto, MP!CallKind, MP!GateKind
  <1>2. v \in MP!Decision
    BY DEF M!Decision, MP!Decision
  <1>3. QED
    BY <1>1, <1>2 DEF MP!Next

LEMMA CallStepIsNext ==
  ASSUME NEW c \in Call,
         \/ M!Posted(c) \/ M!PostFails(c)
         \/ \E a \in {"approve", "deny"} : M!Answered(c, a)
         \/ M!NoAnswer(c)
         \/ M!ExecReturns(c) \/ M!ExecFails(c)
         \/ M!Delivered(c)
  PROVE  MP!Next
  <1>1. MP!CallStep(c)
    <2>1. CASE \/ M!Posted(c) \/ M!PostFails(c) \/ M!ExecReturns(c) \/ M!ExecFails(c)
               \/ M!Delivered(c)
      BY <2>1 DEF M!Posted, M!PostFails, M!ExecReturns, M!ExecFails, M!Delivered,
           M!JournalThrows, M!Journals, M!Deliver, M!Goto,
           MP!Posted, MP!PostFails, MP!ExecReturns, MP!ExecFails, MP!Delivered,
           MP!JournalThrows, MP!Journals, MP!Deliver, MP!Goto, MP!CallStep
    <2>2. CASE \E a \in {"approve", "deny"} : M!Answered(c, a)
      BY <2>2 DEF M!Answered, M!Effective, M!MediateEffective, M!GateEffective,
           M!JournalThrows, M!Journals, M!StartExec, M!Deliver, M!Goto, M!GateKind,
           MP!Answered, MP!Effective, MP!MediateEffective, MP!GateEffective,
           MP!JournalThrows, MP!Journals, MP!StartExec, MP!Deliver, MP!Goto, MP!GateKind,
           MP!CallStep
    <2>3. CASE M!NoAnswer(c)
      BY <2>3 DEF M!NoAnswer, M!Effective, M!MediateEffective, M!GateEffective,
           M!JournalThrows, M!Journals, M!StartExec, M!Deliver, M!Goto, M!GateKind,
           MP!NoAnswer, MP!Effective, MP!MediateEffective, MP!GateEffective,
           MP!JournalThrows, MP!Journals, MP!StartExec, MP!Deliver, MP!Goto, MP!GateKind,
           MP!CallStep
    <2>4. QED
      BY <2>1, <2>2, <2>3
  <1>2. QED
    BY <1>1 DEF MP!Next

\* Where a step puts the call.
LEMMA EffectiveMoves ==
  ASSUME pc = [d \in Call |-> pc[d]], NEW c \in Call, NEW es, NEW eff, M!Effective(c, es, eff)
  PROVE  /\ pc'[c] \in {"threw", "executing", "delivering"}
         /\ \A d \in Call \ {c} : pc'[d] = pc[d]
  <1>1. \E p \in {"threw", "executing", "delivering"} : pc' = [pc EXCEPT ![c] = p]
    BY DEF M!Effective, M!MediateEffective, M!GateEffective, M!JournalThrows,
           M!StartExec, M!Deliver, M!Goto
  <1>2. QED
    BY <1>1

LEMMA EvaluateMoves ==
  ASSUME pc = [d \in Call |-> pc[d]], NEW c \in Call, NEW v \in M!Decision, M!Evaluate(c, v)
  PROVE  /\ pc[c] = "idle" /\ pc'[c] \notin {"idle", "done"}
         /\ \A d \in Call \ {c} : pc'[d] = pc[d]
  <1>1. pc[c] = "idle"
    BY DEF M!Evaluate
  <1>2. CASE M!Effective(c, <<M!CallKind(v)>>, v)
    BY <1>1, <1>2, EffectiveMoves
  <1>3. CASE M!JournalThrows(c, <<M!CallKind(v)>>) \/ M!Goto(c, "posting")
    BY <1>1, <1>3 DEF M!JournalThrows, M!Goto
  <1>4. QED
    BY <1>2, <1>3 DEF M!Evaluate

LEMMA HandleMoves ==
  ASSUME pc = [d \in Call |-> pc[d]], NEW c \in Call, Handle(c)
  PROVE  /\ pc[c] \notin {"idle", "done"} /\ pc'[c] \notin {"idle", "done"}
         /\ \A d \in Call \ {c} : pc'[d] = pc[d]
  <1>1. CASE M!Posted(c) \/ M!PostFails(c) \/ M!ExecFails(c)
    BY <1>1 DEF M!Posted, M!PostFails, M!ExecFails, M!Goto
  <1>2. CASE \/ \E a \in {"approve", "deny"} : M!Answered(c, a)
             \/ M!NoAnswer(c)
    <2>1. pc[c] = "awaiting" /\ \E es, eff : M!Effective(c, es, eff)
      BY <1>2 DEF M!Answered, M!NoAnswer
    <2>2. QED
      BY <2>1, EffectiveMoves
  <1>3. CASE M!ExecReturns(c)
    BY <1>3 DEF M!ExecReturns, M!JournalThrows, M!Deliver, M!Goto
  <1>4. QED
    BY <1>1, <1>2, <1>3 DEF Handle

LEMMA FinishMoves ==
  ASSUME pc = [d \in Call |-> pc[d]], NEW c \in Call, M!Delivered(c)
  PROVE  /\ pc[c] = "delivering" /\ pc'[c] \in {"done", "threw"}
         /\ \A d \in Call \ {c} : pc'[d] = pc[d]
  BY DEF M!Delivered, M!Goto


LEMMA PcType == IInv => pc = [d \in Call |-> pc[d]]
  BY SplitTypes DEF IInv, M!TypeOK, M!Suspended, M!Settled, M!Rejected

\* A step of a call leaves every run in its situation: a call is taken while
\* run() is pending or, from a live harness, when Promise.all has its calls.
LEMMA CallMoves ==
  ASSUME IInv, NEW c \in Call, MP!Next,
         pc[c] # "done", pc'[c] # "idle", \A d \in Call \ {c} : pc'[d] = pc[d],
         \/ pc[c] # "idle"
         \/ phase[RunOf[c]] = "running"
         \/ /\ phase[RunOf[c]] \in {"draining", "tearing", "stopping"}
            /\ DriverOf[RunOf[c]] = "live",
         fenced' \subseteq fenced \cup {c},
         UNCHANGED <<phase, failing, barrier, box, harness, log>>,
         \A q \in Run : (held'[q] # NoLease) <=> Leased(q)
  PROVE  /\ MP!IInv' /\ M!TypeOK'
         /\ \A q \in Run : Local(q)'
  <1>1. MP!IInv' /\ M!TypeOK'
    <2>1. MP!IInv'
      BY ModeType, MP!NextIInv DEF IInv
    <2>2. QED
      BY <2>1, CallTypes, PTL
  <1>2. \A d \in Call : Succeeded(d) => Succeeded(d)'
    BY DEF Succeeded
  <1>3. ASSUME NEW q \in Run PROVE Local(q)'
    <2>1. barrier[q] \subseteq Call /\ Local(q)
      BY Here DEF RunTypes
    <2>2. CASE q # RunOf[c] \/ pc[c] # "idle"
      <3>1. \A d \in CallsOf(q) : pc'[d] # "idle" <=> pc[d] # "idle"
        BY <2>2 DEF CallsOf
      <3>2. Taken(q)' = Taken(q)
        BY <3>1 DEF Taken, CallsOf
      <3>3. QED
        BY <1>2, <2>1, <3>2, Undisturbed
    <2>3. CASE q = RunOf[c] /\ pc[c] = "idle"
      <3>1. OpenLog(q)' <=> OpenLog(q)
        BY DEF OpenLog, Admitted
      <3>2. Leased(q)' <=> Leased(q)
        BY DEF Leased
      <3>3. \A b, h : Things(q, b, h)' <=> Things(q, b, h)
        BY DEF Things
      <3>4. CASE phase[q] = "running"
        BY <2>1, <3>1, <3>2, <3>3, <3>4 DEF Local
      <3>5. CASE phase[q] \in {"draining", "tearing", "stopping"} /\ DriverOf[q] = "live"
        <4>1. AllGood(q) => AllGood(q)'
          BY <1>2, <2>1, <3>5 DEF AllGood
        <4>2. CASE phase[q] = "draining"
          BY <2>1, <3>1, <3>2, <3>3, <3>5, <4>2 DEF Local
        <4>3. CASE phase[q] = "tearing"
          BY <2>1, <3>1, <3>2, <3>3, <4>1, <4>3 DEF Local
        <4>4. CASE phase[q] = "stopping"
          BY <2>1, <3>1, <3>2, <3>3, <4>1, <4>4 DEF Local
        <4>5. QED
          BY <3>5, <4>2, <4>3, <4>4
      <3>6. QED
        BY <2>3, <3>4, <3>5
    <2>4. QED
      BY <2>2, <2>3
  <1>4. QED
    BY <1>1, <1>3

\* A step of a call that does not touch the store.
LEMMA CallMovesOnly ==
  ASSUME IInv, MP!IInv', M!TypeOK', \A q \in Run : Local(q)',
         fenced' \subseteq Call,
         UNCHANGED <<storeVars, procVars, phase, failing, barrier, box, harness, log>>
  PROVE  IInv'
  <1>1. TypeOK'
    <2>1. StoreTypes' /\ RunTypes'
      BY SplitTypes DEF IInv, StoreTypes, RunTypes, storeVars, procVars
    <2>2. QED
      BY <2>1, SplitTypes, PTL
  <1>2. FailingMeans' /\ ProcOrder'
    BY DEF IInv, FailingMeans, ProcOrder, procVars
  <1>3. TokenOrder' /\ ReturnedIsFenced'
    BY DEF IInv, TokenOrder, ReturnedIsFenced, Leased, storeVars
  <1>4. TokenCounts'
    <2>1. \A s : Grantees(s)' = Grantees(s)
      BY DEF Grantees, Leased, storeVars
    <2>2. QED
      BY <2>1 DEF IInv, TokenCounts, storeVars
  <1>5. ReleasedMeansEnded' /\ ReapAccounted'
    BY DEF IInv, ReleasedMeansEnded, ReapAccounted, storeVars, procVars
  <1>6. QED
    BY <1>1, <1>2, <1>3, <1>4, <1>5 DEF IInv

LEMMA EmitIInv ==
  ASSUME IInv, NEW c \in Call, NEW v \in M!Decision, Emit(c, v)
  PROVE  IInv'
  <1>1. M!Evaluate(c, v) /\ UNCHANGED <<storeVars, procVars, runVars>>
    BY DEF Emit
  <1>2. MP!Next
    BY <1>1, EvaluateIsNext
  <1>3. /\ pc[c] = "idle" /\ pc'[c] \notin {"idle", "done"}
        /\ \A d \in Call \ {c} : pc'[d] = pc[d]
    BY <1>1, PcType, EvaluateMoves
  <1>4. \/ phase[RunOf[c]] = "running"
        \/ /\ phase[RunOf[c]] \in {"draining", "tearing", "stopping"}
           /\ DriverOf[RunOf[c]] = "live"
    BY DEF Emit, MayCall
  <1>5. \A q \in Run : (held'[q] # NoLease) <=> Leased(q)
    BY <1>1 DEF storeVars, Leased
  <1>6. UNCHANGED <<phase, failing, barrier, fenced, box, harness, log>>
    BY <1>1 DEF runVars
  <1>7. MP!IInv' /\ M!TypeOK' /\ \A q \in Run : Local(q)'
    BY <1>2, <1>3, <1>4, <1>5, <1>6, CallMoves
  <1>8. fenced' \subseteq Call
    BY <1>6, SplitTypes DEF IInv, RunTypes
  <1>9. QED
    BY <1>1, <1>6, <1>7, <1>8, CallMovesOnly

LEMMA HandleIInv ==
  ASSUME IInv, NEW c \in Call, Handle(c)
  PROVE  IInv'
  <1>1. UNCHANGED <<storeVars, procVars, runVars>>
    BY DEF Handle
  <1>2. MP!Next
    BY CallStepIsNext DEF Handle
  <1>3. /\ pc[c] \notin {"idle", "done"} /\ pc'[c] \notin {"idle", "done"}
        /\ \A d \in Call \ {c} : pc'[d] = pc[d]
    BY PcType, HandleMoves
  <1>4. \A q \in Run : (held'[q] # NoLease) <=> Leased(q)
    BY <1>1 DEF storeVars, Leased
  <1>5. UNCHANGED <<phase, failing, barrier, fenced, box, harness, log>>
    BY <1>1 DEF runVars
  <1>6. MP!IInv' /\ M!TypeOK' /\ \A q \in Run : Local(q)'
    BY <1>2, <1>3, <1>4, <1>5, CallMoves
  <1>7. fenced' \subseteq Call
    BY <1>5, SplitTypes DEF IInv, RunTypes
  <1>8. QED
    BY <1>1, <1>5, <1>6, <1>7, CallMovesOnly


\* A call that has been taken has a run that was granted a lease.
LEMMA TakenIsLeased ==
  ASSUME IInv, NEW c \in Call, pc[c] # "idle"
  PROVE  RunOf[c] \in Run /\ Leased(RunOf[c])
  <1>1. RunOf[c] \in Run /\ c \in Taken(RunOf[c])
    BY DriverAssumption DEF Taken, CallsOf
  <1>2. Local(RunOf[c]) /\ ~Blank(RunOf[c])
    BY <1>1 DEF IInv, Blank
  <1>3. QED
    BY <1>1, <1>2 DEF Local, Closed

\* deliver resolved and the lease was still the run's: it is refreshed.
LEMMA RefreshIInv ==
  ASSUME IInv, NEW c \in Call, MP!IInv', M!TypeOK', \A q \in Run : Local(q)',
         pc[c] # "idle",
         ~Fenced(rec[SessionOf[RunOf[c]]], held[RunOf[c]]),
         rec' = [rec EXCEPT ![SessionOf[RunOf[c]]] = Refreshed(rec[SessionOf[RunOf[c]]], now)],
         held' = [held EXCEPT ![RunOf[c]] = Refreshed(rec[SessionOf[RunOf[c]]], now)],
         UNCHANGED <<fenced, now, latest, procVars, phase, failing, barrier, box,
                     harness, log>>
  PROVE  IInv'
  <1> DEFINE r == RunOf[c]
             s == SessionOf[r]
             l == Refreshed(rec[s], now)
  <1>1. r \in Run /\ Leased(r) /\ StoreTypes /\ s \in Session /\ rec[s] \in Slot
        /\ rec[s].token \in Nat /\ held[r].token \in Nat
    BY TakenIsLeased, StoreFacts
  <1>2. rec[s].status = "active" /\ rec[s].token <= held[r].token
    BY <1>1 DEF Fenced
  <1>3. /\ l \in Slot /\ l # NoLease /\ l.token = rec[s].token /\ l.status = "active"
    <2>1. now \in Nat /\ InstanceOf[r] \in Instance
      BY <1>1, StoreFacts DEF StoreTypes
    <2>2. QED
      BY <1>1, <1>2, <2>1, SlotSteps
  <1> HIDE DEF l
  <1>4. /\ rec'[s] = l /\ held'[r] = l
        /\ \A u \in Session \ {s} : rec'[u] = rec[u]
        /\ \A q \in Run \ {r} : held'[q] = held[q]
    BY <1>1 DEF StoreTypes, l
  <1>5. latest[s] = r
    BY <1>1, <1>2, StoreFacts
  <1>6. TypeOK'
    <2>1. StoreTypes'
      BY <1>1, <1>3 DEF StoreTypes, procVars, l
    <2>2. RunTypes'
      BY SplitTypes DEF IInv, RunTypes
    <2>3. QED
      BY <2>1, <2>2, SplitTypes, PTL
  <1>7. FailingMeans' /\ ProcOrder'
    BY DEF IInv, FailingMeans, ProcOrder, procVars
  <1>8. \A u \in Session : rec'[u].token = rec[u].token /\ rec'[u].status = rec[u].status
    BY <1>2, <1>3, <1>4
  <1>9. \A q \in Run : /\ Leased(q)' <=> Leased(q)
                       /\ q # r => held'[q].token = held[q].token
    BY <1>1, <1>3, <1>4 DEF Leased
  <1>10. TokenOrder'
    <2> SUFFICES ASSUME NEW q \in Run, Leased(q)
                 PROVE  /\ held'[q].token <= rec'[SessionOf[q]].token
                        /\ latest[SessionOf[q]] # q =>
                             held'[q].token < rec'[SessionOf[q]].token
      BY <1>9 DEF TokenOrder
    <2>1. CASE q = r
      BY <1>1, <1>3, <1>4, <1>5, <2>1
    <2>2. CASE q # r
      BY <1>8, <1>9, <2>2, StoreFacts
    <2>3. QED
      BY <2>1, <2>2
  <1>11. ReturnedIsFenced'
    <2> SUFFICES ASSUME NEW q \in Run, phase[q] = "returned"
                 PROVE  Fenced(rec'[SessionOf[q]], held'[q])
      BY DEF ReturnedIsFenced
    <2>1. Fenced(rec[SessionOf[q]], held[q])
      BY DEF IInv, ReturnedIsFenced
    <2>2. q # r
      BY <2>1
    <2>3. QED
      BY <1>8, <1>9, <2>1, <2>2, StoreFacts DEF Fenced
  <1>12. TokenCounts'
    <2>1. \A u : Grantees(u)' = Grantees(u)
      BY <1>9 DEF Grantees
    <2>2. QED
      BY <1>8, <2>1 DEF IInv, TokenCounts
  <1>13. ReleasedMeansEnded' /\ ReapAccounted'
    BY <1>8 DEF IInv, ReleasedMeansEnded, ReapAccounted, procVars
  <1>14. QED
    BY <1>6, <1>7, <1>10, <1>11, <1>12, <1>13 DEF IInv

LEMMA FinishIInv ==
  ASSUME IInv, NEW c \in Call, Finish(c)
  PROVE  IInv'
  <1>1. /\ M!Delivered(c)
        /\ UNCHANGED <<now, latest, procVars, phase, failing, barrier, box, harness, log>>
    BY DEF Finish
  <1>2. MP!Next
    BY <1>1, CallStepIsNext
  <1>3. /\ pc[c] = "delivering" /\ pc'[c] # "idle"
        /\ \A d \in Call \ {c} : pc'[d] = pc[d]
    BY <1>1, PcType, FinishMoves
  <1>4. RunOf[c] \in Run /\ Leased(RunOf[c]) /\ fenced \subseteq Call
    BY <1>3, TakenIsLeased, SplitTypes DEF IInv, RunTypes
  <1>5. CASE /\ ~Fenced(rec[SessionOf[RunOf[c]]], held[RunOf[c]])
             /\ rec' = [rec EXCEPT ![SessionOf[RunOf[c]]] =
                          Refreshed(rec[SessionOf[RunOf[c]]], now)]
             /\ held' = [held EXCEPT ![RunOf[c]] = Refreshed(rec[SessionOf[RunOf[c]]], now)]
             /\ UNCHANGED fenced
    <2> DEFINE l == Refreshed(rec[SessionOf[RunOf[c]]], now)
    <2>1. l # NoLease
      <3>1. /\ rec[SessionOf[RunOf[c]]] \in Slot /\ now \in Nat
            /\ InstanceOf[RunOf[c]] \in Instance
        BY <1>4, StoreFacts DEF StoreTypes
      <3>2. rec[SessionOf[RunOf[c]]].status = "active"
        BY <1>5 DEF Fenced
      <3>3. QED
        BY <3>1, <3>2, SlotSteps
    <2>2. held \in [Run -> Slot] /\ held' = [held EXCEPT ![RunOf[c]] = l]
      BY <1>5, SplitTypes DEF IInv, StoreTypes
    <2> HIDE DEF l
    <2>3. \A q \in Run : (held'[q] # NoLease) <=> Leased(q)
      BY <1>4, <2>1, <2>2 DEF Leased
    <2>4. MP!IInv' /\ M!TypeOK' /\ \A q \in Run : Local(q)'
      BY <1>1, <1>2, <1>3, <1>5, <2>3, CallMoves
    <2>5. QED
      BY <1>1, <1>3, <1>5, <2>4, RefreshIInv
  <1>6. CASE UNCHANGED <<rec, held>> /\ fenced' \in {fenced, fenced \cup {c}}
    <2>1. \A q \in Run : (held'[q] # NoLease) <=> Leased(q)
      BY <1>6 DEF Leased
    <2>2. MP!IInv' /\ M!TypeOK' /\ \A q \in Run : Local(q)'
      BY <1>1, <1>2, <1>3, <1>6, <2>1, CallMoves
    <2>3. UNCHANGED storeVars /\ fenced' \subseteq Call
      BY <1>1, <1>4, <1>6 DEF storeVars
    <2>4. QED
      BY <1>1, <2>2, <2>3, CallMovesOnly
  <1>7. QED
    BY <1>5, <1>6 DEF Finish

------------------------------------------------------------------------------
(* The invariant.                                                           *)

LEMMA InitIInv == Init => IInv
  <1> SUFFICES ASSUME Init PROVE IInv
    OBVIOUS
  <1>1. MP!IInv
    <2>1. MP!Init
      BY DEF Init, M!Init, MP!Init
    <2>2. QED
      BY <2>1, ModeType, MP!InitIInv
  <1>2. TypeOK
    <2>1. M!TypeOK
      BY <1>1, CallTypes
    <2>2. StoreTypes
      BY DEF Init, StoreTypes, Slot
    <2>3. RunTypes
      BY AdmittedType DEF Init, RunTypes
    <2>4. QED
      BY <2>1, <2>2, <2>3, SplitTypes
  <1>3. ASSUME NEW r \in Run PROVE Local(r) /\ ~Leased(r)
    <2>1. Taken(r) = {}
      BY DEF Init, M!Init, Taken, CallsOf
    <2>2. QED
      BY <2>1 DEF Init, Local, Blank, Leased, Things
  <1>4. FailingMeans /\ ProcOrder /\ ReturnedIsFenced
    BY DEF Init, FailingMeans, ProcOrder, ReturnedIsFenced
  <1>5. TokenOrder
    BY <1>3 DEF TokenOrder
  <1>6. TokenCounts
    <2>1. ASSUME NEW s \in Session PROVE 0 <= Cardinality(Grantees(s))
      <3>1. IsFiniteSet(Grantees(s))
        BY DriverAssumption, FS_Subset DEF Grantees
      <3>2. QED
        BY <3>1, FS_CardinalityType
    <2>2. QED
      BY <2>1 DEF Init, TokenCounts, NoLease
  <1>7. ReleasedMeansEnded /\ ReapAccounted
    BY DEF Init, ReleasedMeansEnded, ReapAccounted, NoLease
  <1>8. QED
    BY <1>1, <1>2, <1>3, <1>4, <1>5, <1>6, <1>7 DEF IInv

LEMMA StutterIInv ==
  ASSUME IInv, UNCHANGED vars
  PROVE  IInv'
  <1>1. UNCHANGED <<callVars, now, rec, held, latest, runVars>> /\ UNCHANGED procVars
    BY DEF vars, storeVars
  <1>2. StoreTypes'
    BY <1>1, SplitTypes DEF IInv, StoreTypes, procVars
  <1>3. ProcOrder' /\ ReapAccounted'
    BY <1>1 DEF IInv, ProcOrder, ReapAccounted, procVars, runVars
  <1>4. QED
    BY <1>1, <1>2, <1>3, ProcessMoves

LEMMA NextIInv == IInv /\ [Next]_vars => IInv'
  <1> SUFFICES ASSUME IInv, [Next]_vars PROVE IInv'
    OBVIOUS
  <1>1. ASSUME NEW i \in Instance, Boot(i) \/ LogReap(i) \/ Crash(i) PROVE IInv'
    BY <1>1, BootIInv, LogReapIInv, CrashIInv
  <1>2. CASE Tick
    BY <1>2, TickIInv
  <1>3. ASSUME NEW r \in Run, DriverStep(r) PROVE IInv'
    BY <1>3, EnterIInv, RefuseIInv, ContendIInv, BeginIInv, StartedIInv, SpawnedIInv,
       RunResolvesIInv, RunRejectsIInv, DrainedIInv, DrainRejectsIInv, TornDownIInv,
       StopRejectsIInv, EndedIInv DEF DriverStep
  <1>4. ASSUME NEW c \in Call, Handle(c) \/ Finish(c) \/ \E v \in M!Decision : Emit(c, v)
        PROVE  IInv'
    BY <1>4, HandleIInv, FinishIInv, EmitIInv
  <1>5. CASE UNCHANGED vars
    BY <1>5, StutterIInv
  <1>6. QED
    BY <1>1, <1>2, <1>3, <1>4, <1>5 DEF Next

LEMMA SpecIInv == Spec => []IInv
  BY InitIInv, NextIInv, PTL DEF Spec

------------------------------------------------------------------------------
(* The promises.                                                            *)

\* The variables keep their types in every reachable state of the drivers.
THEOREM SpecTypeOK == Spec => []TypeOK
  BY SpecIInv, PTL DEF IInv

\* Journals of a run, read event by event.
LEMMA Journals ==
  ASSUME NEW es \in {<<>>, <<"verify.failed">>}
  PROVE  LET open == Append(es, "session.started")
             closed == Append(open, "session.ended")
         IN /\ Len(es) \in Nat /\ \A n \in 1..Len(es) : es[n] = "verify.failed"
            /\ Len(open) = Len(es) + 1 /\ open[Len(es) + 1] = "session.started"
            /\ Len(closed) = Len(es) + 2 /\ closed[Len(es) + 1] = "session.started"
            /\ closed[Len(es) + 2] = "session.ended"
            /\ es = <<>> => \A n \in 1..Len(closed) : closed[n] # "verify.failed"
            /\ es = <<>> => \A n \in 1..Len(open) : open[n] # "verify.failed"
  <1> DEFINE open == Append(es, "session.started")
             closed == Append(open, "session.ended")
  <1>1. es \in Seq(RunEvent) /\ Len(es) \in Nat /\ \A n \in 1..Len(es) : es[n] = "verify.failed"
    <2>1. /\ <<>> \in Seq(RunEvent) /\ Len(<<>>) = 0
          /\ <<"verify.failed">> \in Seq(RunEvent) /\ Len(<<"verify.failed">>) = 1
          /\ <<"verify.failed">>[1] = "verify.failed"
      BY MP!Tuples DEF RunEvent
    <2>2. \A n \in 1..0 : FALSE
      OBVIOUS
    <2>3. \A n \in 1..1 : n = 1
      OBVIOUS
    <2>4. CASE es = <<>>
      BY <2>1, <2>2, <2>4
    <2>5. CASE es = <<"verify.failed">>
      BY <2>1, <2>3, <2>5
    <2>6. QED
      BY <2>4, <2>5
  <1>2. /\ open \in Seq(RunEvent) /\ Len(open) = Len(es) + 1
        /\ open[Len(es) + 1] = "session.started"
        /\ \A n \in 1..Len(es) : open[n] = es[n]
    BY <1>1, AppendProperties DEF RunEvent
  <1> HIDE DEF open
  <1>3. /\ Len(closed) = Len(open) + 1 /\ closed[Len(open) + 1] = "session.ended"
        /\ \A n \in 1..Len(open) : closed[n] = open[n]
    BY <1>2, AppendProperties DEF RunEvent
  <1> HIDE DEF closed
  <1>4. /\ Len(closed) = Len(es) + 2 /\ closed[Len(es) + 2] = "session.ended"
        /\ closed[Len(es) + 1] = "session.started"
    BY <1>1, <1>2, <1>3
  <1>5. ASSUME es = <<>> PROVE Len(open) = 1 /\ Len(closed) = 2 /\ open[1] = "session.started"
                               /\ closed[1] = "session.started" /\ closed[2] = "session.ended"
    <2>1. Len(es) = 0
      BY <1>5
    <2>2. QED
      BY <1>2, <1>4, <2>1
  <1>6. es = <<>> => /\ \A n \in 1..Len(closed) : closed[n] # "verify.failed"
                     /\ \A n \in 1..Len(open) : open[n] # "verify.failed"
    <2> SUFFICES ASSUME es = <<>>
                 PROVE  /\ \A n \in 1..2 : closed[n] # "verify.failed"
                        /\ \A n \in 1..1 : open[n] # "verify.failed"
      BY <1>5
    <2>1. \A n \in 1..2 : n = 1 \/ n = 2
      OBVIOUS
    <2>2. QED
      BY <1>5, <2>1
  <1>7. QED
    BY <1>1, <1>2, <1>4, <1>6 DEF open, closed

\* session.ended stands in the journal of a run that closed, and in no other.
LEMMA EndsRead ==
  ASSUME NEW r \in Run
  PROVE  /\ OpenLog(r) \/ log[r] \in {<<>>, <<"verify.failed">>} => ~EndLogged(r)
         /\ ClosedLog(r) => /\ EndLogged(r) /\ Len(log[r]) > 1
                            /\ log[r][Len(log[r]) - 1] = "session.started"
  <1>1. ASSUME OpenLog(r) PROVE ~EndLogged(r)
    <2>1. PICK es \in {<<>>, <<"verify.failed">>} : log[r] = Append(es, "session.started")
      BY <1>1, AdmittedType DEF OpenLog
    <2>2. Len(log[r]) = Len(es) + 1 /\ log[r][Len(es) + 1] = "session.started"
      BY <2>1, Journals
    <2>3. QED
      BY <2>2 DEF EndLogged
  <1>2. ASSUME log[r] \in {<<>>, <<"verify.failed">>} PROVE ~EndLogged(r)
    <2>1. CASE log[r] = <<>>
      BY <2>1 DEF EndLogged
    <2>2. CASE log[r] = <<"verify.failed">>
      <3>1. Len(log[r]) = 1 /\ log[r][1] = "verify.failed"
        BY <2>2
      <3>2. QED
        BY <3>1 DEF EndLogged
    <2>3. QED
      BY <1>2, <2>1, <2>2
  <1>3. ASSUME ClosedLog(r)
        PROVE  /\ EndLogged(r) /\ Len(log[r]) > 1
               /\ log[r][Len(log[r]) - 1] = "session.started"
    <2>1. PICK es \in {<<>>, <<"verify.failed">>} :
            log[r] = Append(Append(es, "session.started"), "session.ended")
      BY <1>3, AdmittedType DEF ClosedLog
    <2>2. /\ Len(es) \in Nat /\ Len(log[r]) = Len(es) + 2
          /\ log[r][Len(es) + 1] = "session.started"
          /\ log[r][Len(es) + 2] = "session.ended"
      BY <2>1, Journals
    <2>3. log[r] # <<>>
      <3>1. Len(<<>>) = 0
        OBVIOUS
      <3>2. QED
        BY <2>2, <3>1
    <2>4. Len(es) + 2 - 1 = Len(es) + 1 /\ Len(es) + 2 > 1
      BY <2>2
    <2>5. QED
      BY <2>2, <2>3, <2>4 DEF EndLogged
  <1>4. QED
    BY <1>1, <1>2, <1>3

\* A call that is done was answered.
LEMMA DoneIsTold ==
  ASSUME IInv, NEW c \in Call, pc[c] = "done"
  PROVE  told[c] # "nothing"
  <1>1. MP!Local(c)
    BY DEF IInv, MP!IInv
  <1>2. QED
    BY <1>1 DEF MP!Local, MP!Situation, MP!Early, MP!Running, MP!Told, MP!Denies

\* session.ended is the whole story of a run: it follows session.started, nothing
\* of the run is left up, every call that had to end well has, and a run that
\* returned has written it.
THEOREM SpecEndedIsComplete == Spec => []EndedIsComplete
  <1>1. IInv => EndedIsComplete
    <2> SUFFICES ASSUME IInv, NEW r \in Run
                 PROVE  /\ phase[r] = "returned" => EndLogged(r)
                        /\ EndLogged(r) =>
                             /\ Len(log[r]) > 1 /\ log[r][Len(log[r]) - 1] = "session.started"
                             /\ phase[r] \in {"returned", "rejected"}
                             /\ box[r] = "down" /\ harness[r] = "down"
                             /\ \A c \in IF DriverOf[r] = "live" THEN barrier[r] ELSE Taken(r) :
                                  Succeeded(c) /\ told[c] # "nothing"
      BY DEF EndedIsComplete
    <2>1. /\ Local(r)
          /\ barrier[r] \subseteq Call /\ Taken(r) \subseteq Call
      BY Here DEF RunTypes, Taken, CallsOf
    <2>2. \/ /\ Closed(r) /\ phase[r] \in {"returned", "rejected"}
          \/ /\ phase[r] # "returned"
             /\ OpenLog(r) \/ log[r] \in {<<>>, <<"verify.failed">>}
      BY <2>1, AdmittedType DEF Local
    <2>3. CASE Closed(r) /\ phase[r] \in {"returned", "rejected"}
      <3>1. \A c \in IF DriverOf[r] = "live" THEN barrier[r] ELSE Taken(r) :
              Succeeded(c) /\ told[c] # "nothing"
        BY <2>1, <2>3, DoneIsTold DEF Closed, AllGood, Succeeded
      <3>2. QED
        BY <2>3, <3>1, EndsRead DEF Closed, Things
    <2>4. CASE /\ phase[r] # "returned"
               /\ OpenLog(r) \/ log[r] \in {<<>>, <<"verify.failed">>}
      BY <2>4, EndsRead
    <2>5. QED
      BY <2>2, <2>3, <2>4
  <1>2. QED
    BY <1>1, SpecIInv, PTL

\* Enforce mode: a manifest that does not verify leaves its journal line and
\* nothing else.
THEOREM SpecRefusedStartsNothing == Spec => []RefusedStartsNothing
  <1>1. IInv => RefusedStartsNothing
    <2> SUFFICES ASSUME IInv, NEW r \in Run, IdentityOf[r] = "enforce",
                        NEW n \in 1..Len(log[r]), log[r][n] = "verify.failed"
                 PROVE  /\ log[r] = <<"verify.failed">>
                        /\ held[r] = NoLease
                        /\ box[r] = "none" /\ harness[r] = "none"
      BY DEF RefusedStartsNothing
    <2>1. Admitted(r) = {<<>>}
      BY DEF Admitted
    <2>2. log[r] # <<>>
      <3>1. \A k \in 1..Len(<<>>) : FALSE
        OBVIOUS
      <3>2. QED
        BY <3>1
    <2>3. ~OpenLog(r) /\ ~ClosedLog(r)
      BY <2>1, Journals DEF OpenLog, ClosedLog
    <2>4. log[r] = <<"verify.failed">> /\ Blank(r)
      BY <2>1, <2>2, <2>3, Here DEF Local, Closed
    <2>5. QED
      BY <2>4 DEF Blank, Leased, Things
  <1>2. QED
    BY <1>1, SpecIInv, PTL

\* A lease reads `released` only if the run it was last granted to returned.
THEOREM SpecReleasedMeansEnded == Spec => []ReleasedMeansEnded
  BY SpecIInv, PTL DEF IInv

\* A reaped lease is in the journal, or with a process that is writing it or died.
THEOREM SpecReapAccounted == Spec => []ReapAccounted
  BY SpecIInv, PTL DEF IInv


\* No run of runMediated settles with its sandbox up, but from the teardown
\* itself.
THEOREM SpecMediatedLeavesNoSandbox == Spec => MediatedLeavesNoSandbox
  <1>1. IInv /\ [Next]_vars =>
          [\A r \in Run :
             DriverOf[r] = "mediated" /\ phase'[r] \in Over /\ phase[r] \notin Over
               => box'[r] # "up" \/ phase[r] = "tearing"]_vars
    <2> SUFFICES ASSUME IInv, Next, NEW r \in Run, DriverOf[r] = "mediated",
                        phase'[r] \in Over, phase[r] \notin Over
                 PROVE  box'[r] # "up" \/ phase[r] = "tearing"
      OBVIOUS
    <2>1. phase'[r] # phase[r] /\ RunTypes /\ Local(r)
      BY Here
    <2>2. phase' # phase
      BY <2>1
    <2>3. PICK q \in Run : DriverStep(q)
      <3>1. ASSUME NEW i \in Instance, Boot(i) \/ LogReap(i) \/ Crash(i) PROVE phase' = phase
        BY <3>1 DEF Boot, LogReap, Crash, runVars
      <3>2. Tick => phase' = phase
        BY DEF Tick, runVars
      <3>3. ASSUME NEW c \in Call, Handle(c) \/ Finish(c) \/ \E v \in M!Decision : Emit(c, v)
            PROVE  phase' = phase
        BY <3>3 DEF Handle, Finish, Emit, runVars
      <3>4. QED
        BY <2>2, <3>1, <3>2, <3>3 DEF Next
    <2>4. ASSUME NEW p, phase' = [phase EXCEPT ![q] = p]
          PROVE  q = r /\ p \in Over
      BY <2>1, <2>4 DEF RunTypes
    <2>5. CASE Enter(q) \/ Drained(q)
      BY <2>4, <2>5 DEF Enter, Drained, Goto, Over
    <2>6. CASE Refuse(q) \/ Contend(q) \/ Begin(q)
      <3>1. q = r /\ phase[r] = "gating" /\ box' = box
        BY <2>4, <2>6 DEF Refuse, Contend, Begin, Goto
      <3>2. QED
        BY <2>1, <3>1 DEF Local, Blank, Things
    <2>7. CASE Started(q) \/ Spawned(q)
      <3>1. q = r /\ phase[r] \in {"starting", "spawning"} /\ box' = box
        BY <2>4, <2>7 DEF Started, Spawned, Goto, Over
      <3>2. QED
        BY <2>1, <3>1 DEF Local, Things
    <2>8. CASE RunResolves(q) \/ RunRejects(q) \/ DrainRejects(q)
      <3>1. \/ phase' = [phase EXCEPT ![q] = "draining"]
            \/ phase' = [phase EXCEPT ![q] = "tearing"]
            \/ phase' = [phase EXCEPT ![q] = "rejected"] /\ DriverOf[q] # "mediated"
        BY <2>8 DEF RunResolves, RunRejects, DrainRejects, Throw, Goto
      <3>2. QED
        BY <2>4, <3>1 DEF Over
    <2>9. CASE TornDown(q)
      BY <2>4, <2>9 DEF TornDown, Goto
    <2>10. CASE StopRejects(q) \/ Ended(q)
      <3>1. q = r /\ phase[r] = "stopping" /\ box' = box
        BY <2>4, <2>10 DEF StopRejects, Ended, Goto
      <3>2. QED
        BY <2>1, <3>1 DEF Local, Things
    <2>11. QED
      BY <2>3, <2>5, <2>6, <2>7, <2>8, <2>9, <2>10 DEF DriverStep
  <1>2. QED
    BY <1>1, SpecIInv, PTL DEF Spec, MediatedLeavesNoSandbox


------------------------------------------------------------------------------
(* The drivers use the store as SessionStore describes it.                  *)

\* The leases in the hands of the runs, as SessionStore has them.
HeldNow ==
  [r \in Run |-> IF Alive(r) /\ phase[r] # "returned" THEN held[r] ELSE NoLease]

UpNow == {i \in Instance : proc[i] # "dead"}

\* A step that leaves the store and the processes alone, and lets no run
\* return, is none of the store's.
LEMMA NoStoreStep ==
  ASSUME UNCHANGED <<storeVars, proc>>,
         \A r \in Run : phase'[r] = "returned" <=> phase[r] = "returned"
  PROVE  UNCHANGED Store!vars
  <1>1. \A r \in Run : Alive(r)' <=> Alive(r)
    BY DEF Alive
  <1>2. HeldNow' = HeldNow
    BY <1>1 DEF HeldNow, storeVars
  <1>3. UpNow' = UpNow
    BY DEF UpNow
  <1>4. QED
    BY <1>2, <1>3 DEF Store!vars, HeldNow, UpNow, storeVars

\* A process that comes up has no runs yet.
LEMMA ComingUp ==
  ASSUME IInv, NEW i \in Instance, proc[i] \in {"off", "reaping"}, proc'[i] \in {"reaping", "up"},
         \A j \in Instance \ {i} : proc'[j] = proc[j],
         UNCHANGED <<held, phase>>
  PROVE  HeldNow' = HeldNow /\ UpNow' = UpNow
  <1>1. ASSUME NEW r \in Run PROVE HeldNow'[r] = HeldNow[r]
    <2>1. CASE InstanceOf[r] = i
      <3>1. phase[r] = "idle"
        BY <2>1 DEF IInv, ProcOrder
      <3>2. held[r] = NoLease
        BY <3>1, Here DEF Local, Blank, Leased
      <3>3. QED
        BY <3>2 DEF HeldNow
    <2>2. CASE InstanceOf[r] # i
      <3>1. Alive(r)' <=> Alive(r)
        BY <2>2, RunFacts DEF Alive
      <3>2. QED
        BY <3>1 DEF HeldNow
    <2>3. QED
      BY <2>1, <2>2
  <1>2. HeldNow' = HeldNow
    BY <1>1 DEF HeldNow
  <1>3. UpNow' = UpNow
    BY DEF UpNow
  <1>4. QED
    BY <1>2, <1>3

LEMMA BootReaps ==
  ASSUME IInv, NEW i \in Instance, Boot(i)
  PROVE  Store!ReapExpired(i)
  <1>1. /\ rec' = [s \in Session |-> IF Expired(rec[s], now) THEN Reaped(rec[s]) ELSE rec[s]]
        /\ proc[i] = "off" /\ \E p \in {"reaping", "up"} : proc' = [proc EXCEPT ![i] = p]
        /\ UNCHANGED <<now, held, latest, phase>>
    BY DEF Boot, runVars
  <1>2. proc'[i] \in {"reaping", "up"} /\ \A j \in Instance \ {i} : proc'[j] = proc[j]
    BY <1>1, SplitTypes DEF IInv, StoreTypes
  <1>3. HeldNow' = HeldNow /\ UpNow' = UpNow /\ i \in UpNow
    BY <1>1, <1>2, ComingUp DEF UpNow
  <1>4. QED
    BY <1>1, <1>3 DEF Store!ReapExpired, Store!Expired, Store!Reaped, Expired, Reaped,
                      HeldNow, UpNow

LEMMA LogReapStutters ==
  ASSUME IInv, NEW i \in Instance, LogReap(i)
  PROVE  UNCHANGED Store!vars
  <1>1. /\ proc[i] = "reaping" /\ \E p \in {"reaping", "up"} : proc' = [proc EXCEPT ![i] = p]
        /\ UNCHANGED <<storeVars, phase>>
    BY DEF LogReap, runVars
  <1>2. proc'[i] \in {"reaping", "up"} /\ \A j \in Instance \ {i} : proc'[j] = proc[j]
    BY <1>1, SplitTypes DEF IInv, StoreTypes
  <1>3. HeldNow' = HeldNow /\ UpNow' = UpNow
    BY <1>1, <1>2, ComingUp DEF storeVars
  <1>4. QED
    BY <1>1, <1>3 DEF Store!vars, HeldNow, UpNow, storeVars

LEMMA CrashCrashes ==
  ASSUME IInv, NEW i \in Instance, Crash(i)
  PROVE  Store!Crash(i)
  <1>1. /\ proc[i] \in {"reaping", "up"} /\ proc' = [proc EXCEPT ![i] = "dead"]
        /\ UNCHANGED <<storeVars, phase>>
    BY DEF Crash, runVars
  <1>2. proc'[i] = "dead" /\ \A j \in Instance \ {i} : proc'[j] = proc[j]
    BY <1>1, SplitTypes DEF IInv, StoreTypes
  <1>3. i \in UpNow /\ UpNow' = UpNow \ {i}
    BY <1>1, <1>2 DEF UpNow
  <1>4. HeldNow' = [r \in Run |-> IF InstanceOf[r] = i THEN NoLease ELSE HeldNow[r]]
    <2>1. ASSUME NEW r \in Run
          PROVE  HeldNow'[r] = IF InstanceOf[r] = i THEN NoLease ELSE HeldNow[r]
      BY <1>1, <1>2, RunFacts DEF HeldNow, Alive, storeVars
    <2>2. QED
      BY <2>1 DEF HeldNow
  <1>5. QED
    BY <1>1, <1>3, <1>4 DEF Store!Crash, Store!NoLease, NoLease, HeldNow, UpNow, storeVars

LEMMA TickTicks ==
  ASSUME Tick
  PROVE  Store!Tick
  <1>1. /\ now < MaxTime /\ now' = now + 1
        /\ UNCHANGED <<rec, held, latest, proc, phase>>
    BY DEF Tick, procVars, runVars
  <1>2. HeldNow' = HeldNow /\ UpNow' = UpNow
    BY <1>1 DEF HeldNow, UpNow, Alive
  <1>3. QED
    BY <1>1, <1>2 DEF Store!Tick, HeldNow, UpNow


\* A step of a living run that lets the processes be changes no other run's lease.
LEMMA RunHolds ==
  ASSUME IInv, NEW r \in Run, Alive(r), UNCHANGED proc,
         \A q \in Run \ {r} : phase'[q] = phase[q] /\ held'[q] = held[q],
         NEW l, l = IF phase'[r] # "returned" THEN held'[r] ELSE NoLease
  PROVE  /\ InstanceOf[r] \in UpNow /\ UpNow' = UpNow
         /\ HeldNow' = [HeldNow EXCEPT ![r] = l]
         /\ HeldNow[r] = IF phase[r] # "returned" THEN held[r] ELSE NoLease
  <1>1. /\ InstanceOf[r] \in UpNow /\ UpNow' = UpNow
        /\ \A q \in Run : Alive(q)' <=> Alive(q)
    BY RunFacts DEF Alive, UpNow
  <1>2. HeldNow'[r] = l /\ HeldNow[r] = IF phase[r] # "returned" THEN held[r] ELSE NoLease
    BY <1>1 DEF HeldNow
  <1>3. \A q \in Run \ {r} : HeldNow'[q] = HeldNow[q]
    BY <1>1 DEF HeldNow
  <1>4. HeldNow' = [HeldNow EXCEPT ![r] = l]
    BY <1>2, <1>3 DEF HeldNow
  <1>5. QED
    BY <1>1, <1>2, <1>4

LEMMA BeginAcquires ==
  ASSUME IInv, NEW r \in Run, Begin(r)
  PROVE  Store!Acquire(r)
  <1> DEFINE s == SessionOf[r]
             l == Granted(rec[s], InstanceOf[r], now)
  <1>1. /\ Alive(r) /\ phase[r] = "gating" /\ ~Contended(rec[s], InstanceOf[r], now)
        /\ rec' = [rec EXCEPT ![s] = l]
        /\ held' = [held EXCEPT ![r] = l]
        /\ latest' = [latest EXCEPT ![s] = r]
        /\ UNCHANGED <<now, proc>>
        /\ \E p \in {"starting", "rejected"} : phase' = [phase EXCEPT ![r] = p]
    BY DEF Begin, Goto, procVars
  <1>2. RunTypes /\ StoreTypes /\ s \in Session /\ rec[s].token \in Nat
    BY Here, StoreFacts
  <1>3. /\ phase'[r] # "returned" /\ held'[r] = l
        /\ \A q \in Run \ {r} : phase'[q] = phase[q] /\ held'[q] = held[q]
    BY <1>1, <1>2 DEF RunTypes, StoreTypes
  <1>4. held[r] = NoLease
    BY <1>1, Here DEF Local, Blank, Leased
  <1>5. rec[s].token < Cardinality(Run)
    <2>1. IsFiniteSet(Run) /\ Grantees(s) \subseteq Run \ {r}
      BY <1>4, DriverAssumption DEF Grantees, Leased
    <2>2. IsFiniteSet(Run \ {r}) /\ Cardinality(Run \ {r}) = Cardinality(Run) - 1
      BY <2>1, FS_RemoveElement
    <2>3. Cardinality(Grantees(s)) <= Cardinality(Run \ {r})
      BY <2>1, <2>2, FS_Subset
    <2>4. /\ Cardinality(Run) \in Nat /\ Cardinality(Run \ {r}) \in Nat
          /\ Cardinality(Grantees(s)) \in Nat
      BY <2>1, <2>2, FS_Subset, FS_CardinalityType
    <2>5. rec[s].token <= Cardinality(Grantees(s))
      BY <1>2 DEF IInv, TokenCounts
    <2>6. QED
      BY <1>2, <2>2, <2>3, <2>4, <2>5
  <1> HIDE DEF l
  <1>6. /\ InstanceOf[r] \in UpNow /\ UpNow' = UpNow
        /\ HeldNow' = [HeldNow EXCEPT ![r] = l] /\ HeldNow[r] = NoLease
    BY <1>1, <1>3, <1>4, RunHolds
  <1>7. QED
    BY <1>1, <1>5, <1>6 DEF l, Store!Acquire, Store!Alive, Store!Holds, Store!Contended,
       Store!Granted, Store!NoLease, Contended, Granted, NoLease, HeldNow, UpNow

LEMMA EndedReleases ==
  ASSUME IInv, NEW r \in Run, Ended(r), phase' = [phase EXCEPT ![r] = "returned"]
  PROVE  Store!Release(r)
  <1> DEFINE s == SessionOf[r]
  <1>1. RunTypes /\ StoreTypes
    BY Here, StoreFacts
  <1>2. phase'[r] = "returned" /\ \A q \in Run \ {r} : phase'[q] = phase[q]
    BY <1>1 DEF RunTypes
  <1>3. /\ Alive(r) /\ phase[r] = "stopping"
        /\ rec' = [rec EXCEPT ![s] = IF Releasable(@, held[r]) THEN Released(@) ELSE @]
        /\ UNCHANGED <<now, held, latest, proc>>
    <2>1. phase' # [phase EXCEPT ![r] = "rejected"]
      BY <1>1, <1>2 DEF RunTypes
    <2>2. QED
      BY <2>1 DEF Ended, Goto, procVars
  <1>4. held[r] # NoLease
    BY <1>3, Here DEF Local, Leased
  <1>5. /\ InstanceOf[r] \in UpNow /\ UpNow' = UpNow
        /\ HeldNow' = [HeldNow EXCEPT ![r] = NoLease] /\ HeldNow[r] = held[r]
    BY <1>2, <1>3, RunHolds
  <1>6. QED
    BY <1>3, <1>4, <1>5 DEF Store!Release, Store!Alive, Store!Holds, Store!Releasable,
       Store!Released, Store!NoLease, Releasable, Released, NoLease, HeldNow, UpNow

LEMMA FinishBeatsOrStutters ==
  ASSUME IInv, NEW c \in Call, Finish(c)
  PROVE  Store!Heartbeat(RunOf[c]) \/ UNCHANGED Store!vars
  <1> DEFINE r == RunOf[c]
             s == SessionOf[r]
             l == Refreshed(rec[s], now)
  <1>1. Alive(r) /\ UNCHANGED <<now, latest, proc, phase>> /\ M!Delivered(c)
    BY DEF Finish, procVars
  <1>2. r \in Run /\ Leased(r) /\ StoreTypes
    <2>1. pc[c] # "idle"
      BY <1>1, PcType, FinishMoves
    <2>2. QED
      BY <2>1, TakenIsLeased, StoreFacts
  <1>3. CASE /\ ~Fenced(rec[s], held[r])
             /\ rec' = [rec EXCEPT ![s] = l] /\ held' = [held EXCEPT ![r] = l]
    <2>1. phase[r] # "returned"
      BY <1>2, <1>3 DEF IInv, ReturnedIsFenced
    <2>2. held'[r] = l /\ \A q \in Run \ {r} : held'[q] = held[q]
      BY <1>2, <1>3 DEF StoreTypes
    <2> HIDE DEF l
    <2>3. /\ InstanceOf[r] \in UpNow /\ UpNow' = UpNow
          /\ HeldNow' = [HeldNow EXCEPT ![r] = l] /\ HeldNow[r] = held[r]
      BY <1>1, <1>2, <2>1, <2>2, RunHolds
    <2>4. Store!Heartbeat(r)
      BY <1>1, <1>2, <1>3, <2>3 DEF l, Store!Heartbeat, Store!Alive, Store!Holds,
         Store!Fenced, Store!Refreshed, Store!NoLease, Leased, Fenced, Refreshed, NoLease,
         HeldNow, UpNow
    <2>5. QED
      BY <2>4
  <1>4. CASE UNCHANGED <<rec, held>>
    BY <1>1, <1>4, NoStoreStep DEF storeVars
  <1>5. QED
    BY <1>3, <1>4 DEF Finish

\* The other steps of a driver.
LEMMA DriverStutters ==
  ASSUME IInv, NEW r \in Run,
         \/ Enter(r) \/ Refuse(r) \/ Contend(r) \/ Started(r) \/ Spawned(r)
         \/ RunResolves(r) \/ RunRejects(r) \/ Drained(r) \/ DrainRejects(r)
         \/ TornDown(r) \/ StopRejects(r)
         \/ Ended(r) /\ phase' # [phase EXCEPT ![r] = "returned"]
  PROVE  UNCHANGED Store!vars
  <1>1. /\ UNCHANGED <<storeVars, proc>>
        /\ \E p \in (Awaiting \cup Over) \ {"returned"} : phase' = [phase EXCEPT ![r] = p]
        /\ phase[r] # "returned"
    <2>1. CASE Enter(r)
      BY <2>1 DEF Enter, Fresh, Goto, procVars, Awaiting
    <2>2. CASE Refuse(r) \/ Contend(r)
      BY <2>2 DEF Refuse, Contend, Goto, procVars, Over
    <2>3. CASE Started(r) \/ Spawned(r)
      BY <2>3 DEF Started, Spawned, Goto, procVars, Awaiting, Over
    <2>4. CASE RunResolves(r) \/ Drained(r)
      BY <2>4 DEF RunResolves, Drained, Goto, procVars, Awaiting
    <2>5. CASE RunRejects(r) \/ DrainRejects(r)
      BY <2>5 DEF RunRejects, DrainRejects, Throw, Goto, procVars, Awaiting, Over
    <2>6. CASE TornDown(r) \/ StopRejects(r)
      BY <2>6 DEF TornDown, StopRejects, Goto, procVars, Awaiting, Over
    <2>7. CASE Ended(r) /\ phase' # [phase EXCEPT ![r] = "returned"]
      BY <2>7 DEF Ended, Goto, procVars, storeVars, Over
    <2>8. QED
      BY <2>1, <2>2, <2>3, <2>4, <2>5, <2>6, <2>7
  <1>2. \A q \in Run : phase'[q] = "returned" <=> phase[q] = "returned"
    BY <1>1, Here DEF RunTypes
  <1>3. QED
    BY <1>1, <1>2, NoStoreStep

\* Sweeps, drivers and calls, in any number of processes that may die, are
\* operations of the store on the leases the runs hold.
THEOREM SpecImplementsStore == Spec => ImplementsStore
  <1>1. Init => Store!Init
    <2> SUFFICES ASSUME Init PROVE Store!Init
      OBVIOUS
    <2>1. HeldNow = [r \in Run |-> NoLease] /\ UpNow = Instance
      BY DEF Init, HeldNow, UpNow
    <2>2. QED
      BY <2>1 DEF Init, Store!Init, Store!NoLease, NoLease, HeldNow, UpNow
  <1>2. IInv /\ [Next]_vars => [Store!Next]_Store!vars
    <2> SUFFICES ASSUME IInv, [Next]_vars PROVE Store!Next \/ UNCHANGED Store!vars
      OBVIOUS
    <2>1. ASSUME NEW i \in Instance, Boot(i) \/ LogReap(i) \/ Crash(i)
          PROVE  Store!Next \/ UNCHANGED Store!vars
      BY <2>1, BootReaps, LogReapStutters, CrashCrashes DEF Store!Next
    <2>2. CASE Tick
      BY <2>2, TickTicks DEF Store!Next
    <2>3. ASSUME NEW r \in Run, DriverStep(r) PROVE Store!Next \/ UNCHANGED Store!vars
      <3>1. CASE Begin(r)
        BY <3>1, BeginAcquires DEF Store!Next
      <3>2. CASE Ended(r) /\ phase' = [phase EXCEPT ![r] = "returned"]
        BY <3>2, EndedReleases DEF Store!Next
      <3>3. CASE \/ Enter(r) \/ Refuse(r) \/ Contend(r) \/ Started(r) \/ Spawned(r)
                 \/ RunResolves(r) \/ RunRejects(r) \/ Drained(r) \/ DrainRejects(r)
                 \/ TornDown(r) \/ StopRejects(r)
                 \/ Ended(r) /\ phase' # [phase EXCEPT ![r] = "returned"]
        BY <3>3, DriverStutters
      <3>4. QED
        BY <2>3, <3>1, <3>2, <3>3 DEF DriverStep
    <2>4. ASSUME NEW c \in Call, Handle(c) \/ \E v \in M!Decision : Emit(c, v)
          PROVE  UNCHANGED Store!vars
      <3>1. UNCHANGED <<storeVars, proc, phase>>
        BY <2>4 DEF Handle, Emit, procVars, runVars
      <3>2. QED
        BY <3>1, NoStoreStep
    <2>5. ASSUME NEW c \in Call, Finish(c) PROVE Store!Next \/ UNCHANGED Store!vars
      <3>1. RunOf[c] \in Run
        BY DriverAssumption
      <3>2. QED
        BY <2>5, <3>1, FinishBeatsOrStutters DEF Store!Next
    <2>6. CASE UNCHANGED vars
      <3>1. UNCHANGED <<storeVars, proc, phase>>
        BY <2>6 DEF vars, procVars, runVars
      <3>2. QED
        BY <3>1, NoStoreStep
    <2>7. QED
      BY <2>1, <2>2, <2>3, <2>4, <2>5, <2>6 DEF Next
  <1>3. QED
    BY <1>1, <1>2, SpecIInv, PTL DEF Spec, Store!Spec, ImplementsStore


LEMMA StoreBounds ==
  /\ TTL \in Nat \ {0} /\ NoInstance \notin Instance
  /\ SessionOf \in [Run -> Session] /\ InstanceOf \in [Run -> Instance]
  /\ NoRun \notin Run
  /\ MaxTime \in Nat /\ Cardinality(Run) \in Nat
  BY LeaseAssumption, DriverAssumption, FS_CardinalityType

\* Whatever crashes, expires or is swept, the store's promises hold of the leases
\* in the drivers' hands: a run whose session was acquired again cannot refresh
\* its lease, a fence once shut stays shut, and a lease that has not expired
\* changes hands or status by its owner only.
THEOREM SpecStorePromises ==
  Spec => []Store!SupersededIsFenced /\ Store!FencedForever /\ Store!LiveLeaseKept
  <1>1. Store!Init => SP!Init
    BY DEF Store!Init, SP!Init, Store!NoLease, SP!NoLease
  <1>2. Store!Next => SP!Next
    BY DEF Store!Next, Store!Acquire, Store!Heartbeat, Store!Release, Store!Abandon,
       Store!ReapExpired, Store!Crash, Store!Tick, Store!Alive, Store!Holds,
       Store!Contended, Store!Granted, Store!Fenced, Store!Refreshed, Store!Releasable,
       Store!Released, Store!Expired, Store!Reaped, Store!NoLease,
       SP!Next, SP!Acquire, SP!Heartbeat, SP!Release, SP!Abandon,
       SP!ReapExpired, SP!Crash, SP!Tick, SP!Alive, SP!Holds,
       SP!Contended, SP!Granted, SP!Fenced, SP!Refreshed, SP!Releasable,
       SP!Released, SP!Expired, SP!Reaped, SP!NoLease
  <1>3. UNCHANGED Store!vars <=> UNCHANGED SP!vars
    BY DEF Store!vars, SP!vars
  <1>4. Store!Spec => SP!Spec
    BY <1>1, <1>2, <1>3, PTL DEF Store!Spec, SP!Spec
  <1>5. SP!Spec => []SP!SupersededIsFenced
    BY StoreBounds, SP!SpecSupersededIsFenced
  <1>6. SP!SupersededIsFenced => Store!SupersededIsFenced
    BY DEF SP!SupersededIsFenced, SP!Holds, SP!NoLease, SP!Fenced,
           Store!SupersededIsFenced, Store!Holds, Store!NoLease, Store!Fenced
  <1>7. SP!Spec => SP!FencedForever
    BY StoreBounds, SP!SpecFencedForever
  <1>8. SP!Spec => SP!LiveLeaseKept
    BY StoreBounds, SP!SpecLiveLeaseKept
  <1>9. SP!FencedForever => Store!FencedForever
    BY <1>3, PTL DEF SP!FencedForever, SP!Holds, SP!NoLease, SP!Fenced,
                 Store!FencedForever, Store!Holds, Store!NoLease, Store!Fenced
  <1>10. SP!LiveLeaseKept => Store!LiveLeaseKept
    BY <1>3, PTL DEF SP!LiveLeaseKept, SP!Holds, SP!NoLease,
                 Store!LiveLeaseKept, Store!Holds, Store!NoLease
  <1>11. QED
    BY <1>4, <1>5, <1>6, <1>7, <1>8, <1>9, <1>10, SpecImplementsStore, PTL DEF ImplementsStore


\* The loop's promises hold in every process and under every driver, whatever
\* crashes and however late a harness calls: whatever happens to a call is a step
\* the governance loop allows for, so that nothing takes effect before the journal
\* says it may, each call has one story, and nobody is told otherwise.
THEOREM SpecMediates ==
  Spec => MP!Spec /\ [](MP!WriteAhead /\ MP!OneStory /\ MP!ToldMatchesJournal)
  <1>1. Init => MP!Init
    BY DEF Init, M!Init, MP!Init
  <1>2. [Next]_vars => [MP!Next]_(MP!callVars)
    <2> SUFFICES ASSUME Next \/ UNCHANGED vars
                 PROVE  MP!Next \/ UNCHANGED callVars
      BY DEF callVars, MP!callVars
    <2>1. ASSUME NEW c \in Call, NEW v \in M!Decision, Emit(c, v)
          PROVE  MP!Next
      BY <2>1, EvaluateIsNext DEF Emit
    <2>2. ASSUME NEW c \in Call, Handle(c) \/ Finish(c)
          PROVE  MP!Next
      BY <2>2, CallStepIsNext DEF Handle, Finish
    <2>3. ASSUME NEW i \in Instance, Boot(i) \/ LogReap(i) \/ Crash(i)
          PROVE  UNCHANGED callVars
      BY <2>3 DEF Boot, LogReap, Crash
    <2>4. ASSUME NEW r \in Run, DriverStep(r)
          PROVE  UNCHANGED callVars
      BY <2>4 DEF DriverStep, Enter, Refuse, Contend, Begin, Started, Spawned, RunResolves,
                  RunRejects, Drained, DrainRejects, TornDown, StopRejects, Ended
    <2>5. Tick \/ UNCHANGED vars => UNCHANGED callVars
      BY DEF Tick, vars
    <2>6. QED
      BY <2>1, <2>2, <2>3, <2>4, <2>5 DEF Next
  <1>3. Spec => MP!Spec
    BY <1>1, <1>2, PTL DEF Spec, MP!Spec
  <1>4. MP!Spec => [](MP!WriteAhead /\ MP!OneStory /\ MP!ToldMatchesJournal)
    BY ModeType, MP!SpecWriteAhead, MP!SpecOneStory, MP!SpecToldMatchesJournal, PTL
  <1>5. QED
    BY <1>3, <1>4, PTL
================================================================================
