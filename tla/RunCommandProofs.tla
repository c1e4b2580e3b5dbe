---------------------------- MODULE RunCommandProofs ----------------------------
(****************************************************************************)
(* Theorems about RunCommand, for any number of runs, environments, keys,   *)
(* deaths and lost answers.                                                 *)
(*                                                                          *)
(* None of the three properties is inductive.  What they rest on is that    *)
(* runs follow one another, so that what one has read of the outbox stays   *)
(* true while it acts on it: whatever it is about to post is still pending  *)
(* in the file, and a pending obligation was posted no more often than      *)
(* something went wrong.                                                    *)
(****************************************************************************)
EXTENDS RunCommand, TLAPS

OutboxStatus == {"none", "pending", "delivered"}

Place == {"off"} \cup Suspended \cup Exited

TypeOK ==
  /\ private \in Nat /\ public \in Nat /\ minted \in Nat /\ interrupted \in Nat
  /\ outbox \in [Proc -> OutboxStatus] /\ torn \in BOOLEAN /\ posts \in [Proc -> Nat]
  /\ pc \in [Proc -> Place]
  /\ todo \subseteq Proc /\ target \in Nat /\ mishaps \in Nat

\* A run starts when the runs before it have exited.
OneAtATime ==
  \A q \in Proc : pc[q] # "off" => \A p \in 1..(q - 1) : pc[p] \in Exited

\* The snapshot of the drain is still true.
TodoPending == \A o \in todo : outbox[o] = "pending"

\* The obligation of a run does not exist before its session has returned.
Unborn ==
  \A p \in Proc : pc[p] \in {"off", "dialing", "draining", "redelivering", "running"} =>
    outbox[p] = "none" /\ posts[p] = 0

\* What a run posts is in its snapshot, or its own obligation, recorded by then.
TargetPending ==
  \A p \in Proc :
    /\ pc[p] = "redelivering" => target \in todo
    /\ pc[p] \in {"projecting", "posting"} => target = p /\ outbox[p] = "pending"
    /\ pc[p] \in {"running", "projecting", "posting"} => todo = {}

\* An obligation that is not marked was posted once per mishap at most.
PostsPaid ==
  \A o \in Proc : posts[o] <= (IF outbox[o] = "delivered" THEN 1 ELSE 0) + mishaps

\* Key files only part company in a keygen that dies, and the first such leaves
\* no private key or no public one, if not a pair.
KeysPaired ==
  /\ interrupted = 0 => public = private
  /\ interrupted <= 1 => private = 0 \/ public \in {0, private}

IInv ==
  /\ TypeOK /\ OneAtATime /\ TodoPending /\ Unborn /\ TargetPending
  /\ PostsPaid /\ OutboxKeeps /\ KeysPaired

------------------------------------------------------------------------------
(* Types and the order of the runs.                                         *)

\* The bounds the steps need.
LEMMA Bounds == MaxRuns \in Nat /\ MaxMishaps \in Nat
BY RunCommandAssumption

\* A fresh home satisfies the invariant.
LEMMA InitInv == Init => IInv
<1> SUFFICES ASSUME Init PROVE IInv
  OBVIOUS
<1>1. TypeOK
  BY DEF Init, TypeOK, OutboxStatus, Place
<1>2. OneAtATime /\ TodoPending /\ Unborn /\ TargetPending
  BY DEF Init, OneAtATime, TodoPending, Unborn, TargetPending
<1>3. PostsPaid
  BY DEF Init, PostsPaid
<1>4. OutboxKeeps
  BY DEF Init, OutboxKeeps
<1>5. KeysPaired
  BY DEF Init, KeysPaired
<1> QED BY <1>1, <1>2, <1>3, <1>4, <1>5 DEF IInv

\* Beside a run that is under way, or may start, no other is under way.
LEMMA Alone ==
  ASSUME TypeOK, OneAtATime, NEW p \in Proc,
         \/ pc[p] \in Suspended
         \/ pc[p] = "off" /\ \A q \in 1..(p - 1) : pc[q] \in Exited
  PROVE  \A q \in Proc : q # p => pc[q] \notin Suspended
<1> SUFFICES ASSUME NEW q \in Proc, q # p PROVE pc[q] \notin Suspended
  OBVIOUS
<1>1. CASE q < p
  <2>1. q \in 1..(p - 1)
    BY <1>1, Bounds DEF Proc
  <2>2. pc[q] \in Exited
    BY <2>1 DEF OneAtATime, Suspended
  <2> QED BY <2>2 DEF Suspended, Exited
<1>2. CASE p < q
  <2>1. p \in 1..(q - 1)
    BY <1>2, Bounds DEF Proc
  <2>2. pc[q] = "off" \/ pc[p] \in Exited
    BY <2>1 DEF OneAtATime
  <2> QED BY <2>2 DEF Suspended, Exited
<1> QED BY <1>1, <1>2, Bounds DEF Proc

\* The order survives whatever a run does, as long as it may run.
LEMMA OrderKept ==
  ASSUME TypeOK, OneAtATime, NEW p \in Proc, NEW l, Goto(p, l),
         \/ pc[p] \in Suspended
         \/ pc[p] = "off" /\ \A q \in 1..(p - 1) : pc[q] \in Exited
  PROVE  OneAtATime'
<1> SUFFICES ASSUME NEW q \in Proc, pc'[q] # "off", NEW r \in 1..(q - 1)
             PROVE  pc'[r] \in Exited
  BY DEF OneAtATime
<1>0. r \in Proc /\ r # q
  BY Bounds DEF Proc
<1>1. CASE q = p
  <2>1. pc[r] \in Exited
    BY <1>1 DEF OneAtATime, Suspended
  <2> QED BY <2>1, <1>0, <1>1 DEF Goto, TypeOK
<1>2. CASE q # p
  <2>1. pc[r] \in Exited
    BY <1>2 DEF OneAtATime, Goto, TypeOK
  <2>2. r # p
    BY <2>1, <1>0, <1>2 DEF OneAtATime, Suspended, Exited, Goto, TypeOK
  <2> QED BY <2>1, <2>2, <1>0 DEF Goto, TypeOK
<1> QED BY <1>1, <1>2

------------------------------------------------------------------------------
(* The operator's commands.                                                 *)

\* A keygen that dies spoils the pair; two may leave keys of different pairs.
LEMMA KeygenStep ==
  ASSUME IInv, NEW force \in BOOLEAN, NEW done \in 0..4, keygenCommand(force, done)
  PROVE  IInv'
<1>1. TypeOK'
  BY DEF IInv, TypeOK, keygenCommand, boxVars, drainVars
<1>2. KeysPaired'
  <2>1. CASE done = 4
    BY <2>1 DEF keygenCommand, KeysPaired, IInv, TypeOK
  <2>2. CASE done # 4
    BY <2>2 DEF keygenCommand, KeysPaired, IInv, TypeOK
  <2> QED BY <2>1, <2>2
<1>3. (OneAtATime /\ TodoPending /\ Unborn /\ TargetPending /\ PostsPaid /\ OutboxKeeps)'
  BY DEF IInv, OneAtATime, TodoPending, Unborn, TargetPending, PostsPaid, OutboxKeeps,
         keygenCommand, boxVars, drainVars
<1> QED BY <1>1, <1>2, <1>3 DEF IInv

\* What only touches the policy, the signatures or a run's options is harmless.
LEMMA PolicyStep ==
  ASSUME IInv, UNCHANGED <<private, public, minted, interrupted, boxVars, pc, drainVars, mishaps>>
  PROVE  IInv'
BY DEF IInv, TypeOK, OneAtATime, TodoPending, Unborn, TargetPending, PostsPaid, OutboxKeeps,
       KeysPaired, boxVars, drainVars

\* What no step of a run touches.
KeysKept == UNCHANGED <<private, public, minted, interrupted>>

\* The key files stay as they are.
LEMMA PairKept ==
  ASSUME KeysPaired, KeysKept PROVE KeysPaired'
BY DEF KeysPaired, KeysKept
------------------------------------------------------------------------------
(* The steps of a run.                                                      *)

\* A start that is refused changes nothing; one that is not finds nobody else
\* with a snapshot or a target, and takes a snapshot that is true.
LEMMA LaunchStep ==
  ASSUME IInv, NEW p \in Proc, NEW e \in Environment, Launch(p, e)
  PROVE  IInv'
<1> USE DEF IInv
<1>1. PICK l \in {"exit1", "dialing", "draining"} : Goto(p, l)
  BY DEF Launch, Recover
<1>2. /\ todo' = todo \/ todo' = {o \in Proc : outbox[o] = "pending"}
      /\ UNCHANGED <<outbox, torn, posts, target, mishaps>> /\ KeysKept
  BY DEF Launch, Recover, KeysKept, boxVars, startVars
<1>3. pc[p] = "off" /\ \A q \in 1..(p - 1) : pc[q] \in Exited
  BY DEF Launch
<1>4. \A q \in Proc : q # p => pc[q] \notin Suspended /\ pc'[q] = pc[q]
  BY <1>1, <1>3, Alone DEF Goto, TypeOK
<1>5. pc'[p] = l
  BY <1>1 DEF Goto, TypeOK
<1>6. TypeOK'
  BY <1>1, <1>2 DEF TypeOK, Goto, Place, Suspended, Exited, KeysKept
<1>7. OneAtATime'
  BY <1>1, <1>3, OrderKept
<1>8. TodoPending' /\ Unborn'
  BY <1>2, <1>3, <1>4, <1>5 DEF TodoPending, Unborn
<1>9. TargetPending'
  BY <1>2, <1>4, <1>5 DEF TargetPending, Suspended
<1>10. PostsPaid' /\ KeysPaired'
  BY <1>2, PairKept DEF PostsPaid
<1>11. OutboxKeeps'
  BY <1>2, <1>4, <1>5 DEF OutboxKeeps
<1> QED BY <1>6, <1>7, <1>8, <1>9, <1>10, <1>11

\* Connected to Slack, the run takes its snapshot now.
LEMMA DialedStep ==
  ASSUME IInv, NEW p \in Proc, Dialed(p)
  PROVE  IInv'
<1> USE DEF IInv
<1>1. Goto(p, "draining") /\ pc[p] = "dialing"
  BY DEF Dialed, Recover
<1>2. /\ todo' = {o \in Proc : outbox[o] = "pending"}
      /\ UNCHANGED <<outbox, torn, posts, target, mishaps>> /\ KeysKept
  BY DEF Dialed, Recover, KeysKept, boxVars, startVars
<1>3. \A q \in Proc : q # p => pc[q] \notin Suspended /\ pc'[q] = pc[q]
  BY <1>1, Alone DEF Goto, TypeOK, Suspended
<1>4. pc'[p] = "draining"
  BY <1>1 DEF Goto, TypeOK
<1>5. TypeOK'
  BY <1>1, <1>2 DEF TypeOK, Goto, Place, Suspended, KeysKept
<1>6. OneAtATime'
  BY <1>1, OrderKept DEF Suspended
<1>7. TodoPending' /\ Unborn'
  BY <1>1, <1>2, <1>3, <1>4 DEF TodoPending, Unborn
<1>8. TargetPending'
  BY <1>3, <1>4 DEF TargetPending, Suspended
<1>9. PostsPaid' /\ KeysPaired'
  BY <1>2, PairKept DEF PostsPaid
<1>10. OutboxKeeps'
  BY <1>2, <1>3, <1>4 DEF OutboxKeeps
<1> QED BY <1>5, <1>6, <1>7, <1>8, <1>9, <1>10

\* The target comes from the snapshot, or is the run's own.
LEMMA AttemptStep ==
  ASSUME IInv, NEW p \in Proc, Attempt(p)
  PROVE  IInv'
<1> USE DEF IInv
<1>1. PICK l \in {"redelivering", "posting"} : Goto(p, l)
  BY DEF Attempt
<1>2. UNCHANGED <<outbox, torn, posts, todo, mishaps>> /\ KeysKept
  BY DEF Attempt, KeysKept, boxVars, homeVars
<1>3. pc[p] \in Suspended
  BY DEF Attempt, Suspended
<1>4. \A q \in Proc : q # p => pc[q] \notin Suspended /\ pc'[q] = pc[q]
  BY <1>1, <1>3, Alone DEF Goto, TypeOK
<1>5. pc'[p] = l
  BY <1>1 DEF Goto, TypeOK
<1>6. TypeOK'
  <2>1. target' \in todo \/ target' = target
    BY DEF Attempt
  <2>2. todo \subseteq Nat /\ target \in Nat
    BY Bounds DEF TypeOK, Proc
  <2>3. target' \in Nat
    BY <2>1, <2>2
  <2> QED BY <1>1, <1>2, <2>3 DEF TypeOK, Goto, Place, Suspended, KeysKept
<1>7. OneAtATime'
  BY <1>1, <1>3, OrderKept
<1>8. TodoPending' /\ Unborn'
  <2>1. pc'[p] = "redelivering" => pc[p] = "draining"
    BY DEF Attempt, Goto, TypeOK
  <2> QED BY <1>2, <1>4, <1>5, <2>1 DEF TodoPending, Unborn
<1>9. TargetPending'
  <2>1. \/ pc'[p] = "redelivering" /\ target' \in todo
        \/ pc'[p] = "posting" /\ target' = target /\ pc[p] = "projecting"
    BY DEF Attempt, Goto, TypeOK
  <2> QED BY <1>2, <1>4, <2>1 DEF TargetPending, Suspended
<1>10. PostsPaid' /\ KeysPaired'
  BY <1>2, PairKept DEF PostsPaid
<1>11. OutboxKeeps'
  <2>1. pc'[p] = "posting" => pc[p] = "projecting"
    BY DEF Attempt, Goto, TypeOK
  <2> QED BY <1>2, <1>4, <1>5, <2>1 DEF OutboxKeeps
<1> QED BY <1>6, <1>7, <1>8, <1>9, <1>10, <1>11
\* What a run is about to post is an obligation that is pending in the file.
LEMMA TargetIsPending ==
  ASSUME IInv, NEW p \in Proc, pc[p] \in {"redelivering", "posting"}
  PROVE  target \in Proc /\ outbox[target] = "pending" /\ posts[target] \in Nat
BY DEF IInv, TypeOK, TargetPending, TodoPending

\* A message that went out is counted against the mark or against a mishap.
LEMMA ProjectedStep ==
  ASSUME IInv, NEW p \in Proc, Projected(p)
  PROVE  IInv'
<1> USE DEF IInv
<1>1. PICK shown \in BOOLEAN, ok \in BOOLEAN :
        /\ pc[p] \in {"redelivering", "posting"}
        /\ ok => shown
        /\ posts' = [posts EXCEPT ![target] = IF shown THEN @ + 1 ELSE @]
        /\ \/ markDelivered(ok) /\ IF shown /\ ~ok THEN Mishap ELSE UNCHANGED mishaps
           \/ ok /\ Mishap /\ UNCHANGED outbox
        /\ IF pc[p] = "posting" THEN Exit(p, "exit0")
           ELSE Goto(p, "draining") /\ drained(ok) /\ UNCHANGED <<startVars, target>>
        /\ UNCHANGED <<homeVars, torn>>
  BY DEF Projected
<1>2. target \in Proc /\ outbox[target] = "pending" /\ posts[target] \in Nat
  BY <1>1, TargetIsPending
<1>3. /\ \/ outbox' = [outbox EXCEPT ![target] = "delivered"] /\ shown /\ mishaps' = mishaps
         \/ outbox' = outbox /\ mishaps' = mishaps + 1
         \/ outbox' = outbox /\ ~shown /\ mishaps' = mishaps
      /\ UNCHANGED torn /\ KeysKept
  BY <1>1 DEF markDelivered, Mishap, KeysKept, homeVars
<1>4. \/ pc[p] = "posting" /\ Goto(p, "exit0") /\ todo' = {} /\ target' = 0
      \/ pc[p] = "redelivering" /\ Goto(p, "draining") /\ todo' = todo \ {target} /\ target' = target
  BY <1>1 DEF Exit, drained
<1>5. \A q \in Proc : q # p => pc[q] \notin Suspended /\ pc'[q] = pc[q]
  BY <1>1, <1>4, Alone DEF Goto, TypeOK, Suspended
<1>6. pc'[p] = IF pc[p] = "posting" THEN "exit0" ELSE "draining"
  BY <1>4 DEF Goto, TypeOK
<1>7. \A o \in Proc :
        /\ posts'[o] = IF o = target /\ shown THEN posts[o] + 1 ELSE posts[o]
        /\ outbox'[o] = outbox[o] \/ (o = target /\ outbox'[o] = "delivered")
  BY <1>1, <1>2, <1>3 DEF TypeOK
<1>8. TypeOK'
  <2>1. posts' \in [Proc -> Nat]
    BY <1>1, <1>2 DEF TypeOK
  <2>2. outbox' \in [Proc -> OutboxStatus]
    BY <1>2, <1>3 DEF TypeOK, OutboxStatus
  <2>3. pc' \in [Proc -> Place] /\ todo' \subseteq Proc /\ target' \in Nat
    BY <1>4 DEF TypeOK, Goto, Place, Suspended, Exited
  <2>4. mishaps' \in Nat
    BY <1>3 DEF TypeOK
  <2> QED BY <1>3, <2>1, <2>2, <2>3, <2>4 DEF TypeOK, KeysKept
<1>9. OneAtATime'
  BY <1>1, <1>4, OrderKept DEF Suspended
<1>10. TodoPending' /\ Unborn'
  <2>1. TodoPending'
    BY <1>4, <1>7 DEF TodoPending, TypeOK
  <2>2. Unborn'
    BY <1>1, <1>2, <1>5, <1>6, <1>7 DEF Unborn
  <2> QED BY <2>1, <2>2
<1>11. TargetPending'
  BY <1>5, <1>6 DEF TargetPending, Suspended
<1>12. PostsPaid'
  <2> SUFFICES ASSUME NEW o \in Proc
               PROVE  posts'[o] <= (IF outbox'[o] = "delivered" THEN 1 ELSE 0) + mishaps'
    BY DEF PostsPaid
  <2>1. posts[o] <= (IF outbox[o] = "delivered" THEN 1 ELSE 0) + mishaps
    BY DEF PostsPaid
  <2>2. posts[o] \in Nat /\ mishaps \in Nat
    BY DEF TypeOK
  <2>3. CASE o # target
    BY <2>1, <2>2, <2>3, <1>3, <1>7
  <2>4. CASE o = target
    <3>1. CASE outbox' = [outbox EXCEPT ![target] = "delivered"] /\ shown /\ mishaps' = mishaps
      <4>1. outbox'[o] = "delivered"
        BY <3>1, <2>4, <1>2 DEF TypeOK
      <4> QED BY <4>1, <3>1, <2>1, <2>2, <2>4, <1>2, <1>7
    <3>2. CASE outbox' = outbox /\ (mishaps' = mishaps + 1 \/ (~shown /\ mishaps' = mishaps))
      BY <3>2, <2>1, <2>2, <1>7
    <3> QED BY <3>1, <3>2, <1>3
  <2> QED BY <2>3, <2>4
<1>13. OutboxKeeps'
  <2> SUFFICES ASSUME ~torn, NEW o \in Proc
               PROVE  /\ pc'[o] \in {"projecting", "posting", "exit0"} => outbox'[o] # "none"
                      /\ posts'[o] > 0 => outbox'[o] # "none"
                      /\ outbox'[o] = "delivered" => posts'[o] > 0
    BY <1>3 DEF OutboxKeeps
  <2>1. /\ pc[o] \in {"projecting", "posting", "exit0"} => outbox[o] # "none"
        /\ posts[o] > 0 => outbox[o] # "none"
        /\ outbox[o] = "delivered" => posts[o] > 0
    BY DEF OutboxKeeps
  <2>2. posts[o] \in Nat
    BY DEF TypeOK
  <2>3. pc'[o] \in {"projecting", "posting", "exit0"} => outbox'[o] # "none"
    BY <2>1, <1>5, <1>6, <1>7
  <2>4. posts'[o] > 0 => outbox'[o] # "none"
    BY <2>1, <1>2, <1>7
  <2>5. outbox'[o] = "delivered" => posts'[o] > 0
    <3>1. CASE o = target
      BY <3>1, <2>2, <1>2, <1>3, <1>7
    <3>2. CASE o # target
      BY <3>2, <2>1, <1>7
    <3> QED BY <3>1, <3>2
  <2> QED BY <2>3, <2>4, <2>5
<1>14. KeysPaired'
  BY <1>3, PairKept
<1> QED BY <1>8, <1>9, <1>10, <1>11, <1>12, <1>13, <1>14

\* The snapshot is used up: the session starts, or is refused.
LEMMA DrainedStep ==
  ASSUME IInv, NEW p \in Proc, Drained(p)
  PROVE  IInv'
<1> USE DEF IInv
<1>1. /\ pc[p] = "draining" /\ todo = {} /\ todo' = {} /\ target' \in {0, target}
      /\ UNCHANGED <<outbox, torn, posts, mishaps>> /\ KeysKept
  BY DEF Drained, Exit, drainVars, homeVars, boxVars, KeysKept
<1>2. PICK l \in {"exit1", "running"} : Goto(p, l)
  BY DEF Drained, Exit
<1>3. \A q \in Proc : q # p => pc[q] \notin Suspended /\ pc'[q] = pc[q]
  BY <1>1, <1>2, Alone DEF Goto, TypeOK, Suspended
<1>4. pc'[p] = l
  BY <1>2 DEF Goto, TypeOK
<1>5. TypeOK'
  BY <1>1, <1>2 DEF TypeOK, Goto, Place, Suspended, Exited, KeysKept
<1>6. OneAtATime'
  BY <1>1, <1>2, OrderKept DEF Suspended
<1>7. TodoPending' /\ Unborn'
  BY <1>1, <1>3, <1>4 DEF TodoPending, Unborn
<1>8. TargetPending'
  BY <1>1, <1>3, <1>4 DEF TargetPending, Suspended
<1>9. PostsPaid' /\ KeysPaired'
  BY <1>1, PairKept DEF PostsPaid
<1>10. OutboxKeeps'
  BY <1>1, <1>3, <1>4 DEF OutboxKeeps
<1> QED BY <1>5, <1>6, <1>7, <1>8, <1>9, <1>10
\* The obligation is in the file before anything of it is shown.
LEMMA SessionReturnsStep ==
  ASSUME IInv, NEW p \in Proc, SessionReturns(p)
  PROVE  IInv'
<1> USE DEF IInv
<1>1. /\ pc[p] = "running" /\ todo' = todo /\ target' = p
      /\ outbox' = [outbox EXCEPT ![p] = "pending"] /\ Goto(p, "projecting")
      /\ UNCHANGED <<torn, posts, mishaps>> /\ KeysKept
  BY DEF SessionReturns, KeysKept
<1>2. \A q \in Proc : q # p => pc[q] \notin Suspended /\ pc'[q] = pc[q]
  BY <1>1, Alone DEF Goto, TypeOK, Suspended
<1>3. pc'[p] = "projecting" /\ outbox'[p] = "pending" /\ todo = {}
  BY <1>1 DEF Goto, TypeOK, TargetPending
<1>4. \A o \in Proc : o # p => outbox'[o] = outbox[o]
  BY <1>1 DEF TypeOK
<1>5. posts[p] = 0
  BY <1>1 DEF Unborn
<1>6. TypeOK'
  BY <1>1, Bounds DEF TypeOK, Goto, Place, Suspended, OutboxStatus, KeysKept, Proc
<1>7. OneAtATime'
  BY <1>1, OrderKept DEF Suspended
<1>8. TodoPending' /\ Unborn'
  BY <1>1, <1>2, <1>3, <1>4 DEF TodoPending, Unborn
<1>9. TargetPending'
  BY <1>1, <1>2, <1>3, <1>4 DEF TargetPending, Suspended
<1>10. PostsPaid'
  <2> SUFFICES ASSUME NEW o \in Proc
               PROVE  posts[o] <= (IF outbox'[o] = "delivered" THEN 1 ELSE 0) + mishaps
    BY <1>1 DEF PostsPaid
  <2>1. CASE o = p
    BY <2>1, <1>3, <1>5 DEF TypeOK
  <2>2. CASE o # p
    BY <2>2, <1>4 DEF PostsPaid
  <2> QED BY <2>1, <2>2
<1>11. OutboxKeeps'
  BY <1>1, <1>2, <1>3, <1>4 DEF OutboxKeeps
<1>12. KeysPaired'
  BY <1>1, PairKept
<1> QED BY <1>6, <1>7, <1>8, <1>9, <1>10, <1>11, <1>12

\* A death at most shows what was pending, and pays for it.
LEMMA CutShortStep ==
  ASSUME IInv, NEW p \in Proc, pc[p] \in Suspended, CutShort(p),
         \/ UNCHANGED <<outbox, torn>>
         \/ outbox' = [o \in Proc |-> "none"] /\ torn' = TRUE
  PROVE  IInv'
<1> USE DEF IInv
<1>1. /\ Goto(p, "died") /\ todo' = {} /\ target' = 0 /\ mishaps' = mishaps + 1 /\ KeysKept
  BY DEF CutShort, Exit, Mishap, KeysKept
<1>2. \/ posts' = posts
      \/ /\ target \in Proc /\ outbox[target] = "pending" /\ posts[target] \in Nat
         /\ posts' = [posts EXCEPT ![target] = @ + 1]
  BY TargetIsPending DEF CutShort
<1>3. \A o \in Proc :
        posts'[o] = posts[o] \/ (posts'[o] = posts[o] + 1 /\ outbox[o] = "pending")
  BY <1>2 DEF TypeOK
<1>4. \A q \in Proc : pc'[q] = IF q = p THEN "died" ELSE pc[q]
  BY <1>1 DEF Goto, TypeOK
<1>5. \A q \in Proc : q # p => pc[q] \notin Suspended
  BY Alone
<1>6. TypeOK'
  <2>1. posts' \in [Proc -> Nat]
    BY <1>2 DEF TypeOK
  <2>2. outbox' \in [Proc -> OutboxStatus] /\ torn' \in BOOLEAN
    BY DEF TypeOK, OutboxStatus
  <2>3. pc' \in [Proc -> Place]
    BY <1>1 DEF TypeOK, Goto, Place, Exited
  <2> QED BY <1>1, <2>1, <2>2, <2>3 DEF TypeOK, KeysKept
<1>7. OneAtATime'
  BY <1>1, OrderKept
<1>8. TodoPending' /\ TargetPending'
  BY <1>1, <1>4, <1>5 DEF TodoPending, TargetPending, Suspended
<1>9. Unborn'
  <2> SUFFICES ASSUME NEW q \in Proc,
                      pc'[q] \in {"off", "dialing", "draining", "redelivering", "running"}
               PROVE  outbox'[q] = "none" /\ posts'[q] = 0
    BY DEF Unborn
  <2>1. outbox[q] = "none" /\ posts[q] = 0
    BY <1>4 DEF Unborn
  <2> QED BY <2>1, <1>3
<1>10. PostsPaid'
  <2> SUFFICES ASSUME NEW o \in Proc
               PROVE  posts'[o] <= (IF outbox'[o] = "delivered" THEN 1 ELSE 0) + mishaps'
    BY DEF PostsPaid
  <2>1. posts[o] <= (IF outbox[o] = "delivered" THEN 1 ELSE 0) + mishaps
    BY DEF PostsPaid
  <2>2. posts[o] \in Nat /\ mishaps \in Nat
    BY DEF TypeOK
  <2>3. CASE UNCHANGED outbox
    BY <2>1, <2>2, <2>3, <1>1, <1>3
  <2>4. CASE outbox' = [q \in Proc |-> "none"]
    BY <2>1, <2>2, <2>4, <1>1, <1>3
  <2> QED BY <2>3, <2>4
<1>11. OutboxKeeps'
  <2>1. CASE UNCHANGED <<outbox, torn>>
    <3> SUFFICES ASSUME ~torn, NEW o \in Proc
                 PROVE  /\ pc'[o] \in {"projecting", "posting", "exit0"} => outbox[o] # "none"
                        /\ posts'[o] > 0 => outbox[o] # "none"
                        /\ outbox[o] = "delivered" => posts'[o] > 0
      BY <2>1 DEF OutboxKeeps
    <3>1. posts[o] \in Nat
      BY DEF TypeOK
    <3> QED BY <3>1, <1>3, <1>4 DEF OutboxKeeps
  <2>2. CASE torn'
    BY <2>2 DEF OutboxKeeps
  <2> QED BY <2>1, <2>2
<1>12. KeysPaired'
  BY <1>1, PairKept
<1> QED BY <1>6, <1>7, <1>8, <1>9, <1>10, <1>11, <1>12
------------------------------------------------------------------------------
(* The theorems.                                                            *)

\* Every step keeps the invariant.
LEMMA StepInv == IInv /\ [Next]_vars => IInv'
<1> SUFFICES ASSUME IInv, [Next]_vars PROVE IInv'
  OBVIOUS
<1>1. CASE UNCHANGED vars
  BY <1>1, PolicyStep DEF vars, homeVars
<1>2. ASSUME NEW force \in BOOLEAN, initCommand(force) PROVE IInv'
  BY <1>2, PolicyStep DEF initCommand
<1>3. ASSUME NEW force \in BOOLEAN, NEW done \in 0..4, keygenCommand(force, done) PROVE IInv'
  BY <1>3, KeygenStep
<1>4. CASE EditPolicy
  BY <1>4, PolicyStep DEF EditPolicy
<1>5. ASSUME NEW p \in Proc, RunSteps(p) PROVE IInv'
  BY <1>5, DialedStep, AttemptStep, ProjectedStep, DrainedStep, SessionReturnsStep DEF RunSteps
<1>6. ASSUME NEW p \in Proc, Crash(p) PROVE IInv'
  BY <1>6, CutShortStep DEF Crash
<1>7. ASSUME NEW p \in Proc, TornCommit(p) PROVE IInv'
  BY <1>7, CutShortStep DEF TornCommit, Suspended
<1>8. ASSUME NEW p \in Proc, NEW e \in Environment, Launch(p, e) PROVE IInv'
  BY <1>8, LaunchStep
<1> QED BY <1>1, <1>2, <1>3, <1>4, <1>5, <1>6, <1>7, <1>8 DEF Next

\* The inductive invariant: runs follow one another, posts are of pending
\* obligations and paid for, the key files are a pair or one is missing.
THEOREM SpecInv == Spec => []IInv
<1>1. Init => IInv
  BY InitInv
<1>2. IInv /\ [Next]_vars => IInv'
  BY StepInv
<1> QED BY <1>1, <1>2, PTL DEF Spec

\* No obligation is lost and none is marked that was not shown, over any number
\* of deaths, refusals and restarts (outbox-relay.ts project, drain, attempt).
THEOREM SpecOutboxKeeps == Spec => []OutboxKeeps
<1>1. IInv => OutboxKeeps
  BY DEF IInv
<1> QED BY <1>1, SpecInv, PTL

\* A message is shown again only for a death, a lost answer or a failed mark.
THEOREM SpecRepeatIsExcused == Spec => []RepeatIsExcused
<1>1. IInv => RepeatIsExcused
  <2> SUFFICES ASSUME IInv, NEW o \in Proc PROVE posts[o] <= 1 + mishaps
    BY DEF RepeatIsExcused
  <2>1. posts[o] <= (IF outbox[o] = "delivered" THEN 1 ELSE 0) + mishaps
    BY DEF IInv, PostsPaid
  <2> QED BY <2>1 DEF IInv, TypeOK
<1> QED BY <1>1, SpecInv, PTL

\* The key `agp verify` picks is the one in place, through any number of
\* rotations of which one may die half way (keygen.ts, verify.ts).
THEOREM SpecVerifiesWithItsKey == Spec => []VerifiesWithItsKey
<1>1. IInv => VerifiesWithItsKey
  BY DEF IInv, TypeOK, KeysPaired, VerifiesWithItsKey, verificationKey
<1> QED BY <1>1, SpecInv, PTL
================================================================================
